----------------------------- MODULE PQSHProofs -----------------------------
(***************************************************************************)
(* Proofs about PQSH and its ProcessQueue, for any number of processes and *)
(* cores.  Under FIFO on two cores or more, queue_remove may leave a tail  *)
(* behind that scheduler_fifo pushes onto, and a process is lost (astray). *)
(* So there are two invariants: Sound, of the three queues, until that     *)
(* happens; and Kept, of the waiting queue and the sizes alone, which FIFO *)
(* keeps whatever the other two queues have become.                        *)
(***************************************************************************)
EXTENDS PQSH, FiniteSetTheorems, Induction

-----------------------------------------------------------------------------
(* Linked queues.                                                          *)

Queue == [head : Pointer, tail : Pointer, size : Nat]
Links == [Process -> Pointer]

\* The queue q is the chain s[1], s[2], ... of processes.
Chain(q, nx, s) ==
  /\ q.size \in Nat
  /\ s \in [1 .. q.size -> Process]
  /\ \A i, j \in 1 .. q.size : s[i] = s[j] => i = j
  /\ q.head = IF q.size = 0 THEN NULL ELSE s[1]
  /\ \A i \in 1 .. q.size : nx[s[i]] = IF i = q.size THEN NULL ELSE s[i + 1]

\* Its tail is the last of them.
TailOK(q, s) == q.size > 0 => q.tail = s[q.size]

On(s) == {s[i] : i \in DOMAIN s}

\* Its tail is the last of them or a process that has been removed.
LastOK(q, s) == q.size > 0 => q.tail \in Process /\ (q.tail \in On(s) => q.tail = s[q.size])

\* What the pointers of the processes of a chain have to be.
LEMMA ChainKept ==
  ASSUME NEW q, NEW nx, NEW ny, NEW s, Chain(q, nx, s), \A p \in On(s) : ny[p] = nx[p]
  PROVE  Chain(q, ny, s)
<1>1. \A i \in 1 .. q.size : s[i] \in On(s)
  BY DEF Chain, On
<1> QED BY <1>1 DEF Chain

LEMMA ChainOn ==
  ASSUME NEW q, NEW nx, NEW s, Chain(q, nx, s)
  PROVE  /\ On(s) = {s[i] : i \in 1 .. q.size} /\ On(s) \subseteq Process
         /\ DOMAIN s = 1 .. q.size
         /\ q.head = NULL <=> q.size = 0
         /\ q.size > 0 => q.head = s[1] /\ s[1] \in On(s)
BY ProcessAssumption DEF Chain, On

LEMMA ChainList ==
  ASSUME NEW q, NEW nx, NEW s, Chain(q, nx, s)
  PROVE  /\ \A k \in 1 .. q.size : s[k] \in Process /\ s[k] \in On(s)
         /\ \A k, l \in 1 .. q.size : s[k] = s[l] => k = l
         /\ On(s) = {s[k] : k \in 1 .. q.size}
<1>1. On(s) = {s[k] : k \in 1 .. q.size}
  BY ChainOn
<1>2. \A k \in 1 .. q.size : s[k] \in Process
  BY DEF Chain
<1>3. \A k, l \in 1 .. q.size : s[k] = s[l] => k = l
  BY DEF Chain
<1> QED BY <1>1, <1>2, <1>3

LEMMA TailIsLast ==
  ASSUME NEW q, NEW nx, NEW s, Chain(q, nx, s), TailOK(q, s)
  PROVE  LastOK(q, s)
<1>1. q.size > 0 => q.size \in 1 .. q.size
  BY DEF Chain
<1>2. q.size > 0 => s[q.size] \in Process
  BY <1>1 DEF Chain
<1> QED BY <1>2 DEF TailOK, LastOK

\* A walk meets the processes of the chain, in their order.
LEMMA WalkIs ==
  ASSUME NEW q, NEW nx, NEW s, Chain(q, nx, s), q.size <= Cardinality(Process)
  PROVE  \A i \in 1 .. Cardinality(Process) :
           Walk(q, nx)[i] = IF i <= q.size THEN s[i] ELSE NULL
<1> DEFINE N == Cardinality(Process)
           n == q.size
           g == [i \in 1 .. N |-> IF i <= n THEN s[i] ELSE NULL]
           Body(at) == [i \in 1 .. N |-> IF i = 1 THEN q.head
                                         ELSE IF at[i - 1] = NULL THEN NULL ELSE nx[at[i - 1]]]
           W == Walk(q, nx)
<1>1. N \in Nat /\ n \in Nat /\ n <= N
  BY ProcessAssumption, FS_CardinalityType DEF Chain
<1>2. /\ \A i \in 1 .. n : s[i] \in Process /\ s[i] # NULL
      /\ q.head = IF n = 0 THEN NULL ELSE s[1]
      /\ \A i \in 1 .. n : nx[s[i]] = IF i = n THEN NULL ELSE s[i + 1]
  BY ProcessAssumption DEF Chain
<1>3. W = CHOOSE at : at = Body(at)
  BY DEF Walk
<1> HIDE DEF N, n, W
<1>4. g = Body(g)
  <2>1. \A i \in 1 .. N : g[i] = IF i = 1 THEN q.head
                                 ELSE IF g[i - 1] = NULL THEN NULL ELSE nx[g[i - 1]]
    <3> SUFFICES ASSUME NEW i \in 1 .. N
                 PROVE  g[i] = IF i = 1 THEN q.head
                               ELSE IF g[i - 1] = NULL THEN NULL ELSE nx[g[i - 1]]
      OBVIOUS
    <3>1. CASE i = 1
      <4>1. g[i] = IF 1 <= n THEN s[1] ELSE NULL
        BY <3>1
      <4> QED BY <1>1, <1>2, <3>1, <4>1
    <3>2. CASE i # 1
      <4>1. i - 1 \in 1 .. N /\ (i - 1) + 1 = i /\ i \in Nat
        BY <1>1, <3>2
      <4>2. g[i - 1] = (IF i - 1 <= n THEN s[i - 1] ELSE NULL) /\ g[i] = IF i <= n THEN s[i] ELSE NULL
        BY <4>1
      <4>3. CASE i - 1 <= n
        <5>1. i - 1 \in 1 .. n
          BY <1>1, <4>1, <4>3
        <5>2. /\ s[i - 1] # NULL
              /\ nx[s[i - 1]] = IF i - 1 = n THEN NULL ELSE s[i]
          BY <1>2, <4>1, <5>1
        <5> QED BY <1>1, <3>2, <4>1, <4>2, <4>3, <5>2
      <4>4. CASE ~ (i - 1 <= n)
        <5>1. ~ (i <= n)
          BY <1>1, <4>1, <4>4
        <5> QED BY <3>2, <4>2, <4>4, <5>1
      <4> QED BY <4>3, <4>4
    <3> QED BY <3>1, <3>2
  <2> QED BY <2>1
<1>5. W = Body(W)
  <2> HIDE DEF Body, g
  <2> QED BY <1>3, <1>4
<1>6. \A i \in 1 .. N : W[i] = IF i = 1 THEN q.head
                               ELSE IF W[i - 1] = NULL THEN NULL ELSE nx[W[i - 1]]
  BY <1>5
<1>7. \A i \in 1 .. N : g[i] = IF i = 1 THEN q.head
                               ELSE IF g[i - 1] = NULL THEN NULL ELSE nx[g[i - 1]]
  BY <1>4
<1> HIDE DEF g, Body
<1> DEFINE S == {i \in 1 .. N : W[i] = g[i]}
<1>8. 1 .. N \subseteq S
  <2>1. 1 <= N => 1 \in S
    BY <1>1, <1>6, <1>7
  <2>2. \A i \in 1 .. N - 1 : i \in S => i + 1 \in S
    <3> SUFFICES ASSUME NEW i \in 1 .. N - 1, W[i] = g[i] PROVE i + 1 \in S
      OBVIOUS
    <3>1. i + 1 \in 1 .. N /\ (i + 1) - 1 = i /\ i + 1 # 1
      BY <1>1
    <3> QED BY <1>6, <1>7, <3>1
  <2> HIDE DEF S
  <2> QED BY <1>1, <2>1, <2>2, IntervalInduction
<1> QED BY <1>8 DEF g, N, n, W

\* A chain is no longer than there are processes, and its walk meets exactly its
\* processes: the size of the queue is how many there are.
LEMMA ChainMembers ==
  ASSUME NEW q, NEW nx, NEW s, Chain(q, nx, s)
  PROVE  /\ Members(q, nx) = On(s) /\ Cardinality(On(s)) = q.size /\ IsFiniteSet(On(s))
         /\ q.size <= Cardinality(Process)
<1> DEFINE n == q.size
<1>1. n \in Nat /\ s \in [1 .. n -> Process] /\ \A i, j \in 1 .. n : s[i] = s[j] => i = j
  BY DEF Chain
<1>2. On(s) = {s[i] : i \in 1 .. n}
  BY <1>1 DEF On
<1>3. n <= Cardinality(Process)
  <2>1. s \in Injection(1 .. n, Process)
    BY <1>1 DEF Injection, IsInjective
  <2>2. Cardinality(1 .. n) = n
    BY <1>1, FS_Interval
  <2> HIDE DEF n
  <2> QED BY <2>1, <2>2, ProcessAssumption, FS_Injection
<1>4. IsFiniteSet(On(s)) /\ Cardinality(On(s)) = n
  <2>1. s \in Surjection(1 .. n, On(s)) /\ s \in Injection(1 .. n, On(s))
    BY <1>1, <1>2 DEF Surjection, Injection, IsInjective
  <2>2. IsFiniteSet(1 .. n) /\ Cardinality(1 .. n) = n
    BY <1>1, FS_Interval
  <2> HIDE DEF n
  <2> QED BY <2>1, <2>2, FS_Surjection
<1>5. Members(q, nx) = On(s)
  <2> DEFINE N == Cardinality(Process)
  <2>1. N \in Nat
    BY ProcessAssumption, FS_CardinalityType
  <2>2. \A i \in 1 .. N : Walk(q, nx)[i] = IF i <= n THEN s[i] ELSE NULL
    BY <1>3, WalkIs
  <2>3. \A i \in 1 .. n : s[i] # NULL /\ i \in 1 .. N
    BY <1>1, <1>3, <2>1, ProcessAssumption
  <2> HIDE DEF n, N
  <2>4. {Walk(q, nx)[i] : i \in 1 .. N} \ {NULL} = {s[i] : i \in 1 .. n}
    <3>1. \A i \in 1 .. N : Walk(q, nx)[i] # NULL => i \in 1 .. n /\ Walk(q, nx)[i] = s[i]
      BY <1>1, <2>1, <2>2
    <3>2. \A i \in 1 .. n : Walk(q, nx)[i] = s[i]
      BY <1>1, <2>2, <2>3
    <3> QED BY <2>3, <3>1, <3>2
  <2> QED BY <1>2, <2>4 DEF Members, N
<1> QED BY <1>3, <1>4, <1>5

\* Chains with a process more at the end, and without the k-th one.
Longer(s, n, p)  == [i \in 1 .. n + 1 |-> IF i = n + 1 THEN p ELSE s[i]]
Without(s, n, k) == [i \in 1 .. n - 1 |-> IF i < k THEN s[i] ELSE s[i + 1]]

\* queue_push onto a chain whose tail is right yields the longer chain, and changes the
\* pointers of the processes on it only.
LEMMA PushChain ==
  ASSUME NEW q \in Queue, NEW nx \in Links,
         NEW s, Chain(q, nx, s), TailOK(q, s), NEW p \in Process, p \notin On(s),
         NEW t, t = Longer(s, q.size, p), NEW qq, qq = Push(q, nx, p).queue,
         NEW ny, ny = Push(q, nx, p).next
  PROVE  /\ qq \in Queue /\ ny \in Links
         /\ Chain(qq, ny, t) /\ TailOK(qq, t) /\ qq.size = q.size + 1
         /\ On(t) = On(s) \cup {p} /\ t[q.size + 1] = p
         /\ \A i \in 1 .. q.size : t[i] = s[i]
         /\ \A x \in Process : x \notin On(t) => ny[x] = nx[x]
<1> USE DEF Queue, Links
<1> DEFINE n == q.size
<1>1. /\ n \in Nat /\ s \in [1 .. n -> Process] /\ \A i, j \in 1 .. n : s[i] = s[j] => i = j
      /\ q.head = IF n = 0 THEN NULL ELSE s[1]
      /\ \A i \in 1 .. n : nx[s[i]] = IF i = n THEN NULL ELSE s[i + 1]
      /\ n > 0 => q.tail = s[n]
  BY DEF Chain, TailOK
<1>2. \A i \in 1 .. n : s[i] # NULL /\ s[i] # p
  BY <1>1, ProcessAssumption DEF On
<1>3. /\ t \in [1 .. n + 1 -> Process] /\ t[n + 1] = p /\ \A i \in 1 .. n : t[i] = s[i]
      /\ DOMAIN t = 1 .. n + 1
  BY <1>1 DEF Longer
<1>4. \A i \in 1 .. n + 1 : i = n + 1 \/ i \in 1 .. n
  BY <1>1
<1>5. On(t) = On(s) \cup {p}
  <2>1. On(s) = {s[i] : i \in 1 .. n} /\ On(t) = {t[i] : i \in 1 .. n + 1}
    BY <1>1, <1>3 DEF On
  <2>2. n + 1 \in 1 .. n + 1 /\ \A i \in 1 .. n : i \in 1 .. n + 1
    BY <1>1
  <2>3. On(t) \subseteq On(s) \cup {p}
    <3> SUFFICES ASSUME NEW i \in 1 .. n + 1 PROVE t[i] \in On(s) \cup {p}
      BY <2>1
    <3>1. CASE i = n + 1
      BY <1>3, <3>1
    <3>2. CASE i \in 1 .. n
      BY <1>3, <2>1, <3>2
    <3> QED BY <1>4, <3>1, <3>2
  <2>4. \A i \in 1 .. n : s[i] \in On(t)
    BY <1>3, <2>1, <2>2
  <2>5. p \in On(t)
    BY <1>3, <2>1, <2>2
  <2> QED BY <2>1, <2>3, <2>4, <2>5
<1>6. \A i, j \in 1 .. n + 1 : t[i] = t[j] => i = j
  <2> SUFFICES ASSUME NEW i \in 1 .. n + 1, NEW j \in 1 .. n + 1, t[i] = t[j] PROVE i = j
    OBVIOUS
  <2>1. CASE i = n + 1
    BY <1>2, <1>3, <1>4, <2>1
  <2>2. CASE i \in 1 .. n
    <3>1. t[i] = s[i] /\ s[i] # p
      BY <1>2, <1>3, <2>2
    <3>2. j \in 1 .. n
      BY <1>3, <1>4, <3>1
    <3>3. t[j] = s[j]
      BY <1>3, <3>2
    <3>4. \A a, b \in 1 .. n : s[a] = s[b] => a = b
      BY <1>1
    <3>5. s[i] = s[j] /\ i \in 1 .. n /\ j \in 1 .. n
      BY <2>2, <3>1, <3>2, <3>3
    <3> HIDE DEF n
    <3> QED BY <3>4, <3>5
  <2> QED BY <1>4, <2>1, <2>2
<1>7. CASE n = 0
  <2>1. qq = [head |-> p, tail |-> p, size |-> 1] /\ ny = [nx EXCEPT ![p] = NULL]
    BY <1>1, <1>7 DEF Push
  <2>2. qq.size = 1 /\ qq.head = p /\ qq.tail = p /\ ny[p] = NULL
    BY <2>1
  <2>3. Chain(qq, ny, t)
    BY <1>3, <1>6, <1>7, <2>2 DEF Chain
  <2>4. TailOK(qq, t)
    BY <1>3, <1>7, <2>2 DEF TailOK
  <2>5. qq \in Queue /\ ny \in Links
    BY <2>1 DEF Pointer
  <2>6. \A x \in Process : x \notin On(t) => ny[x] = nx[x]
    BY <1>5, <2>1
  <2> QED BY <1>3, <1>5, <1>7, <2>2, <2>3, <2>4, <2>5, <2>6
<1>8. CASE n # 0
  <2>1. q.head # NULL /\ q.tail # NULL /\ q.tail = s[n] /\ s[n] \in On(s) /\ n \in 1 .. n
        /\ 1 \in 1 .. n /\ q.head = s[1]
    BY <1>1, <1>2, <1>8 DEF On
  <2>2. /\ qq = [q EXCEPT !.tail = p, !.size = @ + 1]
        /\ ny = [nx EXCEPT ![q.tail] = p, ![p] = NULL]
    BY <2>1 DEF Push
  <2>3. qq.size = n + 1 /\ qq.head = s[1] /\ qq.tail = p
    BY <2>1, <2>2
  <2>4. ny[p] = NULL /\ ny[s[n]] = p /\ \A x \in Process : x # p /\ x # s[n] => ny[x] = nx[x]
    <3>1. ny = [nx EXCEPT ![s[n]] = p, ![p] = NULL] /\ s[n] # p /\ s[n] \in Process
      BY <1>1, <1>2, <2>1, <2>2
    <3> QED BY <3>1
  <2>5. \A i \in 1 .. n + 1 : ny[t[i]] = IF i = n + 1 THEN NULL ELSE t[i + 1]
    <3> SUFFICES ASSUME NEW i \in 1 .. n + 1
                 PROVE  ny[t[i]] = IF i = n + 1 THEN NULL ELSE t[i + 1]
      OBVIOUS
    <3>1. CASE i = n + 1
      BY <1>3, <2>4, <3>1
    <3>2. CASE i = n
      <4>1. t[i] = s[n] /\ t[i + 1] = p /\ i # n + 1
        BY <1>1, <1>3, <2>1, <3>2
      <4> QED BY <2>4, <4>1
    <3>3. CASE i \in 1 .. n /\ i # n
      <4>1. i + 1 \in 1 .. n /\ i # n + 1 /\ t[i] = s[i] /\ t[i + 1] = s[i + 1]
        BY <1>1, <1>3, <3>3
      <4>2. s[i] # s[n] /\ s[i] # p /\ s[i] \in Process
        BY <1>1, <1>2, <2>1, <3>3
      <4> QED BY <1>1, <2>4, <3>3, <4>1, <4>2
    <3> QED BY <1>4, <3>1, <3>2, <3>3
  <2>6. Chain(qq, ny, t)
    <3>1. t[1] = s[1] /\ n + 1 # 0 /\ n + 1 \in Nat
      BY <1>1, <1>3, <2>1
    <3>2. qq.size = n + 1 /\ qq.head = t[1]
      BY <2>3, <3>1
    <3>3. t \in [1 .. n + 1 -> Process]
      BY <1>3
    <3> HIDE DEF n
    <3> QED BY <1>6, <2>5, <3>1, <3>2, <3>3 DEF Chain
  <2>7. TailOK(qq, t)
    BY <1>3, <2>3 DEF TailOK
  <2>8. qq \in Queue /\ ny \in Links
    <3>1. qq \in Queue
      <4>1. qq = [head |-> q.head, tail |-> p, size |-> n + 1]
        BY <2>2
      <4>2. n + 1 \in Nat /\ q.head \in Pointer /\ p \in Pointer
        BY <1>1 DEF Pointer
      <4> HIDE DEF n
      <4> QED BY <4>1, <4>2
    <3>2. ny \in Links
      BY <2>2 DEF Pointer
    <3> QED BY <3>1, <3>2
  <2>9. \A x \in Process : x \notin On(t) => ny[x] = nx[x]
    BY <1>5, <2>1, <2>4
  <2> QED BY <1>3, <1>5, <2>3, <2>6, <2>7, <2>8, <2>9
<1> QED BY <1>7, <1>8

\* What is left of a chain without its k-th process.
LEMMA WithoutIs ==
  ASSUME NEW n \in Nat, NEW s \in [1 .. n -> Process],
         \A i, j \in 1 .. n : s[i] = s[j] => i = j,
         NEW k \in 1 .. n, NEW t, t = Without(s, n, k)
  PROVE  /\ t \in [1 .. n - 1 -> Process] /\ n - 1 \in Nat
         /\ \A i \in 1 .. n - 1 : t[i] = IF i < k THEN s[i] ELSE s[i + 1]
         /\ \A i, j \in 1 .. n - 1 : t[i] = t[j] => i = j
         /\ On(t) = On(s) \ {s[k]}
<1>1. \A i \in 1 .. n - 1 : i \in 1 .. n /\ i + 1 \in 1 .. n
  OBVIOUS
<1>2. t \in [1 .. n - 1 -> Process] /\ n - 1 \in Nat
      /\ \A i \in 1 .. n - 1 : t[i] = IF i < k THEN s[i] ELSE s[i + 1]
  BY <1>1 DEF Without
<1>3. \A i, j \in 1 .. n - 1 : t[i] = t[j] => i = j
  BY <1>1, <1>2
<1>4. On(t) = {t[i] : i \in 1 .. n - 1} /\ On(s) = {s[i] : i \in 1 .. n}
  BY <1>2 DEF On
<1>5. \A i \in 1 .. n - 1 : t[i] \in On(s) /\ t[i] # s[k]
  BY <1>1, <1>2, <1>4
<1>6. \A i \in 1 .. n : i # k => s[i] \in On(t)
  <2> SUFFICES ASSUME NEW i \in 1 .. n, i # k PROVE s[i] \in On(t)
    OBVIOUS
  <2>1. CASE i < k
    <3>1. i \in 1 .. n - 1 /\ t[i] = s[i]
      BY <1>2, <2>1
    <3> QED BY <1>4, <3>1
  <2>2. CASE i > k
    <3>1. i - 1 \in 1 .. n - 1 /\ ~ (i - 1 < k) /\ (i - 1) + 1 = i
      BY <2>2
    <3>2. t[i - 1] = s[i]
      BY <1>2, <3>1
    <3> QED BY <1>4, <3>1, <3>2
  <2> QED BY <2>1, <2>2
<1>7. On(t) = On(s) \ {s[k]}
  BY <1>4, <1>5, <1>6
<1> QED BY <1>2, <1>3, <1>7

\* queue_pop of a chain that is not empty takes its first process off.
LEMMA PopChain ==
  ASSUME NEW q \in Queue, NEW nx \in Links,
         NEW s, Chain(q, nx, s), q.size > 0,
         NEW t, t = Without(s, q.size, 1), NEW qq, qq = Pop(q, nx).queue,
         NEW ny, ny = Pop(q, nx).next
  PROVE  /\ qq \in Queue /\ ny \in Links
         /\ Chain(qq, ny, t) /\ qq.size = q.size - 1
         /\ (TailOK(q, s) => TailOK(qq, t)) /\ (LastOK(q, s) => LastOK(qq, t))
         /\ On(t) = On(s) \ {q.head} /\ q.head \in On(s) /\ q.head \in Process /\ q.head = s[1]
         /\ \A i \in 1 .. q.size - 1 : t[i] = s[i + 1]
         /\ \A x \in Process : x # q.head => ny[x] = nx[x]
<1> USE DEF Queue, Links
<1> DEFINE n == q.size
<1>1. /\ n \in Nat /\ s \in [1 .. n -> Process] /\ \A i, j \in 1 .. n : s[i] = s[j] => i = j
      /\ q.head = s[1] /\ 1 \in 1 .. n /\ n > 0
      /\ \A i \in 1 .. n : nx[s[i]] = IF i = n THEN NULL ELSE s[i + 1]
  BY DEF Chain
<1>2. /\ t \in [1 .. n - 1 -> Process] /\ n - 1 \in Nat
      /\ \A i \in 1 .. n - 1 : t[i] = IF i < 1 THEN s[i] ELSE s[i + 1]
      /\ \A i, j \in 1 .. n - 1 : t[i] = t[j] => i = j
      /\ On(t) = On(s) \ {s[1]}
  <2>1. t = Without(s, n, 1)
    OBVIOUS
  <2>2. n \in Nat /\ s \in [1 .. n -> Process] /\ 1 \in 1 .. n
    BY <1>1
  <2>3. \A i, j \in 1 .. n : s[i] = s[j] => i = j
    BY <1>1
  <2> HIDE DEF n
  <2> QED BY <2>1, <2>2, <2>3, WithoutIs
<1>3. \A i \in 1 .. n - 1 : t[i] = s[i + 1] /\ i + 1 \in 1 .. n
  BY <1>1, <1>2
<1>4. s[1] \in Process /\ s[1] # NULL /\ s[1] \in On(s)
  BY <1>1, ProcessAssumption DEF On
<1>5. /\ qq = [head |-> nx[s[1]], tail |-> IF nx[s[1]] = NULL THEN NULL ELSE q.tail, size |-> n - 1]
      /\ ny = [nx EXCEPT ![s[1]] = NULL]
  BY <1>1, <1>4 DEF Pop
<1>6. /\ qq.size = n - 1 /\ qq.head = nx[s[1]]
      /\ qq.tail = IF nx[s[1]] = NULL THEN NULL ELSE q.tail
      /\ \A x \in Process : x # s[1] => ny[x] = nx[x]
      /\ nx[s[1]] \in Pointer
  BY <1>4, <1>5
<1>7. qq \in Queue /\ ny \in Links
  <2>1. qq \in Queue
    BY <1>2, <1>5, <1>6 DEF Pointer
  <2>2. ny \in Links
    BY <1>5 DEF Pointer
  <2> QED BY <2>1, <2>2
<1>8. qq.head = IF n - 1 = 0 THEN NULL ELSE t[1]
  <2>1. CASE n = 1
    BY <1>1, <1>6, <2>1
  <2>2. CASE n # 1
    <3>1. 1 \in 1 .. n - 1 /\ nx[s[1]] = s[2] /\ t[1] = s[2] /\ n - 1 # 0
      BY <1>1, <1>3, <2>2
    <3> QED BY <1>6, <3>1
  <2> QED BY <2>1, <2>2
<1>9. \A i \in 1 .. n - 1 : ny[t[i]] = IF i = n - 1 THEN NULL ELSE t[i + 1]
  <2> SUFFICES ASSUME NEW i \in 1 .. n - 1
               PROVE  ny[t[i]] = IF i = n - 1 THEN NULL ELSE t[i + 1]
    OBVIOUS
  <2>1. t[i] = s[i + 1] /\ i + 1 \in 1 .. n /\ i + 1 # 1 /\ s[i + 1] \in Process
    BY <1>1, <1>3
  <2>2. s[i + 1] # s[1]
    BY <1>1, <2>1
  <2>3. ny[t[i]] = nx[s[i + 1]]
    BY <1>6, <2>1, <2>2
  <2>4. CASE i = n - 1
    BY <1>1, <2>1, <2>3, <2>4
  <2>5. CASE i # n - 1
    <3>1. i + 1 \in 1 .. n - 1 /\ i + 1 # n
      BY <1>1, <2>5
    <3>2. t[i + 1] = s[(i + 1) + 1] /\ nx[s[i + 1]] = s[(i + 1) + 1]
      BY <1>1, <1>3, <2>1, <3>1
    <3> QED BY <2>3, <2>5, <3>2
  <2> QED BY <2>4, <2>5
<1>10. Chain(qq, ny, t)
  BY <1>2, <1>6, <1>8, <1>9 DEF Chain
<1>11. TailOK(q, s) => TailOK(qq, t)
  <2> SUFFICES ASSUME TailOK(q, s), qq.size > 0 PROVE qq.tail = t[qq.size]
    BY DEF TailOK
  <2>1. n - 1 > 0 /\ n # 1
    BY <1>1, <1>6
  <2>2. q.tail = s[n] /\ nx[s[1]] = s[2] /\ s[2] # NULL /\ t[n - 1] = s[n]
    <3>1. q.tail = s[n]
      BY <1>1 DEF TailOK
    <3>2. nx[s[1]] = s[2] /\ s[2] \in Process
      BY <1>1, <2>1
    <3>3. n - 1 \in 1 .. n - 1 /\ (n - 1) + 1 = n
      BY <1>1, <2>1
    <3> QED BY <1>3, <3>1, <3>2, <3>3, ProcessAssumption
  <2> QED BY <1>6, <2>2
<1>12. LastOK(q, s) => LastOK(qq, t)
  <2> SUFFICES ASSUME LastOK(q, s), qq.size > 0
               PROVE  qq.tail \in Process /\ (qq.tail \in On(t) => qq.tail = t[qq.size])
    BY DEF LastOK
  <2>1. n - 1 > 0 /\ n # 1
    BY <1>1, <1>6
  <2>2. nx[s[1]] = s[2] /\ s[2] # NULL /\ t[n - 1] = s[n]
    <3>1. nx[s[1]] = s[2] /\ s[2] \in Process
      BY <1>1, <2>1
    <3>2. n - 1 \in 1 .. n - 1 /\ (n - 1) + 1 = n
      BY <1>1, <2>1
    <3> QED BY <1>3, <3>1, <3>2, ProcessAssumption
  <2>3. qq.tail = q.tail /\ q.tail \in Process /\ (q.tail \in On(s) => q.tail = s[n])
    BY <1>1, <1>6, <2>2 DEF LastOK
  <2> QED BY <1>2, <1>6, <2>2, <2>3
<1> QED BY <1>1, <1>2, <1>3, <1>4, <1>6, <1>7, <1>10, <1>11, <1>12

\* queue_remove of a process on the chain takes it out and links its neighbours; the tail
\* may be the process removed.
LEMMA RemoveChain ==
  ASSUME NEW q \in Queue, NEW nx \in Links,
         NEW s, Chain(q, nx, s), NEW k \in 1 .. q.size, NEW p, p = s[k],
         NEW t, t = Without(s, q.size, k), NEW qq, qq = Remove(q, nx, p).queue,
         NEW ny, ny = Remove(q, nx, p).next
  PROVE  /\ qq \in Queue /\ ny \in Links
         /\ Chain(qq, ny, t) /\ qq.size = q.size - 1 /\ On(t) = On(s) \ {p}
         /\ (LastOK(q, s) => LastOK(qq, t))
         /\ \A x \in Process : x \notin On(s) => ny[x] = nx[x]
<1> USE DEF Queue, Links
<1> DEFINE n == q.size
<1>1. /\ n \in Nat /\ s \in [1 .. n -> Process] /\ \A i, j \in 1 .. n : s[i] = s[j] => i = j
      /\ \A i \in 1 .. n : nx[s[i]] = IF i = n THEN NULL ELSE s[i + 1]
  BY DEF Chain
<1>2. q.head = s[1] /\ 1 \in 1 .. n /\ n > 0 /\ k \in 1 .. n
  BY <1>1 DEF Chain
<1>3. /\ t \in [1 .. n - 1 -> Process] /\ n - 1 \in Nat
      /\ \A i \in 1 .. n - 1 : t[i] = IF i < k THEN s[i] ELSE s[i + 1]
      /\ \A i, j \in 1 .. n - 1 : t[i] = t[j] => i = j
      /\ On(t) = On(s) \ {p}
  <2>1. t = Without(s, n, k)
    OBVIOUS
  <2> HIDE DEF n
  <2>2. n \in Nat
    BY <1>1
  <2>3. s \in [1 .. n -> Process] /\ k \in 1 .. n /\ p = s[k]
    BY <1>1, <1>2
  <2>4. \A i, j \in 1 .. n : s[i] = s[j] => i = j
    BY <1>1
  <2>5. \A u : u = Without(s, n, k) =>
              /\ u \in [1 .. n - 1 -> Process] /\ n - 1 \in Nat
              /\ \A i \in 1 .. n - 1 : u[i] = IF i < k THEN s[i] ELSE s[i + 1]
              /\ \A i, j \in 1 .. n - 1 : u[i] = u[j] => i = j
              /\ On(u) = On(s) \ {s[k]}
    BY <2>2, <2>3, <2>4, WithoutIs, SMTT(60)
  <2> QED BY <2>1, <2>3, <2>5
<1>4. p \in Process /\ p # NULL /\ p \in On(s)
  BY <1>1, <1>2, ProcessAssumption DEF On
<1>5. CASE k = 1
  <2>1. qq = Pop(q, nx).queue /\ ny = Pop(q, nx).next /\ t = Without(s, q.size, 1)
    BY <1>2, <1>5 DEF Remove
  <2>2. q.size > 0
    BY <1>2
  <2>3. /\ qq \in Queue /\ ny \in Links
        /\ Chain(qq, ny, t) /\ qq.size = q.size - 1 /\ (LastOK(q, s) => LastOK(qq, t))
        /\ \A x \in Process : x # q.head => ny[x] = nx[x]
    <3> HIDE DEF n
    <3> QED BY <2>1, <2>2, PopChain
  <2> QED BY <1>2, <1>3, <1>4, <1>5, <2>3
<1>6. CASE k # 1
  <2> DEFINE prev == CHOOSE r \in Members(q, nx) : nx[r] = p
  <2>1. q.head # p
    BY <1>1, <1>2, <1>6
  <2>2. k - 1 \in 1 .. n /\ (k - 1) + 1 = k /\ k - 1 # n
    BY <1>1, <1>2, <1>6
  <2>3. nx[s[k - 1]] = p /\ s[k - 1] \in Process /\ s[k - 1] # p
    BY <1>1, <1>2, <2>2
  <2>4. prev = s[k - 1]
    <3>1. Members(q, nx) = {s[i] : i \in 1 .. n}
      <4>1. Members(q, nx) = On(s)
        BY ChainMembers
      <4> QED BY <1>1, <4>1 DEF On
    <3>2. \A i \in 1 .. n : nx[s[i]] = p => i = k - 1
      <4> SUFFICES ASSUME NEW i \in 1 .. n, nx[s[i]] = p PROVE i = k - 1
        OBVIOUS
      <4>1. i # n
        BY <1>1, <1>4
      <4>2. i + 1 \in 1 .. n /\ s[i + 1] = s[k]
        BY <1>1, <4>1
      <4>3. i + 1 = k
        BY <1>1, <1>2, <4>2
      <4> QED BY <4>3
    <3>3. \A r \in Members(q, nx) : nx[r] = p => r = s[k - 1]
      BY <3>1, <3>2
    <3>4. s[k - 1] \in Members(q, nx) /\ nx[s[k - 1]] = p
      BY <2>2, <2>3, <3>1
    <3> HIDE DEF n
    <3> QED BY <3>3, <3>4
  <2>5. qq = [q EXCEPT !.size = @ - 1] /\ ny = [nx EXCEPT ![prev] = nx[p], ![p] = NULL]
    BY <2>1 DEF Remove
  <2> HIDE DEF prev
  <2>6. qq.size = n - 1 /\ qq.head = s[1] /\ qq.tail = q.tail /\ qq \in Queue
    <3>1. qq = [head |-> q.head, tail |-> q.tail, size |-> n - 1]
      BY <2>5
    <3> HIDE DEF n
    <3> QED BY <1>2, <1>3, <3>1
  <2>7. nx[p] = (IF k = n THEN NULL ELSE s[k + 1]) /\ nx[p] \in Pointer
    BY <1>1, <1>2, <1>4
  <2>8. /\ ny \in Links /\ ny[s[k - 1]] = nx[p]
        /\ \A x \in Process : x # p /\ x # s[k - 1] => ny[x] = nx[x]
    <3>1. ny = [nx EXCEPT ![s[k - 1]] = nx[p], ![p] = NULL]
      BY <2>4, <2>5
    <3>2. ny[s[k - 1]] = nx[p] /\ \A x \in Process : x # p /\ x # s[k - 1] => ny[x] = nx[x]
      BY <2>3, <3>1
    <3>3. ny \in Links
      BY <2>7, <3>1 DEF Pointer
    <3> QED BY <3>2, <3>3
  <2>9. \A i \in 1 .. n - 1 : ny[t[i]] = IF i = n - 1 THEN NULL ELSE t[i + 1]
    <3> SUFFICES ASSUME NEW i \in 1 .. n - 1
                 PROVE  ny[t[i]] = IF i = n - 1 THEN NULL ELSE t[i + 1]
      OBVIOUS
    <3>1. i \in 1 .. n /\ i + 1 \in 1 .. n /\ i # n
      BY <1>1
    <3>2. CASE i < k - 1
      <4>1. t[i] = s[i] /\ i # n - 1 /\ i + 1 \in 1 .. n - 1 /\ i + 1 < k /\ t[i + 1] = s[i + 1]
        BY <1>1, <1>2, <1>3, <3>1, <3>2
      <4>2. s[i] # p /\ s[i] # s[k - 1] /\ s[i] \in Process
        BY <1>1, <1>2, <2>2, <3>1, <3>2
      <4>3. nx[s[i]] = s[i + 1]
        BY <1>1, <3>1
      <4> QED BY <2>8, <4>1, <4>2, <4>3
    <3>3. CASE i = k - 1
      <4>1. t[i] = s[k - 1] /\ ny[t[i]] = nx[p]
        BY <1>3, <2>2, <2>8, <3>3
      <4>2. i = n - 1 <=> k = n
        BY <1>1, <1>2, <3>3
      <4>3. i # n - 1 => t[i + 1] = s[k + 1]
        <5> SUFFICES ASSUME i # n - 1 PROVE t[i + 1] = s[k + 1]
          OBVIOUS
        <5>1. i + 1 \in 1 .. n - 1 /\ ~ (i + 1 < k) /\ i + 1 = k
          BY <1>1, <1>2, <3>3
        <5> QED BY <1>3, <5>1
      <4> QED BY <2>7, <4>1, <4>2, <4>3
    <3>4. CASE i >= k
      <4>1. t[i] = s[i + 1]
        BY <1>2, <1>3, <3>4
      <4>2. s[i + 1] # p /\ s[i + 1] # s[k - 1] /\ s[i + 1] \in Process
        BY <1>1, <1>2, <2>2, <3>1, <3>4
      <4>3. ny[t[i]] = nx[s[i + 1]]
        BY <2>8, <4>1, <4>2
      <4>4. CASE i = n - 1
        BY <1>1, <3>1, <4>3, <4>4
      <4>5. CASE i # n - 1
        <5>1. i + 1 \in 1 .. n - 1 /\ ~ (i + 1 < k) /\ i + 1 # n
          <6>1. n \in Nat /\ k \in 1 .. n /\ i \in 1 .. n - 1 /\ i >= k /\ i # n - 1
            BY <1>1, <1>2, <3>4, <4>5
          <6> HIDE DEF n
          <6> QED BY <6>1
        <5>2. t[i + 1] = s[(i + 1) + 1] /\ nx[s[i + 1]] = s[(i + 1) + 1]
          BY <1>1, <1>3, <3>1, <5>1
        <5> QED BY <4>3, <4>5, <5>2
      <4> QED BY <4>4, <4>5
    <3> QED BY <1>2, <2>2, <3>1, <3>2, <3>3, <3>4
  <2>10. Chain(qq, ny, t)
    <3>1. n - 1 # 0 /\ 1 \in 1 .. n - 1 /\ 1 < k
      BY <1>1, <1>2, <1>6
    <3>2. qq.head = t[1]
      BY <1>3, <2>6, <3>1
    <3> QED BY <1>3, <2>6, <2>9, <3>1, <3>2 DEF Chain
  <2>11. \A x \in Process : x \notin On(s) => ny[x] = nx[x]
    <3>1. s[k - 1] \in On(s)
      BY <1>1, <2>2 DEF On
    <3> QED BY <1>4, <2>8, <3>1
  <2>12. LastOK(q, s) => LastOK(qq, t)
    <3> SUFFICES ASSUME LastOK(q, s)
                 PROVE  q.tail \in Process /\ (q.tail \in On(t) => q.tail = t[n - 1])
      BY <2>6 DEF LastOK
    <3>1. q.tail \in Process /\ (q.tail \in On(s) => q.tail = s[n])
      BY <1>2 DEF LastOK
    <3>2. ASSUME q.tail \in On(t) PROVE q.tail = t[n - 1]
      <4>1. q.tail = s[n] /\ s[n] # s[k]
        BY <1>3, <3>1, <3>2
      <4>2. k # n
        BY <4>1
      <4>3. n - 1 \in 1 .. n - 1 /\ ~ (n - 1 < k) /\ (n - 1) + 1 = n
        BY <1>1, <1>2, <4>2
      <4> QED BY <1>3, <4>1, <4>3
    <3> QED BY <3>1, <3>2
  <2> QED BY <1>3, <2>6, <2>8, <2>10, <2>11, <2>12
<1> QED BY <1>5, <1>6

\* A queue that is a chain has its type: its size is bounded by the processes there are.
LEMMA ChainType ==
  ASSUME NEW q \in Queue, NEW nx, NEW s, Chain(q, nx, s)
  PROVE  q \in QueueType
<1> USE DEF Queue, Links
<1>1. q.size <= Cardinality(Process) /\ Cardinality(Process) \in Nat
  BY ChainMembers, ProcessAssumption, FS_CardinalityType
<1>2. q.size \in 0 .. Cardinality(Process)
  BY <1>1
<1>3. q = [head |-> q.head, tail |-> q.tail, size |-> q.size]
  OBVIOUS
<1> QED BY <1>2, <1>3 DEF QueueType

\* Three chains share no process and hold those of the set S.
ThreeChains(a, s, b, t, c, u, nx, S) ==
  /\ Chain(a, nx, s) /\ Chain(b, nx, t) /\ Chain(c, nx, u)
  /\ On(s) \cap On(t) = {} /\ On(s) \cap On(u) = {} /\ On(t) \cap On(u) = {}
  /\ On(s) \cup On(t) \cup On(u) = S

AfterPush(a, s, b, t, c, u, nx, S, p) ==
  LET bb == Push(b, nx, p).queue
      ny == Push(b, nx, p).next
      tt == Longer(t, b.size, p)
  IN  /\ bb \in Queue /\ ny \in Links
      /\ ThreeChains(a, s, bb, tt, c, u, ny, S \cup {p}) /\ TailOK(bb, tt)
      /\ bb.size = b.size + 1 /\ On(tt) = On(t) \cup {p} /\ tt[b.size + 1] = p
      /\ \A i \in 1 .. b.size : tt[i] = t[i]

\* What is pushed onto one of three chains must not be on any.
LEMMA PushOnOne ==
  ASSUME NEW a, NEW b \in Queue, NEW c,
         NEW nx \in Links, NEW s, NEW t, NEW u, NEW S,
         ThreeChains(a, s, b, t, c, u, nx, S), TailOK(b, t),
         NEW p \in Process, p \notin S
  PROVE  AfterPush(a, s, b, t, c, u, nx, S, p)
<1> DEFINE bb == Push(b, nx, p).queue
           ny == Push(b, nx, p).next
           tt == Longer(t, b.size, p)
<1>1. Chain(a, nx, s) /\ Chain(b, nx, t) /\ Chain(c, nx, u)
  BY DEF ThreeChains
<1>2. p \notin On(s) /\ p \notin On(t) /\ p \notin On(u)
  BY DEF ThreeChains
<1>3. /\ bb \in Queue /\ ny \in Links
      /\ Chain(bb, ny, tt) /\ TailOK(bb, tt) /\ bb.size = b.size + 1
      /\ On(tt) = On(t) \cup {p} /\ tt[b.size + 1] = p
      /\ \A i \in 1 .. b.size : tt[i] = t[i]
      /\ \A x \in Process : x \notin On(tt) => ny[x] = nx[x]
  BY <1>1, <1>2, PushChain
<1> HIDE DEF bb, ny, tt
<1>4. On(s) \subseteq Process /\ On(u) \subseteq Process
  BY <1>1, ChainOn
<1>5. (\A x \in On(s) : ny[x] = nx[x]) /\ \A x \in On(u) : ny[x] = nx[x]
  BY <1>2, <1>3, <1>4 DEF ThreeChains
<1>6. Chain(a, ny, s) /\ Chain(c, ny, u)
  BY <1>1, <1>5, ChainKept
<1>7. /\ On(s) \cap On(tt) = {} /\ On(s) \cap On(u) = {} /\ On(tt) \cap On(u) = {}
      /\ On(s) \cup On(tt) \cup On(u) = S \cup {p}
  BY <1>2, <1>3 DEF ThreeChains
<1>8. ThreeChains(a, s, bb, tt, c, u, ny, S \cup {p})
  BY <1>3, <1>6, <1>7 DEF ThreeChains
<1> QED BY <1>3, <1>8 DEF AfterPush, bb, ny, tt

AfterPop(a, s, b, t, c, u, nx, S) ==
  LET aa == Pop(a, nx).queue
      ny == Pop(a, nx).next
      ss == Without(s, a.size, 1)
  IN  /\ aa \in Queue /\ ny \in Links
      /\ ThreeChains(aa, ss, b, t, c, u, ny, S \ {a.head})
      /\ (TailOK(a, s) => TailOK(aa, ss)) /\ (LastOK(a, s) => LastOK(aa, ss))
      /\ aa.size = a.size - 1
      /\ On(ss) = On(s) \ {a.head} /\ a.head \in On(s) /\ a.head \in Process
      /\ a.head = s[1] /\ \A i \in 1 .. a.size - 1 : ss[i] = s[i + 1]

\* The three chains after the first process of one of them was popped.
LEMMA PopOfOne ==
  ASSUME NEW a \in Queue, NEW b, NEW c,
         NEW nx \in Links, NEW s, NEW t, NEW u, NEW S,
         ThreeChains(a, s, b, t, c, u, nx, S), a.size > 0
  PROVE  AfterPop(a, s, b, t, c, u, nx, S)
<1> DEFINE aa == Pop(a, nx).queue
           ny == Pop(a, nx).next
           ss == Without(s, a.size, 1)
<1>1. Chain(a, nx, s) /\ Chain(b, nx, t) /\ Chain(c, nx, u)
  BY DEF ThreeChains
<1>2. /\ aa \in Queue /\ ny \in Links
      /\ Chain(aa, ny, ss) /\ aa.size = a.size - 1
      /\ (TailOK(a, s) => TailOK(aa, ss)) /\ (LastOK(a, s) => LastOK(aa, ss))
      /\ On(ss) = On(s) \ {a.head} /\ a.head \in On(s) /\ a.head \in Process /\ a.head = s[1]
      /\ \A i \in 1 .. a.size - 1 : ss[i] = s[i + 1]
      /\ \A x \in Process : x # a.head => ny[x] = nx[x]
  BY <1>1, PopChain
<1> HIDE DEF aa, ny, ss
<1>3. On(t) \subseteq Process /\ On(u) \subseteq Process
  BY <1>1, ChainOn
<1>4. (\A x \in On(t) : ny[x] = nx[x]) /\ \A x \in On(u) : ny[x] = nx[x]
  BY <1>2, <1>3 DEF ThreeChains
<1>5. Chain(b, ny, t) /\ Chain(c, ny, u)
  BY <1>1, <1>4, ChainKept
<1>6. /\ On(ss) \cap On(t) = {} /\ On(ss) \cap On(u) = {} /\ On(t) \cap On(u) = {}
      /\ On(ss) \cup On(t) \cup On(u) = S \ {a.head}
  BY <1>2 DEF ThreeChains
<1>7. ThreeChains(aa, ss, b, t, c, u, ny, S \ {a.head})
  BY <1>2, <1>5, <1>6 DEF ThreeChains
<1> QED BY <1>2, <1>7 DEF AfterPop, aa, ny, ss

AfterRemove(a, s, b, t, c, u, nx, S, k) ==
  LET aa == Remove(a, nx, s[k]).queue
      ny == Remove(a, nx, s[k]).next
      ss == Without(s, a.size, k)
  IN  /\ aa \in Queue /\ ny \in Links
      /\ ThreeChains(aa, ss, b, t, c, u, ny, S \ {s[k]}) /\ (LastOK(a, s) => LastOK(aa, ss))
      /\ aa.size = a.size - 1 /\ On(ss) = On(s) \ {s[k]}

\* The same after queue_remove of the k-th process.
LEMMA RemoveOfOne ==
  ASSUME NEW a \in Queue, NEW b, NEW c,
         NEW nx \in Links, NEW s, NEW t, NEW u, NEW S,
         ThreeChains(a, s, b, t, c, u, nx, S), NEW k \in 1 .. a.size
  PROVE  AfterRemove(a, s, b, t, c, u, nx, S, k)
<1> DEFINE p == s[k]
           aa == Remove(a, nx, p).queue
           ny == Remove(a, nx, p).next
           ss == Without(s, a.size, k)
<1>1. Chain(a, nx, s) /\ Chain(b, nx, t) /\ Chain(c, nx, u)
  BY DEF ThreeChains
<1>2. /\ aa \in Queue /\ ny \in Links
      /\ Chain(aa, ny, ss) /\ aa.size = a.size - 1 /\ On(ss) = On(s) \ {p}
      /\ (LastOK(a, s) => LastOK(aa, ss))
      /\ \A x \in Process : x \notin On(s) => ny[x] = nx[x]
  <2>1. Chain(a, nx, s)
    BY <1>1
  <2> QED BY <2>1, RemoveChain, SMTT(60)
<1> HIDE DEF aa, ny, ss
<1>3. On(t) \subseteq Process /\ On(u) \subseteq Process /\ p \in On(s)
  BY <1>1, ChainOn
<1>4. (\A x \in On(t) : ny[x] = nx[x]) /\ \A x \in On(u) : ny[x] = nx[x]
  BY <1>2, <1>3 DEF ThreeChains
<1>5. Chain(b, ny, t) /\ Chain(c, ny, u)
  BY <1>1, <1>4, ChainKept
<1>6. /\ On(ss) \cap On(t) = {} /\ On(ss) \cap On(u) = {} /\ On(t) \cap On(u) = {}
      /\ On(ss) \cup On(t) \cup On(u) = S \ {p}
  BY <1>2, <1>3 DEF ThreeChains
<1>7. ThreeChains(aa, ss, b, t, c, u, ny, S \ {p})
  BY <1>2, <1>5, <1>6 DEF ThreeChains
<1> QED BY <1>2, <1>7 DEF AfterRemove, aa, ny, ss

AfterMoveHead(a, s, b, t, c, u, nx, S) ==
  LET p  == a.head
      aa == Pop(a, nx).queue
      bb == Push(b, Pop(a, nx).next, p).queue
      ny == Push(b, Pop(a, nx).next, p).next
      ss == Without(s, a.size, 1)
      tt == Longer(t, b.size, p)
  IN  /\ aa \in Queue
      /\ bb \in Queue /\ ny \in Links
      /\ ThreeChains(aa, ss, bb, tt, c, u, ny, S)
      /\ (TailOK(a, s) => TailOK(aa, ss)) /\ (LastOK(a, s) => LastOK(aa, ss)) /\ TailOK(bb, tt)
      /\ aa.size = a.size - 1 /\ bb.size = b.size + 1
      /\ On(ss) = On(s) \ {p} /\ On(tt) = On(t) \cup {p} /\ p \in On(s) /\ p \in Process
      /\ p = s[1] /\ tt[b.size + 1] = p
      /\ (\A i \in 1 .. a.size - 1 : ss[i] = s[i + 1])
      /\ \A i \in 1 .. b.size : tt[i] = t[i]

\* The head of one chain moves to the end of another.
LEMMA MoveHead ==
  ASSUME NEW a \in Queue,
         NEW b \in Queue, NEW c,
         NEW nx \in Links, NEW s, NEW t, NEW u, NEW S,
         ThreeChains(a, s, b, t, c, u, nx, S), TailOK(b, t), a.size > 0
  PROVE  AfterMoveHead(a, s, b, t, c, u, nx, S)
<1> DEFINE p  == a.head
           aa == Pop(a, nx).queue
           nm == Pop(a, nx).next
           bb == Push(b, nm, p).queue
           ny == Push(b, nm, p).next
           ss == Without(s, a.size, 1)
           tt == Longer(t, b.size, p)
<1>1. /\ aa \in Queue /\ nm \in Links
      /\ ThreeChains(aa, ss, b, t, c, u, nm, S \ {p})
      /\ (TailOK(a, s) => TailOK(aa, ss)) /\ (LastOK(a, s) => LastOK(aa, ss))
      /\ aa.size = a.size - 1 /\ On(ss) = On(s) \ {p} /\ p \in On(s)
      /\ p \in Process /\ p = s[1] /\ \A i \in 1 .. a.size - 1 : ss[i] = s[i + 1]
  <2>1. AfterPop(a, s, b, t, c, u, nx, S)
    BY PopOfOne
  <2> QED BY <2>1 DEF AfterPop
<1> HIDE DEF p, nm, aa, ss
<1>2. p \notin S \ {p} /\ p \in Process /\ nm \in Links
  BY <1>1
<1>3. ThreeChains(aa, ss, b, t, c, u, nm, S \ {p})
  BY <1>1
<1>4. /\ bb \in Queue /\ ny \in Links
      /\ ThreeChains(aa, ss, bb, tt, c, u, ny, (S \ {p}) \cup {p}) /\ TailOK(bb, tt)
      /\ bb.size = b.size + 1 /\ On(tt) = On(t) \cup {p} /\ tt[b.size + 1] = p
      /\ \A i \in 1 .. b.size : tt[i] = t[i]
  <2>1. AfterPush(aa, ss, b, t, c, u, nm, S \ {p}, p)
    <3>1. nm \in Links /\ p \in Process /\ p \notin S \ {p}
      BY <1>2
    <3> QED BY <1>3, <3>1, PushOnOne
  <2> QED BY <2>1 DEF AfterPush
<1> HIDE DEF bb, ny, tt
<1>5. (S \ {p}) \cup {p} = S
  BY <1>1 DEF ThreeChains, p
<1>6. ThreeChains(aa, ss, bb, tt, c, u, ny, S)
  BY <1>4, <1>5
<1> QED BY <1>1, <1>4, <1>6 DEF AfterMoveHead, p, aa, nm, bb, ny, ss, tt

AfterMoveMember(a, s, b, t, c, u, nx, S, k) ==
  LET p  == s[k]
      aa == Remove(a, nx, p).queue
      bb == Push(b, Remove(a, nx, p).next, p).queue
      ny == Push(b, Remove(a, nx, p).next, p).next
      ss == Without(s, a.size, k)
      tt == Longer(t, b.size, p)
  IN  /\ aa \in Queue
      /\ bb \in Queue /\ ny \in Links
      /\ ThreeChains(aa, ss, bb, tt, c, u, ny, S) /\ (LastOK(a, s) => LastOK(aa, ss))
      /\ TailOK(bb, tt)
      /\ aa.size = a.size - 1 /\ On(ss) = On(s) \ {p} /\ On(tt) = On(t) \cup {p}

\* A process anywhere on one chain moves to the end of another.
LEMMA MoveMember ==
  ASSUME NEW a \in Queue,
         NEW b \in Queue, NEW c,
         NEW nx \in Links, NEW s, NEW t, NEW u, NEW S,
         ThreeChains(a, s, b, t, c, u, nx, S), TailOK(b, t), NEW k \in 1 .. a.size
  PROVE  AfterMoveMember(a, s, b, t, c, u, nx, S, k)
<1> DEFINE p  == s[k]
           aa == Remove(a, nx, p).queue
           nm == Remove(a, nx, p).next
           bb == Push(b, nm, p).queue
           ny == Push(b, nm, p).next
           ss == Without(s, a.size, k)
           tt == Longer(t, b.size, p)
<1>1. /\ aa \in Queue /\ nm \in Links
      /\ ThreeChains(aa, ss, b, t, c, u, nm, S \ {p}) /\ (LastOK(a, s) => LastOK(aa, ss))
      /\ aa.size = a.size - 1 /\ On(ss) = On(s) \ {p}
  <2>1. AfterRemove(a, s, b, t, c, u, nx, S, k)
    BY RemoveOfOne
  <2> QED BY <2>1 DEF AfterRemove
<1>2. p \in Process /\ p \in S
  <2>1. Chain(a, nx, s)
    BY DEF ThreeChains
  <2>2. s[k] \in On(s) /\ On(s) \subseteq Process
    BY <2>1, ChainOn
  <2> QED BY <2>2 DEF ThreeChains
<1> HIDE DEF p, nm, aa, ss
<1>3. p \notin S \ {p} /\ nm \in Links
  BY <1>1
<1>4. ThreeChains(aa, ss, b, t, c, u, nm, S \ {p})
  BY <1>1
<1>5. /\ bb \in Queue /\ ny \in Links
      /\ ThreeChains(aa, ss, bb, tt, c, u, ny, (S \ {p}) \cup {p}) /\ TailOK(bb, tt)
      /\ On(tt) = On(t) \cup {p}
  <2>1. AfterPush(aa, ss, b, t, c, u, nm, S \ {p}, p)
    <3>1. nm \in Links /\ p \in Process /\ p \notin S \ {p}
      BY <1>2, <1>3
    <3> QED BY <1>4, <3>1, PushOnOne
  <2> QED BY <2>1 DEF AfterPush
<1> HIDE DEF bb, ny, tt
<1>6. (S \ {p}) \cup {p} = S
  BY <1>2
<1>7. ThreeChains(aa, ss, bb, tt, c, u, ny, S)
  BY <1>5, <1>6
<1> QED BY <1>1, <1>5, <1>7 DEF AfterMoveMember, p, aa, nm, bb, ny, ss, tt

-----------------------------------------------------------------------------
(* Queues whose pointers may lead anywhere but into a third one.           *)

\* A walk goes from each process to its next one, whatever the pointers are.
LEMMA WalkSteps ==
  ASSUME NEW q, NEW nx
  PROVE  \A i \in 1 .. Cardinality(Process) :
           Walk(q, nx)[i] = IF i = 1 THEN q.head
                            ELSE IF Walk(q, nx)[i - 1] = NULL THEN NULL
                            ELSE nx[Walk(q, nx)[i - 1]]
<1> DEFINE N == Cardinality(Process)
           Body(at) == [i \in 1 .. N |-> IF i = 1 THEN q.head
                                         ELSE IF at[i - 1] = NULL THEN NULL ELSE nx[at[i - 1]]]
           W == Walk(q, nx)
           Walks(g, n) == \A i \in 1 .. n : g[i] = IF i = 1 THEN q.head
                                                   ELSE IF g[i - 1] = NULL THEN NULL
                                                   ELSE nx[g[i - 1]]
           S == {n \in 1 .. N : \E g : Walks(g, n)}
<1>1. N \in Nat
  BY ProcessAssumption, FS_CardinalityType
<1>2. W = CHOOSE at : at = Body(at)
  BY DEF Walk
<1> HIDE DEF N, W
<1>3. \E g : Walks(g, N)
  <2>1. 1 <= N => 1 \in S
    <3> SUFFICES ASSUME 1 <= N PROVE \E g : Walks(g, 1)
      BY <1>1
    <3>1. Walks([i \in 1 .. 1 |-> q.head], 1)
      OBVIOUS
    <3> HIDE DEF Walks
    <3> QED BY <3>1
  <2>2. \A n \in 1 .. N - 1 : n \in S => n + 1 \in S
    <3> SUFFICES ASSUME NEW n \in 1 .. N - 1, NEW g, Walks(g, n)
                 PROVE  \E h : Walks(h, n + 1)
      BY <1>1
    <3> DEFINE h == [i \in 1 .. n + 1 |-> IF i <= n THEN g[i]
                                          ELSE IF g[n] = NULL THEN NULL ELSE nx[g[n]]]
    <3>1. n \in Nat /\ n >= 1
      BY <1>1
    <3>2. \A i \in 1 .. n : h[i] = g[i]
      BY <3>1
    <3>3. h[n + 1] = IF g[n] = NULL THEN NULL ELSE nx[g[n]]
      BY <3>1
    <3> HIDE DEF h
    <3>4. \A i \in 1 .. n + 1 : h[i] = IF i = 1 THEN q.head
                                       ELSE IF h[i - 1] = NULL THEN NULL ELSE nx[h[i - 1]]
      <4> SUFFICES ASSUME NEW i \in 1 .. n + 1
                   PROVE  h[i] = IF i = 1 THEN q.head
                                 ELSE IF h[i - 1] = NULL THEN NULL ELSE nx[h[i - 1]]
        OBVIOUS
      <4>1. CASE i = n + 1
        <5>1. i # 1 /\ i - 1 = n /\ n \in 1 .. n
          BY <3>1, <4>1
        <5> QED BY <3>2, <3>3, <4>1, <5>1
      <4>2. CASE i \in 1 .. n
        <5>1. i # 1 => i - 1 \in 1 .. n
          BY <3>1, <4>2
        <5> QED BY <3>2, <4>2, <5>1
      <4> QED BY <3>1, <4>1, <4>2
    <3> QED BY <3>4
  <2>3. N \in S \/ N = 0
    <3> HIDE DEF S
    <3>1. 1 .. N \subseteq S
      BY <1>1, <2>1, <2>2, IntervalInduction
    <3> QED BY <1>1, <3>1
  <2>4. CASE N = 0
    <3>1. Walks(<< >>, N)
      BY <2>4
    <3> HIDE DEF Walks
    <3> QED BY <3>1
  <2> QED BY <2>3, <2>4
<1>4. PICK g : Walks(g, N)
  BY <1>3
<1>5. Body(g) = Body(Body(g))
  <2>1. \A i \in 1 .. N : Body(g)[i] = g[i]
    BY <1>4
  <2>2. \A i \in 1 .. N : i # 1 => i - 1 \in 1 .. N
    BY <1>1
  <2>3. \A i \in 1 .. N : Body(Body(g))[i] = Body(g)[i]
    BY <1>4, <2>1, <2>2
  <2> QED BY <2>3
<1>6. W = Body(W)
  <2> HIDE DEF Body
  <2> QED BY <1>2, <1>5
<1> QED BY <1>6 DEF W, N

\* The pointers of the processes outside V, and those of a queue, stay in O.
Fenced(nx, V, O) == \A x \in Process \ V : nx[x] \in O
Near(q, O)       == q.head \in O /\ q.tail \in O
Fence(V, O)      == V \subseteq Process /\ O \subseteq Pointer /\ NULL \in O /\ O \cap V = {}

LEMMA MembersOutside ==
  ASSUME NEW q, NEW nx, NEW V, NEW O, Fence(V, O), Fenced(nx, V, O), Near(q, O)
  PROVE  Members(q, nx) \subseteq O \ {NULL}
<1> DEFINE N == Cardinality(Process)
           W == Walk(q, nx)
           S == {i \in 1 .. N : W[i] \in O}
<1>1. N \in Nat
  BY ProcessAssumption, FS_CardinalityType
<1>2. \A i \in 1 .. N : W[i] = IF i = 1 THEN q.head
                               ELSE IF W[i - 1] = NULL THEN NULL ELSE nx[W[i - 1]]
  BY WalkSteps
<1> HIDE DEF N, W
<1>3. 1 .. N \subseteq S
  <2>1. 1 <= N => 1 \in S
    BY <1>1, <1>2 DEF Near
  <2>2. \A i \in 1 .. N - 1 : i \in S => i + 1 \in S
    <3> SUFFICES ASSUME NEW i \in 1 .. N - 1, W[i] \in O PROVE i + 1 \in S
      OBVIOUS
    <3>1. i + 1 \in 1 .. N /\ (i + 1) - 1 = i /\ i + 1 # 1
      BY <1>1
    <3>2. W[i + 1] = IF W[i] = NULL THEN NULL ELSE nx[W[i]]
      BY <1>2, <3>1
    <3>3. W[i] # NULL => W[i] \in Process \ V
      BY DEF Fence, Pointer
    <3> QED BY <3>1, <3>2, <3>3 DEF Fenced, Fence
  <2> HIDE DEF S
  <2> QED BY <1>1, <2>1, <2>2, IntervalInduction
<1> QED BY <1>3 DEF Members, N, W

AfterOutside(q, qq, nx, ny, V, O, k) ==
  /\ qq \in Queue /\ ny \in Links /\ qq.size = q.size + k
  /\ Fenced(ny, V, O) /\ Near(qq, O)
  /\ \A x \in V : ny[x] = nx[x]

\* A push onto a queue outside V leaves the processes in V alone.
LEMMA PushOutside ==
  ASSUME NEW q \in Queue, NEW nx \in Links, NEW V, NEW O, Fence(V, O), Fenced(nx, V, O),
         Near(q, O), NEW p \in Process, p \in O
  PROVE  AfterOutside(q, Push(q, nx, p).queue, nx, Push(q, nx, p).next, V, O, 1)
<1> USE DEF Queue, Links
<1> DEFINE qq == Push(q, nx, p).queue
           ny == Push(q, nx, p).next
<1>1. p \notin V /\ NULL \in O /\ q.size + 1 \in Nat /\ q.head \in Pointer /\ p \in Pointer
  BY DEF Fence, Pointer
<1>2. CASE q.head = NULL \/ q.tail = NULL
  <2>1. qq = [head |-> p, tail |-> p, size |-> q.size + 1] /\ ny = [nx EXCEPT ![p] = NULL]
    BY <1>2 DEF Push
  <2>2. qq.head = p /\ qq.tail = p /\ qq.size = q.size + 1 /\ qq \in Queue
    BY <1>1, <2>1
  <2>3. ny \in Links /\ ny[p] = NULL /\ \A x \in Process : x # p => ny[x] = nx[x]
    BY <2>1 DEF Pointer
  <2>4. Fenced(ny, V, O)
    BY <1>1, <2>3 DEF Fenced
  <2>5. \A x \in V : ny[x] = nx[x]
    BY <1>1, <2>1
  <2> QED BY <2>2, <2>3, <2>4, <2>5 DEF AfterOutside, Near
<1>3. CASE q.head # NULL /\ q.tail # NULL
  <2>1. /\ qq = [q EXCEPT !.tail = p, !.size = @ + 1]
        /\ ny = [nx EXCEPT ![q.tail] = p, ![p] = NULL]
    BY <1>3 DEF Push
  <2>2. qq = [head |-> q.head, tail |-> p, size |-> q.size + 1]
    BY <2>1
  <2>3. qq.head = q.head /\ qq.tail = p /\ qq.size = q.size + 1 /\ qq \in Queue
    BY <1>1, <2>2
  <2>4. q.tail \in Process /\ q.tail \notin V
    BY <1>3 DEF Near, Fence, Pointer
  <2>5. /\ ny \in Links
        /\ \A x \in Process : ny[x] = nx[x] \/ ny[x] = p \/ ny[x] = NULL
        /\ \A x \in V : ny[x] = nx[x]
    <3>1. \A x \in V : x \in Process /\ x # p /\ x # q.tail
      BY <1>1, <2>4 DEF Fence
    <3>2. ny \in Links
      BY <2>1 DEF Pointer
    <3> QED BY <2>1, <2>4, <3>1, <3>2
  <2>6. Fenced(ny, V, O)
    BY <1>1, <2>5 DEF Fenced
  <2> QED BY <2>3, <2>5, <2>6 DEF AfterOutside, Near
<1> QED BY <1>2, <1>3

\* So does the removal of one of its members.
LEMMA RemoveOutside ==
  ASSUME NEW q \in Queue, NEW nx \in Links, NEW V, NEW O, Fence(V, O), Fenced(nx, V, O),
         Near(q, O), NEW p, p \in Members(q, nx), q.size > 0
  PROVE  AfterOutside(q, Remove(q, nx, p).queue, nx, Remove(q, nx, p).next, V, O, -1)
<1> USE DEF Queue, Links
<1> DEFINE qq == Remove(q, nx, p).queue
           ny == Remove(q, nx, p).next
<1>1. Members(q, nx) \subseteq O \ {NULL} /\ O \ {NULL} \subseteq Process \ V
  <2>1. Members(q, nx) \subseteq O \ {NULL}
    BY MembersOutside
  <2> QED BY <2>1 DEF Fence, Pointer
<1>2. p \in Process \ V /\ p # NULL /\ nx[p] \in O /\ NULL \in O /\ q.size - 1 \in Nat
      /\ nx[p] \in Pointer /\ q.tail \in O /\ q.size + (-1) = q.size - 1 /\ q.tail \in Pointer
  BY <1>1 DEF Fenced, Fence, Near, Pointer
<1>3. CASE q.head = p
  <2>1. /\ qq = [head |-> nx[p], tail |-> IF nx[p] = NULL THEN NULL ELSE q.tail, size |-> q.size - 1]
        /\ ny = [nx EXCEPT ![p] = NULL]
    BY <1>2, <1>3 DEF Remove, Pop
  <2>2. qq \in Queue
    BY <1>2, <2>1 DEF Pointer
  <2>3. qq.head \in O /\ qq.tail \in O /\ qq.size = q.size - 1
    BY <1>2, <2>1
  <2>4. /\ ny \in Links /\ ny[p] = NULL /\ \A x \in Process : x # p => ny[x] = nx[x]
        /\ \A x \in V : ny[x] = nx[x]
    BY <1>2, <2>1 DEF Pointer
  <2>5. Fenced(ny, V, O)
    BY <1>2, <2>4 DEF Fenced
  <2> QED BY <1>2, <2>2, <2>3, <2>4, <2>5 DEF AfterOutside, Near
<1>4. CASE q.head # p
  <2> DEFINE prev == CHOOSE r \in Members(q, nx) : nx[r] = p
  <2>1. \E r \in Members(q, nx) : nx[r] = p
    <3> DEFINE N == Cardinality(Process)
               W == Walk(q, nx)
    <3>1. N \in Nat
      BY ProcessAssumption, FS_CardinalityType
    <3>2. \A i \in 1 .. N : W[i] = IF i = 1 THEN q.head
                                   ELSE IF W[i - 1] = NULL THEN NULL ELSE nx[W[i - 1]]
      BY WalkSteps
    <3>3. Members(q, nx) = {W[i] : i \in 1 .. N} \ {NULL}
      BY DEF Members
    <3> HIDE DEF N, W
    <3>4. PICK i \in 1 .. N : W[i] = p
      BY <3>3
    <3>5. i # 1
      BY <1>4, <3>2, <3>4
    <3>6. i - 1 \in 1 .. N
      BY <3>1, <3>5
    <3>7. W[i - 1] # NULL /\ nx[W[i - 1]] = p
      BY <1>2, <3>2, <3>4, <3>5
    <3>8. W[i - 1] \in Members(q, nx)
      BY <3>3, <3>6, <3>7
    <3> QED BY <3>7, <3>8
  <2>2. prev \in Members(q, nx)
    BY <2>1
  <2>3. qq = [q EXCEPT !.size = @ - 1] /\ ny = [nx EXCEPT ![prev] = nx[p], ![p] = NULL]
    BY <1>4 DEF Remove
  <2> HIDE DEF prev
  <2>4. prev \in Process \ V
    BY <1>1, <2>2
  <2>5. qq = [head |-> q.head, tail |-> q.tail, size |-> q.size - 1]
    BY <2>3
  <2>6. qq \in Queue /\ qq.head = q.head /\ qq.tail = q.tail /\ qq.size = q.size - 1
    BY <1>2, <2>5
  <2>7. /\ ny \in Links
        /\ \A x \in Process : ny[x] = nx[x] \/ ny[x] = nx[p] \/ ny[x] = NULL
        /\ \A x \in V : ny[x] = nx[x]
    <3>1. \A x \in V : x \in Process /\ x # p /\ x # prev
      BY <1>2, <2>4 DEF Fence
    <3>2. ny \in Links
      BY <1>2, <2>3 DEF Pointer
    <3> QED BY <2>3, <2>4, <3>1, <3>2
  <2>8. Fenced(ny, V, O)
    BY <1>2, <2>7 DEF Fenced
  <2> QED BY <1>2, <2>6, <2>7, <2>8 DEF AfterOutside, Near
<1> QED BY <1>3, <1>4

-----------------------------------------------------------------------------
(* The inductive invariant.                                                *)

\* The three queues are disjoint chains through exactly the processes added.  Removing the
\* last process of the running queue leaves its tail behind, so that tail is either right
\* or outside the queue; it is right from the end of the pauses, which empty the queue,
\* until the next round.
Queues(r, w, f) ==
  /\ ThreeChains(running, r, waiting, w, finished, f, next, Added)
  /\ TailOK(waiting, w) /\ TailOK(finished, f)
  /\ LastOK(running, r) /\ (pc = "fill" => TailOK(running, r))

\* Where a structure is tells what became of its child.
Children(r, w) ==
  /\ \A p \in Process : os[p] = "run" => p \in On(r)
  /\ \A p \in Process : os[p] = "stop" => p \in On(w)
  /\ \A p \in On(r) : os[p] \in {"run", "zombie"}
  /\ \A p \in Process \ Added : os[p] = "none"
  /\ running.size <= options.cores
  /\ pc = "fifo" => options.policy = "fifo"
  /\ pc \in {"pause", "fill"} => options.policy # "fifo"

\* Under FIFO a process is started from the waiting queue and ends in the running queue.
FifoInv(r, w, f) ==
  options.policy = "fifo" =>
    /\ \A p \in On(w) : os[p] = "none"
    /\ \A p \in Process : os[p] = "zombie" => p \in On(r)
    /\ \A p \in Process : os[p] = "reaped" => p \in On(f) \cap counted

\* p was added before q.
AddedBefore(a, p, q) == \E i, j \in DOMAIN a : i < j /\ a[i] = p /\ a[j] = q

\* The processes that have not been started wait in the order in which they were added,
\* behind no one who was added later.
OrderInv(w, f) ==
  /\ \A i, j \in DOMAIN added : added[i] = added[j] => i = j
  /\ \A k, l \in 1 .. waiting.size :
       k < l /\ os[w[k]] = "none" /\ os[w[l]] = "none" => AddedBefore(added, w[k], w[l])
  /\ \A p, q \in Added : AddedBefore(added, p, q) /\ os[q] # "none" => os[p] # "none" \/ p \in On(f)

ShellInv(r, w, f) == Queues(r, w, f) /\ Children(r, w) /\ FifoInv(r, w, f) /\ OrderInv(w, f)

Sound == \E r, w, f : ShellInv(r, w, f)

-----------------------------------------------------------------------------
(* The steps.                                                              *)

\* A step that leaves the queues alone, and that does no more to the children than that
\* some exit, keeps the invariant.
LEMMA AloneKeeps ==
  ASSUME TypeOK, NEW r, NEW w, NEW f, ShellInv(r, w, f),
         UNCHANGED <<queues, added, options, counted>>,
         pc' = "fill" => pc = "fill" \/ running.size = 0,
         pc' = "fifo" => options.policy = "fifo",
         pc' \in {"pause", "fill"} => options.policy # "fifo",
         \A p \in Process : os'[p] = os[p] \/ (os[p] = "run" /\ os'[p] = "zombie")
  PROVE  ShellInv(r, w, f)'
<1>1. /\ running' = running /\ waiting' = waiting /\ finished' = finished /\ next' = next
      /\ added' = added /\ Added' = Added /\ options' = options /\ counted' = counted
  BY DEF queues, Added
<1>2. Queues(r, w, f) /\ Children(r, w) /\ FifoInv(r, w, f) /\ OrderInv(w, f)
  BY DEF ShellInv
<1>3. Chain(waiting, next, w) /\ Chain(running, next, r)
  BY <1>2 DEF Queues, ThreeChains
<1>4. Queues(r, w, f)'
  BY <1>1, <1>2 DEF Queues, TailOK, LastOK
<1>5. Children(r, w)'
  <2>1. On(r) \subseteq Process /\ On(r) \subseteq Added
    BY <1>2, <1>3, ChainOn DEF Queues, ThreeChains
  <2>2. \A p \in Process : /\ os'[p] = "run" => p \in On(r)
                           /\ os'[p] = "stop" => p \in On(w)
    BY <1>2 DEF Children
  <2>3. \A p \in On(r) : os'[p] \in {"run", "zombie"}
    BY <1>2, <2>1 DEF Children
  <2>4. \A p \in Process \ Added : os'[p] = "none"
    BY <1>2 DEF Children
  <2>5. running.size <= options.cores
    BY <1>2 DEF Children
  <2> QED BY <1>1, <2>2, <2>3, <2>4, <2>5 DEF Children
<1>6. FifoInv(r, w, f)'
  <2> SUFFICES ASSUME options.policy = "fifo"
               PROVE  /\ \A p \in On(w) : os'[p] = "none"
                      /\ \A p \in Process : os'[p] = "zombie" => p \in On(r)
                      /\ \A p \in Process : os'[p] = "reaped" => p \in On(f) \cap counted
    BY <1>1 DEF FifoInv
  <2>1. On(w) \subseteq Process
    BY <1>3, ChainOn
  <2> QED BY <1>2, <2>1 DEF FifoInv, Children
<1>7. OrderInv(w, f)'
  <2>1. \A k \in 1 .. waiting.size : w[k] \in Process
    BY <1>3 DEF Chain
  <2>2. \A k \in 1 .. waiting.size : os'[w[k]] = "none" => os[w[k]] = "none"
    BY <2>1
  <2>3. Added \subseteq Process
    BY DEF Added, TypeOK
  <2>4. \A p \in Added : (os'[p] # "none" <=> os[p] # "none")
    BY <2>3
  <2> QED BY <1>1, <1>2, <2>2, <2>4 DEF OrderInv
<1> QED BY <1>4, <1>5, <1>6, <1>7 DEF ShellInv

\* The types of the queues follow from their being chains.
LEMMA TypedQueues ==
  ASSUME TypeOK
  PROVE  running \in Queue /\ waiting \in Queue /\ finished \in Queue /\ next \in Links
         /\ running.size \in Nat /\ waiting.size \in Nat /\ finished.size \in Nat
<1>1. Cardinality(Process) \in Nat
  BY ProcessAssumption, FS_CardinalityType
<1>2. QueueType \subseteq Queue
  BY <1>1 DEF QueueType, Queue
<1>3. running \in Queue /\ waiting \in Queue /\ finished \in Queue /\ next \in Links
  BY <1>2 DEF TypeOK, Links
<1> QED BY <1>3 DEF Queue

LEMMA QueuesTyped ==
  ASSUME TypeOK, NEW r, NEW w, NEW f, Queues(r, w, f)',
         running' \in Queue, waiting' \in Queue, finished' \in Queue
  PROVE  running' \in QueueType /\ waiting' \in QueueType /\ finished' \in QueueType
<1>1. Chain(running', next', r) /\ Chain(waiting', next', w) /\ Chain(finished', next', f)
  BY DEF Queues, ThreeChains
<1>2. running' \in QueueType
  BY <1>1, ChainType
<1>3. waiting' \in QueueType
  BY <1>1, ChainType
<1>4. finished' \in QueueType
  BY <1>1, ChainType
<1> QED BY <1>2, <1>3, <1>4

\* The order of the waiting processes after its first one has been taken off.
LEMMA OrderWithout ==
  ASSUME NEW n \in Nat, n > 0, NEW w, NEW a, NEW st, NEW su,
         \A k, l \in 1 .. n :
           k < l /\ st[w[k]] = "none" /\ st[w[l]] = "none" => AddedBefore(a, w[k], w[l]),
         NEW v, \A k \in 1 .. n - 1 : v[k] = w[k + 1],
         \A k \in 2 .. n : su[w[k]] = st[w[k]]
  PROVE  \A k, l \in 1 .. n - 1 :
           k < l /\ su[v[k]] = "none" /\ su[v[l]] = "none" => AddedBefore(a, v[k], v[l])
<1> SUFFICES ASSUME NEW k \in 1 .. n - 1, NEW l \in 1 .. n - 1,
                    k < l, su[v[k]] = "none", su[v[l]] = "none"
             PROVE  AddedBefore(a, v[k], v[l])
  OBVIOUS
<1>1. k + 1 \in 1 .. n /\ l + 1 \in 1 .. n /\ k + 1 < l + 1 /\ k + 1 \in 2 .. n /\ l + 1 \in 2 .. n
  OBVIOUS
<1>2. v[k] = w[k + 1] /\ v[l] = w[l + 1]
  OBVIOUS
<1>3. st[w[k + 1]] = "none" /\ st[w[l + 1]] = "none"
  BY <1>1, <1>2
<1> QED BY <1>1, <1>2, <1>3

\* Of two processes only one was added before the other.
LEMMA AddedOneWay ==
  ASSUME NEW a \in Seq(Process), \A i, j \in DOMAIN a : a[i] = a[j] => i = j,
         NEW p, NEW q, AddedBefore(a, p, q), AddedBefore(a, q, p)
  PROVE  FALSE
<1>1. DOMAIN a \subseteq Nat
  OBVIOUS
<1>2. PICK i \in DOMAIN a, j \in DOMAIN a : i < j /\ a[i] = p /\ a[j] = q
  BY DEF AddedBefore
<1>3. PICK k \in DOMAIN a, l \in DOMAIN a : k < l /\ a[k] = q /\ a[l] = p
  BY DEF AddedBefore
<1>4. i = l /\ j = k
  BY <1>2, <1>3
<1> QED BY <1>1, <1>2, <1>3, <1>4

\* The head of the waiting queue is moved to the running queue, where it runs or has
\* already ended.
LEMMA StartKeeps ==
  ASSUME TypeOK, NEW r, NEW w, NEW f, ShellInv(r, w, f), TailOK(running, r),
         waiting.size > 0, running.size < options.cores, NEW h, h = waiting.head,
         waiting' = Pop(waiting, next).queue,
         running' = Push(running, Pop(waiting, next).next, h).queue,
         next' = Push(running, Pop(waiting, next).next, h).next,
         UNCHANGED <<pc, finished, added, options, counted>>,
         \A q \in Process : q # h => os'[q] = os[q],
         os'[h] = "run" \/ (os'[h] = "zombie" /\ os[h] = "zombie"),
         NEW R, R = Longer(r, running.size, h), NEW W, W = Without(w, waiting.size, 1)
  PROVE  /\ ShellInv(R, W, f)' /\ running' \in QueueType /\ waiting' \in QueueType
         /\ next' \in [Process -> Pointer]
<1>1. Queues(r, w, f) /\ Children(r, w) /\ FifoInv(r, w, f) /\ OrderInv(w, f)
  BY DEF ShellInv
<1>2. /\ finished' = finished /\ added' = added /\ Added' = Added /\ options' = options
      /\ counted' = counted /\ pc' = pc
  BY DEF Added
<1>3. /\ running \in Queue /\ waiting \in Queue /\ finished \in Queue /\ next \in Links
      /\ running.size \in Nat /\ waiting.size \in Nat
  BY TypedQueues
<1>4. ThreeChains(waiting, w, running, r, finished, f, next, Added)
  BY <1>1 DEF Queues, ThreeChains
<1>5. AfterMoveHead(waiting, w, running, r, finished, f, next, Added)
  BY <1>3, <1>4, MoveHead
<1>6. /\ waiting' \in Queue /\ running' \in Queue /\ next' \in Links
      /\ ThreeChains(waiting', W, running', R, finished, f, next', Added)
      /\ (TailOK(waiting, w) => TailOK(waiting', W)) /\ TailOK(running', R)
      /\ waiting'.size = waiting.size - 1 /\ running'.size = running.size + 1
      /\ On(W) = On(w) \ {h} /\ On(R) = On(r) \cup {h} /\ h \in On(w) /\ h \in Process
      /\ h = w[1] /\ \A k \in 1 .. waiting.size - 1 : W[k] = w[k + 1]
  BY <1>5 DEF AfterMoveHead
<1>7. Queues(R, W, f)'
  <2>1. ThreeChains(running', R, waiting', W, finished', f, next', Added')
    BY <1>2, <1>6 DEF ThreeChains
  <2>2. TailOK(waiting', W) /\ TailOK(finished', f)
    BY <1>1, <1>2, <1>6 DEF Queues
  <2>3. LastOK(running', R)
    BY <1>6, <2>1, TailIsLast DEF ThreeChains
  <2> QED BY <1>6, <2>1, <2>2, <2>3 DEF Queues
<1>8. Chain(waiting, next, w) /\ Chain(running, next, r) /\ h \in Added
      /\ Added = On(r) \cup On(w) \cup On(f) /\ On(r) \cap On(w) = {} /\ On(w) \cap On(f) = {}
  BY <1>4, <1>6 DEF ThreeChains
<1>9. On(r) \subseteq Process /\ On(w) \subseteq Process /\ Added \subseteq Process
  BY <1>8, ChainOn DEF Added, TypeOK
<1>10. Children(R, W)'
  <2>1. \A p \in Process : (os'[p] = "run" => p \in On(R)) /\ (os'[p] = "stop" => p \in On(W))
    BY <1>1, <1>6 DEF Children
  <2>2. \A p \in On(R) : os'[p] \in {"run", "zombie"}
    BY <1>1, <1>6, <1>9 DEF Children
  <2>3. \A p \in Process \ Added : os'[p] = "none"
    BY <1>1, <1>8 DEF Children
  <2>4. running'.size <= options.cores
    <3>1. options.cores \in Nat
      BY OptionsAssumption DEF TypeOK
    <3> QED BY <1>3, <1>6, <3>1
  <2>5. /\ pc = "fifo" => options.policy = "fifo"
        /\ pc \in {"pause", "fill"} => options.policy # "fifo"
    BY <1>1 DEF Children
  <2> QED BY <1>2, <2>1, <2>2, <2>3, <2>4, <2>5 DEF Children
<1>11. FifoInv(R, W, f)'
  <2> SUFFICES ASSUME options.policy = "fifo"
               PROVE  /\ \A p \in On(W) : os'[p] = "none"
                      /\ \A p \in Process : os'[p] = "zombie" => p \in On(R)
                      /\ \A p \in Process : os'[p] = "reaped" => p \in On(f) \cap counted
    BY <1>2 DEF FifoInv
  <2>1. \A p \in On(W) : os'[p] = "none"
    BY <1>1, <1>6, <1>9 DEF FifoInv
  <2>2. \A p \in Process : os'[p] = "zombie" => p \in On(R)
    BY <1>1, <1>6 DEF FifoInv
  <2>3. \A p \in Process : os'[p] = "reaped" => p \in On(f) \cap counted
    BY <1>1 DEF FifoInv
  <2> QED BY <2>1, <2>2, <2>3
<1>12. OrderInv(W, f)'
  <2>1. \A i, j \in DOMAIN added : added[i] = added[j] => i = j
    BY <1>1 DEF OrderInv
  <2>2. \A k, l \in 1 .. waiting.size :
          k < l /\ os[w[k]] = "none" /\ os[w[l]] = "none" => AddedBefore(added, w[k], w[l])
    BY <1>1 DEF OrderInv
  <2>3. /\ \A k \in 1 .. waiting.size : w[k] \in Process /\ w[k] \in On(w)
        /\ \A k, l \in 1 .. waiting.size : w[k] = w[l] => k = l
        /\ On(w) = {w[k] : k \in 1 .. waiting.size}
    BY <1>8, ChainList
  <2>4. \A k \in 2 .. waiting.size : os'[w[k]] = os[w[k]]
    <3> SUFFICES ASSUME NEW k \in 2 .. waiting.size PROVE os'[w[k]] = os[w[k]]
      OBVIOUS
    <3>1. k \in 1 .. waiting.size /\ 1 \in 1 .. waiting.size /\ k # 1
      BY <1>3
    <3>2. w[k] # w[1] /\ w[k] \in Process
      BY <2>3, <3>1
    <3> QED BY <1>6, <3>2
  <2>5. \A k, l \in 1 .. waiting.size - 1 :
          k < l /\ os'[W[k]] = "none" /\ os'[W[l]] = "none" => AddedBefore(added, W[k], W[l])
    BY <1>3, <1>6, <2>2, <2>4, OrderWithout
  <2>6. \A p, q \in Added : AddedBefore(added, p, q) /\ os'[q] # "none"
                              => os'[p] # "none" \/ p \in On(f)
    <3> SUFFICES ASSUME NEW p \in Added, NEW q \in Added, AddedBefore(added, p, q),
                        os'[q] # "none", os'[p] = "none", p \notin On(f)
                 PROVE  FALSE
      OBVIOUS
    <3>1. p # h /\ os[p] = "none"
      BY <1>9
    <3>2. os[q] = "none"
      BY <1>1, <3>1 DEF OrderInv
    <3>3. q = h /\ os[h] = "none"
      BY <1>9, <3>2
    <3>4. p \in On(w)
      BY <1>1, <1>8, <3>1 DEF Children
    <3>5. PICK k \in 1 .. waiting.size : p = w[k]
      BY <2>3, <3>4
    <3>6. 1 \in 1 .. waiting.size /\ 1 < k
      BY <1>3, <1>6, <3>1, <3>5
    <3>7. AddedBefore(added, h, p)
      BY <1>6, <2>2, <3>1, <3>3, <3>5, <3>6
    <3>8. added \in Seq(Process)
      BY DEF TypeOK
    <3> QED BY <2>1, <3>3, <3>7, <3>8, AddedOneWay
  <2> QED BY <1>2, <1>6, <2>1, <2>5, <2>6 DEF OrderInv
<1>13. ShellInv(R, W, f)'
  BY <1>7, <1>10, <1>11, <1>12 DEF ShellInv
<1>14. running' \in QueueType /\ waiting' \in QueueType
  BY <1>2, <1>3, <1>6, <1>7, QueuesTyped
<1> QED BY <1>6, <1>13, <1>14 DEF Links

\* The head of the waiting queue is given up: it is moved to the finished queue.
LEMMA FailKeeps ==
  ASSUME TypeOK, NEW r, NEW w, NEW f, ShellInv(r, w, f),
         waiting.size > 0, NEW h, h = waiting.head,
         waiting' = Pop(waiting, next).queue,
         finished' = Push(finished, Pop(waiting, next).next, h).queue,
         next' = Push(finished, Pop(waiting, next).next, h).next,
         os[h] # "stop", pc' = "reset", UNCHANGED <<running, added, os, options, counted>>,
         NEW F, F = Longer(f, finished.size, h), NEW W, W = Without(w, waiting.size, 1)
  PROVE  /\ ShellInv(r, W, F)' /\ waiting' \in QueueType /\ finished' \in QueueType
         /\ next' \in [Process -> Pointer]
<1>1. Queues(r, w, f) /\ Children(r, w) /\ FifoInv(r, w, f) /\ OrderInv(w, f)
  BY DEF ShellInv
<1>2. /\ running' = running /\ added' = added /\ Added' = Added /\ options' = options
      /\ counted' = counted /\ os' = os
  BY DEF Added
<1>3. /\ running \in Queue /\ waiting \in Queue /\ finished \in Queue /\ next \in Links
      /\ running.size \in Nat /\ waiting.size \in Nat
  BY TypedQueues
<1>4. ThreeChains(waiting, w, finished, f, running, r, next, Added) /\ TailOK(finished, f)
  BY <1>1 DEF Queues, ThreeChains
<1>5. AfterMoveHead(waiting, w, finished, f, running, r, next, Added)
  BY <1>3, <1>4, MoveHead
<1>6. /\ waiting' \in Queue /\ finished' \in Queue /\ next' \in Links
      /\ ThreeChains(waiting', W, finished', F, running, r, next', Added)
      /\ (TailOK(waiting, w) => TailOK(waiting', W)) /\ TailOK(finished', F)
      /\ waiting'.size = waiting.size - 1
      /\ On(W) = On(w) \ {h} /\ On(F) = On(f) \cup {h} /\ h \in On(w) /\ h \in Process
      /\ h = w[1] /\ \A k \in 1 .. waiting.size - 1 : W[k] = w[k + 1]
  BY <1>5 DEF AfterMoveHead
<1>7. Queues(r, W, F)'
  <2>1. ThreeChains(running', r, waiting', W, finished', F, next', Added')
    BY <1>2, <1>6 DEF ThreeChains
  <2>2. TailOK(waiting', W) /\ LastOK(running', r) /\ pc' # "fill"
    BY <1>1, <1>2, <1>6 DEF Queues
  <2> QED BY <1>6, <2>1, <2>2 DEF Queues
<1>8. Chain(waiting, next, w) /\ Chain(running, next, r) /\ h \in Added
      /\ Added = On(r) \cup On(w) \cup On(f) /\ On(r) \cap On(w) = {}
  BY <1>4, <1>6 DEF ThreeChains
<1>9. On(r) \subseteq Process /\ On(w) \subseteq Process /\ Added \subseteq Process
  BY <1>8, ChainOn DEF Added, TypeOK
<1>10. Children(r, W)'
  <2>1. \A p \in Process : os[p] = "stop" => p \in On(W)
    BY <1>1, <1>6 DEF Children
  <2>2. \A p \in Process : os[p] = "run" => p \in On(r)
    BY <1>1 DEF Children
  <2>3. /\ \A p \in On(r) : os[p] \in {"run", "zombie"}
        /\ \A p \in Process \ Added : os[p] = "none"
        /\ running.size <= options.cores
    BY <1>1 DEF Children
  <2> QED BY <1>2, <2>1, <2>2, <2>3 DEF Children
<1>11. FifoInv(r, W, F)'
  BY <1>1, <1>2, <1>6 DEF FifoInv
<1>12. OrderInv(W, F)'
  <2>1. \A k, l \in 1 .. waiting.size :
          k < l /\ os[w[k]] = "none" /\ os[w[l]] = "none" => AddedBefore(added, w[k], w[l])
    BY <1>1 DEF OrderInv
  <2>2. \A k \in 2 .. waiting.size : os[w[k]] = os[w[k]]
    OBVIOUS
  <2>3. \A k, l \in 1 .. waiting.size - 1 :
          k < l /\ os[W[k]] = "none" /\ os[W[l]] = "none" => AddedBefore(added, W[k], W[l])
    BY <1>3, <1>6, <2>1, <2>2, OrderWithout
  <2>4. /\ \A i, j \in DOMAIN added : added[i] = added[j] => i = j
        /\ \A p, q \in Added : AddedBefore(added, p, q) /\ os[q] # "none"
                                 => os[p] # "none" \/ p \in On(F)
    BY <1>1, <1>6 DEF OrderInv
  <2> QED BY <1>2, <1>6, <2>3, <2>4 DEF OrderInv
<1>13. ShellInv(r, W, F)'
  BY <1>7, <1>10, <1>11, <1>12 DEF ShellInv
<1>14. waiting' \in QueueType /\ finished' \in QueueType
  BY <1>2, <1>3, <1>6, <1>7, QueuesTyped
<1> QED BY <1>6, <1>13, <1>14 DEF Links

\* The head of the running queue is paused: it is moved to the waiting queue, stopped or
\* already a zombie.
LEMMA PauseKeeps ==
  ASSUME TypeOK, NEW r, NEW w, NEW f, ShellInv(r, w, f), pc = "pause",
         running.size > 0, NEW h, h = running.head,
         running' = Pop(running, next).queue,
         waiting' = Push(waiting, Pop(running, next).next, h).queue,
         next' = Push(waiting, Pop(running, next).next, h).next,
         UNCHANGED <<pc, finished, added, options, counted>>,
         \A q \in Process : q # h => os'[q] = os[q], os'[h] \in {"stop", "zombie"},
         NEW R, R = Without(r, running.size, 1), NEW W, W = Longer(w, waiting.size, h)
  PROVE  /\ ShellInv(R, W, f)' /\ running' \in QueueType /\ waiting' \in QueueType
         /\ next' \in [Process -> Pointer]
<1>1. Queues(r, w, f) /\ Children(r, w) /\ FifoInv(r, w, f) /\ OrderInv(w, f)
  BY DEF ShellInv
<1>2. /\ finished' = finished /\ added' = added /\ Added' = Added /\ options' = options
      /\ counted' = counted /\ pc' = "pause" /\ options.policy # "fifo"
  BY <1>1 DEF Added, Children
<1>3. /\ running \in Queue /\ waiting \in Queue /\ finished \in Queue /\ next \in Links
      /\ running.size \in Nat /\ waiting.size \in Nat
  BY TypedQueues
<1>4. ThreeChains(running, r, waiting, w, finished, f, next, Added) /\ TailOK(waiting, w)
  BY <1>1 DEF Queues
<1>5. AfterMoveHead(running, r, waiting, w, finished, f, next, Added)
  BY <1>3, <1>4, MoveHead
<1>6. /\ running' \in Queue /\ waiting' \in Queue /\ next' \in Links
      /\ ThreeChains(running', R, waiting', W, finished, f, next', Added)
      /\ TailOK(waiting', W) /\ (LastOK(running, r) => LastOK(running', R))
      /\ running'.size = running.size - 1 /\ waiting'.size = waiting.size + 1
      /\ On(R) = On(r) \ {h} /\ On(W) = On(w) \cup {h} /\ h \in On(r) /\ h \in Process
      /\ W[waiting.size + 1] = h /\ \A k \in 1 .. waiting.size : W[k] = w[k]
  BY <1>5 DEF AfterMoveHead
<1>7. Queues(R, W, f)'
  BY <1>1, <1>2, <1>6 DEF Queues
<1>8. Chain(waiting, next, w) /\ Chain(running, next, r) /\ h \in Added /\ h \notin On(w)
  BY <1>4, <1>6 DEF ThreeChains
<1>9. On(r) \subseteq Process /\ On(w) \subseteq Process /\ Added \subseteq Process
  BY <1>8, ChainOn DEF Added, TypeOK
<1>10. Children(R, W)'
  <2>1. \A p \in Process : (os'[p] = "run" => p \in On(R)) /\ (os'[p] = "stop" => p \in On(W))
    BY <1>1, <1>6 DEF Children
  <2>2. \A p \in On(R) : os'[p] \in {"run", "zombie"}
    BY <1>1, <1>6, <1>9 DEF Children
  <2>3. \A p \in Process \ Added : os'[p] = "none"
    BY <1>1, <1>8 DEF Children
  <2>4. running'.size <= options.cores
    <3>1. options.cores \in Nat
      BY OptionsAssumption DEF TypeOK
    <3>2. running.size <= options.cores
      BY <1>1 DEF Children
    <3> QED BY <1>3, <1>6, <3>1, <3>2
  <2> QED BY <1>2, <2>1, <2>2, <2>3, <2>4 DEF Children
<1>11. FifoInv(R, W, f)'
  BY <1>2 DEF FifoInv
<1>12. OrderInv(W, f)'
  <2>1. \A k \in 1 .. waiting.size + 1 : k = waiting.size + 1 \/ k \in 1 .. waiting.size
    BY <1>3
  <2>2. \A k \in 1 .. waiting.size : w[k] \in Process /\ w[k] \in On(w)
    BY <1>8, ChainList
  <2>3. \A k \in 1 .. waiting.size : W[k] = w[k] /\ os'[w[k]] = os[w[k]]
    BY <1>6, <1>8, <2>2
  <2>4. os'[W[waiting.size + 1]] # "none"
    BY <1>6
  <2>5. \A k, l \in 1 .. waiting.size :
          k < l /\ os[w[k]] = "none" /\ os[w[l]] = "none" => AddedBefore(added, w[k], w[l])
    BY <1>1 DEF OrderInv
  <2>6. \A k, l \in 1 .. waiting.size + 1 :
          k < l /\ os'[W[k]] = "none" /\ os'[W[l]] = "none" => AddedBefore(added, W[k], W[l])
    BY <2>1, <2>3, <2>4, <2>5
  <2>7. os[h] # "none"
    BY <1>1, <1>6 DEF Children
  <2>8. \A p \in Added : os'[p] # "none" <=> os[p] # "none"
    BY <1>9, <2>7
  <2>9. /\ \A i, j \in DOMAIN added : added[i] = added[j] => i = j
        /\ \A p, q \in Added : AddedBefore(added, p, q) /\ os'[q] # "none"
                                 => os'[p] # "none" \/ p \in On(f)
    BY <1>1, <2>8 DEF OrderInv
  <2> QED BY <1>2, <1>6, <2>6, <2>9 DEF OrderInv
<1>13. ShellInv(R, W, f)'
  BY <1>7, <1>10, <1>11, <1>12 DEF ShellInv
<1>14. running' \in QueueType /\ waiting' \in QueueType
  BY <1>2, <1>3, <1>6, <1>7, QueuesTyped
<1> QED BY <1>6, <1>13, <1>14 DEF Links

\* A child that ended is reaped, and its structure goes from the running to the finished
\* queue.
LEMMA ReapKeeps ==
  ASSUME TypeOK, NEW r, NEW w, NEW f, ShellInv(r, w, f), pc = "wait",
         NEW k \in 1 .. running.size, NEW p, p = r[k], os[p] = "zombie",
         running' = Remove(running, next, p).queue,
         finished' = Push(finished, Remove(running, next, p).next, p).queue,
         next' = Push(finished, Remove(running, next, p).next, p).next,
         os' = [os EXCEPT ![p] = "reaped"], counted' = counted \cup {p},
         UNCHANGED <<pc, waiting, added, options>>,
         NEW R, R = Without(r, running.size, k), NEW F, F = Longer(f, finished.size, p)
  PROVE  /\ ShellInv(R, w, F)' /\ running' \in QueueType /\ finished' \in QueueType
         /\ next' \in [Process -> Pointer]
<1>1. Queues(r, w, f) /\ Children(r, w) /\ FifoInv(r, w, f) /\ OrderInv(w, f)
  BY DEF ShellInv
<1>2. /\ waiting' = waiting /\ added' = added /\ Added' = Added /\ options' = options
      /\ pc' = "wait"
  BY DEF Added
<1>3. /\ running \in Queue /\ waiting \in Queue /\ finished \in Queue /\ next \in Links
      /\ running.size \in Nat
  BY TypedQueues
<1>4. ThreeChains(running, r, finished, f, waiting, w, next, Added) /\ TailOK(finished, f)
  BY <1>1 DEF Queues, ThreeChains
<1>5. AfterMoveMember(running, r, finished, f, waiting, w, next, Added, k)
  BY <1>3, <1>4, MoveMember
<1>6. /\ running' \in Queue /\ finished' \in Queue /\ next' \in Links
      /\ ThreeChains(running', R, finished', F, waiting, w, next', Added)
      /\ TailOK(finished', F) /\ (LastOK(running, r) => LastOK(running', R))
      /\ running'.size = running.size - 1
      /\ On(R) = On(r) \ {p} /\ On(F) = On(f) \cup {p}
  BY <1>5 DEF AfterMoveMember
<1>7. Queues(R, w, F)'
  <2>1. ThreeChains(running', R, waiting', w, finished', F, next', Added')
    BY <1>2, <1>6 DEF ThreeChains
  <2>2. TailOK(waiting', w) /\ LastOK(running', R)
    BY <1>1, <1>2, <1>6 DEF Queues
  <2> QED BY <1>2, <1>6, <2>1, <2>2 DEF Queues
<1>8. Chain(running, next, r) /\ Chain(waiting, next, w)
  BY <1>4 DEF ThreeChains
<1>9. p \in On(r) /\ p \in Process
  BY <1>8, ChainList
<1>10. /\ p \notin On(w) /\ p \in Added /\ On(w) \subseteq Process /\ On(r) \subseteq Process
       /\ Added \subseteq Process
  BY <1>4, <1>8, <1>9, ChainOn DEF ThreeChains, Added, TypeOK
<1>11. os'[p] = "reaped" /\ \A q \in Process : q # p => os'[q] = os[q]
  BY <1>9 DEF TypeOK
<1>12. Children(R, w)'
  <2>1. \A q \in Process : (os'[q] = "run" => q \in On(R)) /\ (os'[q] = "stop" => q \in On(w))
    BY <1>1, <1>6, <1>11 DEF Children
  <2>2. \A q \in On(R) : os'[q] \in {"run", "zombie"}
    BY <1>1, <1>6, <1>10, <1>11 DEF Children
  <2>3. \A q \in Process \ Added : os'[q] = "none"
    BY <1>1, <1>10, <1>11 DEF Children
  <2>4. running'.size <= options.cores
    <3>1. options.cores \in Nat
      BY OptionsAssumption DEF TypeOK
    <3>2. running.size <= options.cores
      BY <1>1 DEF Children
    <3> QED BY <1>3, <1>6, <3>1, <3>2
  <2> QED BY <1>2, <2>1, <2>2, <2>3, <2>4 DEF Children
<1>13. FifoInv(R, w, F)'
  <2> SUFFICES ASSUME options.policy = "fifo"
               PROVE  /\ \A q \in On(w) : os'[q] = "none"
                      /\ \A q \in Process : os'[q] = "zombie" => q \in On(R)
                      /\ \A q \in Process : os'[q] = "reaped" => q \in On(F) \cap counted'
    BY <1>2 DEF FifoInv
  <2>1. \A q \in On(w) : os'[q] = "none"
    BY <1>1, <1>10, <1>11 DEF FifoInv
  <2>2. \A q \in Process : os'[q] = "zombie" => q \in On(R)
    BY <1>1, <1>6, <1>11 DEF FifoInv
  <2>3. \A q \in Process : os'[q] = "reaped" => q \in On(F) \cap counted'
    BY <1>1, <1>6, <1>11 DEF FifoInv
  <2> QED BY <2>1, <2>2, <2>3
<1>14. OrderInv(w, F)'
  <2>1. \A q \in Process : os'[q] = "none" <=> os[q] = "none"
    BY <1>11
  <2>2. \A l \in 1 .. waiting.size : w[l] \in Process
    BY <1>8, ChainList
  <2>3. \A l \in 1 .. waiting.size : os'[w[l]] = "none" <=> os[w[l]] = "none"
    BY <2>1, <2>2
  <2>4. \A q \in Added : os'[q] = "none" <=> os[q] = "none"
    BY <1>10, <2>1
  <2> QED BY <1>1, <1>2, <1>6, <2>3, <2>4 DEF OrderInv
<1>15. ShellInv(R, w, F)'
  BY <1>7, <1>12, <1>13, <1>14 DEF ShellInv
<1>16. running' \in QueueType /\ finished' \in QueueType
  BY <1>2, <1>3, <1>6, <1>7, QueuesTyped
<1> QED BY <1>6, <1>15, <1>16 DEF Links

\* Under round robin a child may be reaped whose structure is not in the running queue: it
\* stays where it is.
LEMMA ReapUnlistedKeeps ==
  ASSUME TypeOK, NEW r, NEW w, NEW f, ShellInv(r, w, f), pc = "wait",
         NEW p \in Process, os[p] = "zombie", p \notin On(r),
         os' = [os EXCEPT ![p] = "reaped"],
         UNCHANGED <<queues, pc, added, options, counted>>
  PROVE  ShellInv(r, w, f)'
<1>1. Queues(r, w, f) /\ Children(r, w) /\ FifoInv(r, w, f) /\ OrderInv(w, f)
  BY DEF ShellInv
<1>2. /\ running' = running /\ waiting' = waiting /\ finished' = finished /\ next' = next
      /\ added' = added /\ Added' = Added /\ options' = options /\ pc' = "wait"
  BY DEF queues, Added
<1>3. options.policy # "fifo"
  BY <1>1 DEF FifoInv
<1>4. os'[p] = "reaped" /\ \A q \in Process : q # p => os'[q] = os[q]
  BY DEF TypeOK
<1>5. Chain(running, next, r) /\ Chain(waiting, next, w)
  BY <1>1 DEF Queues, ThreeChains
<1>6. On(r) \subseteq Process /\ Added \subseteq Process
  BY <1>5, ChainOn DEF Added, TypeOK
<1>7. Queues(r, w, f)'
  BY <1>1, <1>2 DEF Queues, TailOK, LastOK
<1>8. Children(r, w)'
  <2>1. \A q \in Process : (os'[q] = "run" => q \in On(r)) /\ (os'[q] = "stop" => q \in On(w))
    BY <1>1, <1>4 DEF Children
  <2>2. \A q \in On(r) : os'[q] \in {"run", "zombie"}
    BY <1>1, <1>4, <1>6 DEF Children
  <2>3. \A q \in Process \ Added : os'[q] = "none"
    BY <1>1, <1>4 DEF Children
  <2>4. running.size <= options.cores
    BY <1>1 DEF Children
  <2> QED BY <1>2, <2>1, <2>2, <2>3, <2>4 DEF Children
<1>9. FifoInv(r, w, f)'
  BY <1>2, <1>3 DEF FifoInv
<1>10. OrderInv(w, f)'
  <2>1. \A q \in Process : os'[q] = "none" <=> os[q] = "none"
    BY <1>4
  <2>2. \A l \in 1 .. waiting.size : w[l] \in Process
    BY <1>5, ChainList
  <2>3. \A l \in 1 .. waiting.size : os'[w[l]] = "none" <=> os[w[l]] = "none"
    BY <2>1, <2>2
  <2>4. \A q \in Added : os'[q] = "none" <=> os[q] = "none"
    BY <1>6, <2>1
  <2> QED BY <1>1, <1>2, <2>3, <2>4 DEF OrderInv
<1> QED BY <1>7, <1>8, <1>9, <1>10 DEF ShellInv

\* b is the list a of the processes S with p at its end: everyone in S was added before p.
AfterAppend(a, b, S, p) ==
  /\ b \in Seq(Process) /\ {b[i] : i \in DOMAIN b} = S \cup {p}
  /\ \A i, j \in DOMAIN b : b[i] = b[j] => i = j
  /\ \A x, y : AddedBefore(a, x, y) => AddedBefore(b, x, y)
  /\ \A x, y : AddedBefore(b, x, y) /\ y # p => AddedBefore(a, x, y)
  /\ \A x \in S : AddedBefore(b, x, p)

LEMMA AddedLast ==
  ASSUME NEW a \in Seq(Process), \A i, j \in DOMAIN a : a[i] = a[j] => i = j,
         NEW p \in Process, p \notin {a[i] : i \in DOMAIN a}
  PROVE  AfterAppend(a, Append(a, p), {a[i] : i \in DOMAIN a}, p)
<1> DEFINE b == Append(a, p)
           S == {a[i] : i \in DOMAIN a}
<1> DEFINE n == Len(a)
<1>1. /\ n \in Nat /\ DOMAIN a = 1 .. n /\ DOMAIN b = 1 .. n + 1 /\ b \in Seq(Process)
      /\ b[n + 1] = p /\ \A i \in 1 .. n : b[i] = a[i]
  OBVIOUS
<1>2. \A i \in 1 .. n + 1 : i = n + 1 \/ i \in 1 .. n
  BY <1>1
<1>3. n + 1 \in 1 .. n + 1 /\ \A i \in 1 .. n : i \in 1 .. n + 1 /\ i < n + 1
  BY <1>1
<1>4. \A i \in 1 .. n : a[i] \in S /\ a[i] # p
  BY <1>1
<1> HIDE DEF n, b
<1>5. {b[i] : i \in DOMAIN b} = S \cup {p}
  <2>1. {b[i] : i \in DOMAIN b} \subseteq S \cup {p}
    BY <1>1, <1>2, <1>4
  <2>2. S = {a[i] : i \in 1 .. n}
    BY <1>1
  <2>3. S \subseteq {b[i] : i \in DOMAIN b}
    BY <1>1, <1>3, <2>2
  <2>4. p \in {b[i] : i \in DOMAIN b}
    BY <1>1, <1>3
  <2> QED BY <2>1, <2>3, <2>4
<1>6. \A i, j \in DOMAIN b : b[i] = b[j] => i = j
  <2> SUFFICES ASSUME NEW i \in 1 .. n + 1, NEW j \in 1 .. n + 1, b[i] = b[j] PROVE i = j
    BY <1>1
  <2>1. CASE i \in 1 .. n /\ j \in 1 .. n
    BY <1>1, <2>1
  <2>2. CASE i = n + 1 \/ j = n + 1
    BY <1>1, <1>2, <1>4, <2>2
  <2> QED BY <1>2, <2>1, <2>2
<1>7. ASSUME NEW x, NEW y, AddedBefore(a, x, y) PROVE AddedBefore(b, x, y)
  <2>1. PICK i \in 1 .. n, j \in 1 .. n : i < j /\ a[i] = x /\ a[j] = y
    BY <1>1, <1>7 DEF AddedBefore
  <2>2. i \in DOMAIN b /\ j \in DOMAIN b /\ i < j /\ b[i] = x /\ b[j] = y
    BY <1>1, <1>3, <2>1
  <2> QED BY <2>2 DEF AddedBefore
<1>8. ASSUME NEW x, NEW y, AddedBefore(b, x, y), y # p PROVE AddedBefore(a, x, y)
  <2>1. PICK i \in 1 .. n + 1, j \in 1 .. n + 1 : i < j /\ b[i] = x /\ b[j] = y
    BY <1>1, <1>8 DEF AddedBefore
  <2>2. j \in 1 .. n
    BY <1>1, <1>2, <1>8, <2>1
  <2>3. i \in 1 .. n
    BY <1>1, <2>1, <2>2
  <2>4. i \in DOMAIN a /\ j \in DOMAIN a /\ i < j /\ a[i] = x /\ a[j] = y
    BY <1>1, <2>1, <2>2, <2>3
  <2> QED BY <2>4 DEF AddedBefore
<1>9. ASSUME NEW x \in S PROVE AddedBefore(b, x, p)
  <2>1. PICK i \in 1 .. n : x = a[i]
    BY <1>1, <1>9
  <2>2. i \in DOMAIN b /\ n + 1 \in DOMAIN b /\ i < n + 1 /\ b[i] = x /\ b[n + 1] = p
    BY <1>1, <1>3, <2>1
  <2> QED BY <2>2 DEF AddedBefore
<1>10. b \in Seq(Process)
  BY <1>1
<1> HIDE DEF S
<1>11. AfterAppend(a, b, S, p)
  BY <1>5, <1>6, <1>7, <1>8, <1>9, <1>10 DEF AfterAppend
<1> QED BY <1>11 DEF b, S

\* A new process is pushed onto the waiting queue.
LEMMA AddKeeps ==
  ASSUME TypeOK, NEW r, NEW w, NEW f, ShellInv(r, w, f), NEW p \in Process, Add(p),
         NEW W, W = Longer(w, waiting.size, p)
  PROVE  /\ ShellInv(r, W, f)' /\ waiting' \in QueueType /\ next' \in [Process -> Pointer]
         /\ added' \in Seq(Process)
<1>1. Queues(r, w, f) /\ Children(r, w) /\ FifoInv(r, w, f) /\ OrderInv(w, f)
  BY DEF ShellInv
<1>2. /\ waiting' = Push(waiting, next, p).queue /\ next' = Push(waiting, next, p).next
      /\ running' = running /\ finished' = finished /\ added' = Append(added, p)
      /\ options' = options /\ counted' = counted /\ os' = os /\ pc' = "enter" /\ p \notin Added
  BY DEF Add, Goto, Added
<1>3. /\ running \in Queue /\ waiting \in Queue /\ finished \in Queue /\ next \in Links
      /\ waiting.size \in Nat
  BY TypedQueues
<1>4. /\ ThreeChains(running, r, waiting, w, finished, f, next, Added)
      /\ TailOK(waiting, w) /\ TailOK(finished, f) /\ LastOK(running, r)
  BY <1>1 DEF Queues
<1>5. AfterPush(running, r, waiting, w, finished, f, next, Added, p)
  BY <1>2, <1>3, <1>4, PushOnOne
<1>6. /\ waiting' \in Queue /\ next' \in Links
      /\ ThreeChains(running, r, waiting', W, finished, f, next', Added \cup {p})
      /\ TailOK(waiting', W) /\ waiting'.size = waiting.size + 1
      /\ On(W) = On(w) \cup {p} /\ W[waiting.size + 1] = p
      /\ \A k \in 1 .. waiting.size : W[k] = w[k]
  BY <1>2, <1>5 DEF AfterPush
<1>7. \A i, j \in DOMAIN added : added[i] = added[j] => i = j
  BY <1>1 DEF OrderInv
<1>8. /\ added' \in Seq(Process) /\ Added' = Added \cup {p}
      /\ \A i, j \in DOMAIN added' : added'[i] = added'[j] => i = j
      /\ \A x, y : AddedBefore(added, x, y) => AddedBefore(added', x, y)
      /\ \A x, y : AddedBefore(added', x, y) /\ y # p => AddedBefore(added, x, y)
      /\ \A x \in Added : AddedBefore(added', x, p)
  <2>1. added \in Seq(Process) /\ p \notin {added[i] : i \in DOMAIN added}
    BY <1>2 DEF TypeOK, Added
  <2>2. AfterAppend(added, Append(added, p), {added[i] : i \in DOMAIN added}, p)
    BY <1>7, <2>1, AddedLast
  <2>3. AfterAppend(added, added', Added, p)
    BY <1>2, <2>2 DEF Added
  <2>4. Added' = {added'[i] : i \in DOMAIN added'}
    BY DEF Added
  <2> QED BY <2>3, <2>4 DEF AfterAppend
<1>9. Chain(waiting, next, w) /\ On(w) \subseteq Added /\ Added \subseteq Process
  BY <1>4 DEF ThreeChains, Added, TypeOK
<1>10. os[p] = "none"
  BY <1>1, <1>2 DEF Children
<1>11. Queues(r, W, f)'
  <2>1. ThreeChains(running', r, waiting', W, finished', f, next', Added')
    BY <1>2, <1>6, <1>8
  <2>2. TailOK(finished', f) /\ LastOK(running', r) /\ pc' # "fill"
    BY <1>2, <1>4
  <2> QED BY <1>6, <2>1, <2>2 DEF Queues
<1>12. Children(r, W)'
  <2>1. \A q \in Process : (os[q] = "run" => q \in On(r)) /\ (os[q] = "stop" => q \in On(W))
    BY <1>1, <1>6 DEF Children
  <2>2. \A q \in Process \ (Added \cup {p}) : os[q] = "none"
    BY <1>1 DEF Children
  <2>3. (\A q \in On(r) : os[q] \in {"run", "zombie"}) /\ running.size <= options.cores
    BY <1>1 DEF Children
  <2> QED BY <1>2, <1>8, <2>1, <2>2, <2>3 DEF Children
<1>13. FifoInv(r, W, f)'
  BY <1>1, <1>2, <1>6, <1>10 DEF FifoInv
<1>14. OrderInv(W, f)'
  <2>1. \A k \in 1 .. waiting.size + 1 : k = waiting.size + 1 \/ k \in 1 .. waiting.size
    BY <1>3
  <2>2. \A k \in 1 .. waiting.size : W[k] = w[k] /\ w[k] \in Added
    BY <1>6, <1>9, ChainList
  <2>3. \A k, l \in 1 .. waiting.size :
          k < l /\ os[w[k]] = "none" /\ os[w[l]] = "none" => AddedBefore(added, w[k], w[l])
    BY <1>1 DEF OrderInv
  <2>4. \A k, l \in 1 .. waiting.size + 1 :
          k < l /\ os[W[k]] = "none" /\ os[W[l]] = "none" => AddedBefore(added', W[k], W[l])
    <3> SUFFICES ASSUME NEW k \in 1 .. waiting.size + 1, NEW l \in 1 .. waiting.size + 1,
                        k < l, os[W[k]] = "none", os[W[l]] = "none"
                 PROVE  AddedBefore(added', W[k], W[l])
      OBVIOUS
    <3>1. k \in 1 .. waiting.size
      BY <1>3
    <3>2. CASE l = waiting.size + 1
      <4>1. W[l] = p /\ W[k] \in Added
        BY <1>6, <2>2, <3>1, <3>2
      <4> QED BY <1>8, <4>1
    <3>3. CASE l \in 1 .. waiting.size
      <4>1. W[k] = w[k] /\ W[l] = w[l]
        BY <2>2, <3>1, <3>3
      <4>2. AddedBefore(added, W[k], W[l])
        BY <2>3, <3>1, <3>3, <4>1
      <4> QED BY <1>8, <4>2
    <3> QED BY <2>1, <3>2, <3>3
  <2>5. \A x, y \in Added \cup {p} : AddedBefore(added', x, y) /\ os[y] # "none"
                                       => os[x] # "none" \/ x \in On(f)
    <3> SUFFICES ASSUME NEW x \in Added \cup {p}, NEW y \in Added \cup {p},
                        AddedBefore(added', x, y), os[y] # "none"
                 PROVE  os[x] # "none" \/ x \in On(f)
      OBVIOUS
    <3>1. y # p /\ y \in Added
      BY <1>10
    <3>2. AddedBefore(added, x, y)
      BY <1>8, <3>1
    <3>3. x \in Added
      BY <3>2 DEF AddedBefore, Added
    <3> QED BY <1>1, <3>1, <3>2, <3>3 DEF OrderInv
  <2> QED BY <1>2, <1>6, <1>8, <2>4, <2>5 DEF OrderInv
<1>15. ShellInv(r, W, f)'
  BY <1>11, <1>12, <1>13, <1>14 DEF ShellInv
<1>16. waiting' \in QueueType
  BY <1>2, <1>3, <1>6, <1>11, QueuesTyped
<1> QED BY <1>6, <1>8, <1>15, <1>16 DEF Links

\* What a step that leaves the queues alone does.
QuietStep ==
  \/ EnterFgets \/ OtherCommand \/ Quit \/ CheckChild \/ WaitDone \/ CheckTimer \/ Reset
  \/ FifoDone \/ RdrnPaused \/ RdrnDone \/ TimerTicks \/ (\E p \in Process : ChildExits(p))
  \/ (\E s \in {"timer", "child"} : Deliver(s)) \/ UNCHANGED vars

LEMMA QuietStepDoes ==
  ASSUME TypeOK, QuietStep
  PROVE  /\ TypeOK' /\ UNCHANGED <<queues, history, options>>
         /\ \A p \in Process : os'[p] = os[p] \/ (os[p] = "run" /\ os'[p] = "zombie")
         /\ os' \in [Process -> {"none", "run", "stop", "zombie", "reaped"}]
         /\ event' \subseteq {"timer", "child"} /\ pending' \subseteq {"timer", "child"}
         /\ \/ pc' = pc \/ CheckTimer \/ RdrnPaused
            \/ pc' \in {"enter", "blocked", "quit", "check_child", "wait", "check_timer", "reset"}
<1> USE DEF QuietStep
<1>1. UNCHANGED <<queues, history, options>>
  BY DEF EnterFgets, OtherCommand, Quit, CheckChild, WaitDone, CheckTimer, Reset, FifoDone,
         RdrnPaused, RdrnDone, TimerTicks, ChildExits, Deliver, vars
<1>2. os' = os \/ \E p \in Process : os[p] = "run" /\ os' = [os EXCEPT ![p] = "zombie"]
  BY DEF EnterFgets, OtherCommand, Quit, CheckChild, WaitDone, CheckTimer, Reset, FifoDone,
         RdrnPaused, RdrnDone, TimerTicks, ChildExits, Deliver, vars
<1>3. event' \subseteq {"timer", "child"} /\ pending' \subseteq {"timer", "child"}
  BY DEF EnterFgets, OtherCommand, Quit, CheckChild, WaitDone, CheckTimer, Reset, FifoDone,
         RdrnPaused, RdrnDone, TimerTicks, ChildExits, Deliver, vars, TypeOK
<1>4. \/ pc' = pc \/ CheckTimer \/ RdrnPaused
      \/ pc' \in {"enter", "blocked", "quit", "check_child", "wait", "check_timer", "reset"}
  BY DEF EnterFgets, OtherCommand, Quit, CheckChild, WaitDone, Reset, FifoDone, RdrnDone,
         TimerTicks, ChildExits, Deliver, vars, Goto
<1>5. /\ \A p \in Process : os'[p] = os[p] \/ (os[p] = "run" /\ os'[p] = "zombie")
      /\ os' \in [Process -> {"none", "run", "stop", "zombie", "reaped"}]
  BY <1>2 DEF TypeOK
<1>6. TypeOK'
  <2>1. /\ options' = options /\ running' = running /\ waiting' = waiting /\ finished' = finished
        /\ next' = next /\ added' = added /\ counted' = counted
        /\ children' = children /\ astray' = astray
    BY <1>1 DEF queues, history
  <2>2. pc' \in {"enter", "blocked", "check_child", "wait", "check_timer", "fifo", "pause",
                 "fill", "reset", "quit"}
    BY <1>4 DEF CheckTimer, RdrnPaused, Goto, TypeOK
  <2> QED BY <1>3, <1>5, <2>1, <2>2 DEF TypeOK
<1> QED BY <1>1, <1>3, <1>4, <1>5, <1>6

LEMMA QuietSteps ==
  ASSUME TypeOK, NEW r, NEW w, NEW f, ShellInv(r, w, f), QuietStep
  PROVE  TypeOK' /\ ShellInv(r, w, f)'
<1>1. Children(r, w)
  BY DEF ShellInv
<1>2. /\ TypeOK' /\ UNCHANGED <<queues, added, options, counted>>
      /\ \A p \in Process : os'[p] = os[p] \/ (os[p] = "run" /\ os'[p] = "zombie")
  BY QuietStepDoes DEF history
<1>3. \/ pc' = pc \/ CheckTimer \/ RdrnPaused
      \/ pc' \in {"enter", "blocked", "quit", "check_child", "wait", "check_timer", "reset"}
  BY QuietStepDoes
<1>4. pc' = "fill" => pc = "fill" \/ running.size = 0
  BY <1>3 DEF CheckTimer, RdrnPaused, Goto
<1>5. /\ pc' = "fifo" => options.policy = "fifo"
      /\ pc' \in {"pause", "fill"} => options.policy # "fifo"
  BY <1>1, <1>3 DEF CheckTimer, RdrnPaused, Goto, Children
<1> QED BY <1>2, <1>4, <1>5, AloneKeeps

LEMMA AddStep ==
  ASSUME TypeOK, NEW r, NEW w, NEW f, ShellInv(r, w, f), NEW p \in Process, Add(p)
  PROVE  TypeOK' /\ Sound'
<1>1. PICK W : W = Longer(w, waiting.size, p)
  OBVIOUS
<1>2. /\ ShellInv(r, W, f)' /\ waiting' \in QueueType /\ next' \in [Process -> Pointer]
      /\ added' \in Seq(Process)
  BY <1>1, AddKeeps
<1>3. TypeOK'
  BY <1>2 DEF Add, Goto, TypeOK
<1> QED BY <1>2, <1>3 DEF Sound

LEMMA WaitStep ==
  ASSUME TypeOK, NEW r, NEW w, NEW f, ShellInv(r, w, f), NEW p \in Process, WaitChild(p)
  PROVE  TypeOK' /\ Sound'
<1>1. /\ pc = "wait" /\ pc' = "wait" /\ os[p] = "zombie" /\ os' = [os EXCEPT ![p] = "reaped"]
      /\ UNCHANGED <<event, pending, added, children, astray, options>>
  BY DEF WaitChild, Goto
<1>2. Chain(running, next, r)
  BY DEF ShellInv, Queues, ThreeChains
<1>3. Members(running, next) = On(r)
  BY <1>2, ChainMembers
<1>4. CASE p \notin On(r)
  <2>1. UNCHANGED <<queues, counted>>
    BY <1>3, <1>4 DEF WaitChild
  <2>2. ShellInv(r, w, f)'
    BY <1>1, <1>4, <2>1, ReapUnlistedKeeps
  <2>3. TypeOK'
    BY <1>1, <2>1 DEF TypeOK, queues
  <2> QED BY <2>2, <2>3 DEF Sound
<1>5. CASE p \in On(r)
  <2>1. /\ running' = Remove(running, next, p).queue
        /\ finished' = Push(finished, Remove(running, next, p).next, p).queue
        /\ next' = Push(finished, Remove(running, next, p).next, p).next
        /\ counted' = counted \cup {p} /\ UNCHANGED waiting
    BY <1>3, <1>5 DEF WaitChild
  <2>2. PICK k \in 1 .. running.size : p = r[k]
    BY <1>2, <1>5, ChainList
  <2>3. PICK R : R = Without(r, running.size, k)
    OBVIOUS
  <2>4. PICK F : F = Longer(f, finished.size, p)
    OBVIOUS
  <2>5. UNCHANGED <<pc, waiting, added, options>>
    BY <1>1, <2>1
  <2>6. /\ ShellInv(R, w, F)' /\ running' \in QueueType /\ finished' \in QueueType
        /\ next' \in [Process -> Pointer]
    BY <1>1, <2>1, <2>2, <2>3, <2>4, <2>5, ReapKeeps
  <2>7. TypeOK'
    BY <1>1, <2>1, <2>6 DEF TypeOK
  <2> QED BY <2>6, <2>7 DEF Sound
<1> QED BY <1>4, <1>5

\* Unless its tail has been removed, the running queue that scheduler_fifo pushes onto has
\* its last process for a tail.
LEMMA FifoStep ==
  ASSUME TypeOK, NEW r, NEW w, NEW f, ShellInv(r, w, f), FifoStart, ~ astray'
  PROVE  TypeOK' /\ Sound'
<1>1. PICK h : h = waiting.head
  OBVIOUS
<1>2. /\ pc = "fifo" /\ pc' = "fifo" /\ running.size < options.cores /\ waiting.size > 0
      /\ waiting' = Pop(waiting, next).queue
      /\ running' = Push(running, Pop(waiting, next).next, h).queue
      /\ next' = Push(running, Pop(waiting, next).next, h).next
      /\ os' = [os EXCEPT ![h] = "run"] /\ children' = [children EXCEPT ![h] = @ + 1]
      /\ UNCHANGED <<finished, event, pending, added, counted, options>>
  BY <1>1 DEF FifoStart, FifoMore, Fork, Goto
<1>3. Chain(waiting, next, w) /\ Children(r, w) /\ Chain(running, next, r) /\ LastOK(running, r)
  BY DEF ShellInv, Queues, ThreeChains
<1>4. h \in Process
  BY <1>1, <1>2, <1>3, ChainOn
<1>5. TailOK(running, r)
  <2> SUFFICES ASSUME running.size > 0 PROVE running.tail = r[running.size]
    BY DEF TailOK
  <2>1. ~ TailRemoved(running)
    BY DEF FifoStart
  <2>2. Members(running, next) = On(r) /\ running.head # NULL
    BY <1>3, ChainMembers, ChainOn
  <2>3. running.tail \in Process /\ (running.tail \in On(r) => running.tail = r[running.size])
    BY <1>3 DEF LastOK
  <2> QED BY <2>1, <2>2, <2>3, ProcessAssumption DEF TailRemoved
<1>6. PICK R : R = Longer(r, running.size, h)
  OBVIOUS
<1>7. PICK W : W = Without(w, waiting.size, 1)
  OBVIOUS
<1>8. UNCHANGED <<pc, finished, added, options, counted>>
  BY <1>2
<1>9. os'[h] = "run" /\ \A q \in Process : q # h => os'[q] = os[q]
  BY <1>2, <1>4 DEF TypeOK
<1>10. /\ ShellInv(R, W, f)' /\ running' \in QueueType /\ waiting' \in QueueType
       /\ next' \in [Process -> Pointer]
  BY <1>1, <1>2, <1>5, <1>6, <1>7, <1>8, <1>9, StartKeeps
<1>11. TypeOK'
  <2>1. children' \in [Process -> Nat]
    BY <1>2, <1>4 DEF TypeOK
  <2>2. astray' = FALSE
    BY DEF FifoStart, TypeOK
  <2> QED BY <1>2, <1>10, <2>1, <2>2 DEF TypeOK
<1> QED BY <1>10, <1>11 DEF Sound

LEMMA FillStep ==
  ASSUME TypeOK, NEW r, NEW w, NEW f, ShellInv(r, w, f), RdrnFill
  PROVE  TypeOK' /\ Sound'
<1>1. PICK h : h = waiting.head
  OBVIOUS
<1>2. /\ pc = "fill" /\ pc' = "fill" /\ running.size < options.cores /\ waiting.size > 0
      /\ waiting' = Pop(waiting, next).queue
      /\ running' = Push(running, Pop(waiting, next).next, h).queue
      /\ next' = Push(running, Pop(waiting, next).next, h).next
      /\ UNCHANGED <<finished, event, added, counted, astray, options>>
      /\ \/ os[h] = "none" /\ Fork(h)
         \/ ~ KillFails(h) /\ SigCont(h) /\ UNCHANGED children
  BY <1>1 DEF RdrnFill, RdrnMore, Goto
<1>3. Chain(waiting, next, w) /\ Children(r, w)
  BY DEF ShellInv, Queues, ThreeChains
<1>4. h \in Process
  BY <1>1, <1>2, <1>3, ChainOn
<1>5. TailOK(running, r)
  BY <1>2 DEF ShellInv, Queues
<1>6. PICK R : R = Longer(r, running.size, h)
  OBVIOUS
<1>7. PICK W : W = Without(w, waiting.size, 1)
  OBVIOUS
<1>8. UNCHANGED <<pc, finished, added, options, counted>>
  BY <1>2
<1>9. /\ os'[h] = "run" \/ (os'[h] = "zombie" /\ os[h] = "zombie")
      /\ \A q \in Process : q # h => os'[q] = os[q]
      /\ os' \in [Process -> {"none", "run", "stop", "zombie", "reaped"}]
      /\ pending' \subseteq {"timer", "child"} /\ children' \in [Process -> Nat]
  <2>1. CASE os[h] = "none" /\ Fork(h)
    <3>1. /\ os' = [os EXCEPT ![h] = "run"] /\ children' = [children EXCEPT ![h] = @ + 1]
          /\ pending' = pending
      BY <2>1 DEF Fork
    <3> QED BY <1>4, <3>1 DEF TypeOK
  <2>2. CASE ~ KillFails(h) /\ SigCont(h) /\ UNCHANGED children
    BY <1>4, <2>2 DEF SigCont, KillFails, TypeOK
  <2> QED BY <1>2, <2>1, <2>2
<1>10. /\ ShellInv(R, W, f)' /\ running' \in QueueType /\ waiting' \in QueueType
       /\ next' \in [Process -> Pointer]
  BY <1>1, <1>2, <1>5, <1>6, <1>7, <1>8, <1>9, StartKeeps
<1>11. TypeOK'
  BY <1>2, <1>9, <1>10 DEF TypeOK
<1> QED BY <1>10, <1>11 DEF Sound

LEMMA FailStep ==
  ASSUME TypeOK, NEW r, NEW w, NEW f, ShellInv(r, w, f), FifoForkFails \/ RdrnFillFails
  PROVE  TypeOK' /\ Sound'
<1>1. PICK h : h = waiting.head
  OBVIOUS
<1>2. /\ pc' = "reset" /\ waiting.size > 0 /\ waiting' = Pop(waiting, next).queue
      /\ MoveToFinished(h, Pop(waiting, next).next)
      /\ UNCHANGED <<running, event, os, pending, history, options>>
  BY <1>1 DEF FifoForkFails, FifoMore, RdrnFillFails, RdrnMore, Goto
<1>3. Chain(waiting, next, w) /\ Children(r, w) /\ FifoInv(r, w, f)
  BY DEF ShellInv, Queues, ThreeChains
<1>4. h \in Process /\ h \in On(w) /\ h # NULL
  BY <1>1, <1>2, <1>3, ChainOn, ProcessAssumption
<1>5. /\ finished' = Push(finished, Pop(waiting, next).next, h).queue
      /\ next' = Push(finished, Pop(waiting, next).next, h).next
  BY <1>2, <1>4 DEF MoveToFinished
<1>6. os[h] # "stop"
  <2>1. CASE FifoForkFails
    <3>1. pc = "fifo"
      BY <2>1 DEF FifoForkFails, Goto
    <3>2. os[h] = "none"
      BY <1>3, <1>4, <3>1 DEF Children, FifoInv
    <3> QED BY <3>2
  <2>2. CASE RdrnFillFails
    BY <1>1, <1>4, <2>2 DEF RdrnFillFails, KillFails
  <2> QED BY <2>1, <2>2
<1>7. PICK F : F = Longer(f, finished.size, h)
  OBVIOUS
<1>8. PICK W : W = Without(w, waiting.size, 1)
  OBVIOUS
<1>9. UNCHANGED <<running, added, os, options, counted>>
  BY <1>2 DEF history
<1>10. /\ ShellInv(r, W, F)' /\ waiting' \in QueueType /\ finished' \in QueueType
       /\ next' \in [Process -> Pointer]
  BY <1>1, <1>2, <1>5, <1>6, <1>7, <1>8, <1>9, FailKeeps
<1>11. TypeOK'
  BY <1>2, <1>10 DEF TypeOK, history
<1> QED BY <1>10, <1>11 DEF Sound

LEMMA PauseStep ==
  ASSUME TypeOK, NEW r, NEW w, NEW f, ShellInv(r, w, f), RdrnPause
  PROVE  TypeOK' /\ Sound'
<1>1. PICK h : h = running.head
  OBVIOUS
<1>2. Chain(running, next, r) /\ Children(r, w) /\ running.size > 0 /\ pc = "pause"
  BY DEF ShellInv, Queues, ThreeChains, RdrnPause
<1>3. h \in Process /\ h \in On(r) /\ h # NULL
  BY <1>1, <1>2, ChainOn, ProcessAssumption
<1>4. os[h] \in {"run", "zombie"} /\ ~ KillFails(h)
  BY <1>2, <1>3 DEF Children, KillFails
<1>5. /\ running' = Pop(running, next).queue
      /\ waiting' = Push(waiting, Pop(running, next).next, h).queue
      /\ next' = Push(waiting, Pop(running, next).next, h).next
      /\ SigStop(h) /\ UNCHANGED <<finished, pc, event, history, options>>
  BY <1>1, <1>3, <1>4 DEF RdrnPause
<1>6. /\ os'[h] \in {"stop", "zombie"} /\ \A q \in Process : q # h => os'[q] = os[q]
      /\ os' \in [Process -> {"none", "run", "stop", "zombie", "reaped"}]
      /\ pending' \subseteq {"timer", "child"}
  BY <1>3, <1>4, <1>5 DEF SigStop, TypeOK
<1>7. PICK R : R = Without(r, running.size, 1)
  OBVIOUS
<1>8. PICK W : W = Longer(w, waiting.size, h)
  OBVIOUS
<1>9. UNCHANGED <<pc, finished, added, options, counted>>
  BY <1>5 DEF history
<1>10. /\ ShellInv(R, W, f)' /\ running' \in QueueType /\ waiting' \in QueueType
       /\ next' \in [Process -> Pointer]
  BY <1>1, <1>2, <1>5, <1>6, <1>7, <1>8, <1>9, PauseKeeps
<1>11. TypeOK'
  BY <1>5, <1>6, <1>10 DEF TypeOK, history
<1> QED BY <1>10, <1>11 DEF Sound

LEMMA InitSound == Init => TypeOK /\ Sound
<1> SUFFICES ASSUME Init PROVE TypeOK /\ Sound
  OBVIOUS
<1>1. /\ options \in Options /\ running = EmptyQueue /\ waiting = EmptyQueue /\ finished = EmptyQueue
      /\ next = [p \in Process |-> NULL] /\ event = {} /\ pc = "enter"
      /\ os = [p \in Process |-> "none"] /\ pending = {} /\ added = << >> /\ counted = {}
      /\ children = [p \in Process |-> 0] /\ astray = FALSE
  BY DEF Init
<1>2. EmptyQueue.size = 0 /\ EmptyQueue.head = NULL
  BY DEF EmptyQueue
<1>3. DOMAIN << >> = {} /\ Added = {} /\ On(<< >>) = {}
  BY <1>1 DEF Added, On
<1>4. Chain(EmptyQueue, next, << >>) /\ TailOK(EmptyQueue, << >>)
  <2>1. << >> \in [1 .. 0 -> Process] /\ \A i \in 1 .. 0 : FALSE
    OBVIOUS
  <2> QED BY <1>2, <2>1 DEF Chain, TailOK
<1>5. Queues(<< >>, << >>, << >>)
  BY <1>1, <1>2, <1>3, <1>4 DEF Queues, ThreeChains, LastOK
<1>6. Children(<< >>, << >>)
  <2>1. options.cores \in Nat
    BY <1>1, OptionsAssumption
  <2> QED BY <1>1, <1>2, <1>3, <2>1 DEF Children
<1>7. FifoInv(<< >>, << >>, << >>)
  BY <1>1, <1>3 DEF FifoInv
<1>8. OrderInv(<< >>, << >>)
  <2>1. \A i \in 1 .. waiting.size : FALSE
    BY <1>1, <1>2
  <2> QED BY <1>1, <1>3, <2>1 DEF OrderInv
<1>9. TypeOK
  <2>1. EmptyQueue \in QueueType
    <3>1. Cardinality(Process) \in Nat
      BY ProcessAssumption, FS_CardinalityType
    <3> QED BY <3>1 DEF EmptyQueue, QueueType, Pointer
  <2>2. children \in [Process -> Nat] /\ next \in [Process -> Pointer] /\ astray \in BOOLEAN
    BY <1>1 DEF Pointer
  <2>3. added \in Seq(Process)
    BY <1>1
  <2> QED BY <1>1, <2>1, <2>2, <2>3 DEF TypeOK
<1> QED BY <1>5, <1>6, <1>7, <1>8, <1>9 DEF Sound, ShellInv

LEMMA StepSound ==
  ASSUME TypeOK, Sound, [Next]_vars, ~ astray'
  PROVE  TypeOK' /\ Sound'
<1>1. TypeOK
  OBVIOUS
<1>2. PICK r, w, f : ShellInv(r, w, f)
  BY DEF Sound
<1>3. CASE QuietStep
  <2>1. TypeOK' /\ ShellInv(r, w, f)'
    BY <1>1, <1>2, <1>3, QuietSteps
  <2> QED BY <2>1 DEF Sound
<1>4. CASE \E p \in Process : Add(p)
  BY <1>1, <1>2, <1>4, AddStep
<1>5. CASE \E p \in Process : WaitChild(p)
  BY <1>1, <1>2, <1>5, WaitStep
<1>6. CASE FifoStart
  BY <1>1, <1>2, <1>6, FifoStep
<1>7. CASE RdrnFill
  BY <1>1, <1>2, <1>7, FillStep
<1>8. CASE FifoForkFails \/ RdrnFillFails
  BY <1>1, <1>2, <1>8, FailStep
<1>9. CASE RdrnPause
  BY <1>1, <1>2, <1>9, PauseStep
<1> QED BY <1>3, <1>4, <1>5, <1>6, <1>7, <1>8, <1>9 DEF Next, Loop, QuietStep

-----------------------------------------------------------------------------
(* FIFO, whatever became of the running and the finished queue.            *)

\* What the main loop's position and a stray push tell of the policy.
LoopInv ==
  /\ pc = "fifo" => options.policy = "fifo"
  /\ pc \in {"pause", "fill"} => options.policy # "fifo"
  /\ astray => options.policy = "fifo" /\ options.cores > 1

Busy       == {p \in Process : os[p] \in {"run", "zombie"}}
Begun      == {p \in Process : os[p] # "none"}
Settled(w) == {p \in Process : p \in Added \ On(w) /\ os[p] \in {"none", "reaped"}}
Outside(w) == (Added \ On(w)) \cup {NULL}

\* What FIFO keeps after a push went astray too: the waiting queue is still a chain, of
\* processes that have not been started, and nothing else points into it.
Backlog(w) ==
  /\ Chain(waiting, next, w) /\ TailOK(waiting, w) /\ On(w) \subseteq Added
  /\ Fenced(next, On(w), Outside(w)) /\ Near(running, Outside(w)) /\ Near(finished, Outside(w))
  /\ \A p \in Process : os[p] # "stop" /\ (p \in On(w) \/ p \notin Added => os[p] = "none")

\* The sizes of the other two count what was started and what was settled.
Tally(w) ==
  /\ Cardinality(Busy) <= running.size /\ running.size <= Cardinality(Begun)
  /\ running.size <= options.cores
  /\ finished.size <= Cardinality(Settled(w))

Kept(w) == Backlog(w) /\ Tally(w)

LEMMA CardOf ==
  ASSUME NEW S, S \subseteq Process
  PROVE  /\ IsFiniteSet(S) /\ Cardinality(S) \in Nat /\ Cardinality(S) <= Cardinality(Process)
         /\ Cardinality(Process) \in Nat
         /\ \A x : x \notin S => Cardinality(S \cup {x}) = Cardinality(S) + 1
         /\ \A x \in S : Cardinality(S \ {x}) = Cardinality(S) - 1
<1>1. IsFiniteSet(S) /\ Cardinality(S) <= Cardinality(Process)
  BY ProcessAssumption, FS_Subset
<1>2. Cardinality(S) \in Nat /\ Cardinality(Process) \in Nat
  BY <1>1, ProcessAssumption, FS_CardinalityType
<1>3. \A x : x \notin S => Cardinality(S \cup {x}) = Cardinality(S) + 1
  BY <1>1, FS_AddElement
<1>4. \A x \in S : Cardinality(S \ {x}) = Cardinality(S) - 1
  BY <1>1, FS_RemoveElement
<1> QED BY <1>1, <1>2, <1>3, <1>4

\* The three kinds of processes counted, as subsets of all processes.
LEMMA Countable ==
  ASSUME NEW w
  PROVE  Busy \subseteq Process /\ Begun \subseteq Process /\ Settled(w) \subseteq Process
BY DEF Busy, Begun, Settled

\* The sizes that Tally counts are within the types of the queues.
LEMMA KeptTyped ==
  ASSUME NEW w, Kept(w)', running' \in Queue, waiting' \in Queue, finished' \in Queue
  PROVE  running' \in QueueType /\ waiting' \in QueueType /\ finished' \in QueueType
<1>1. Chain(waiting', next', w)
  BY DEF Kept, Backlog
<1>2. /\ running'.size <= Cardinality(Begun') /\ finished'.size <= Cardinality(Settled(w)')
  BY DEF Kept, Tally
<1>3. Begun' \subseteq Process /\ Settled(w)' \subseteq Process
  BY DEF Begun, Settled
<1>4. /\ Cardinality(Begun') <= Cardinality(Process) /\ Cardinality(Begun') \in Nat
      /\ Cardinality(Settled(w)') <= Cardinality(Process) /\ Cardinality(Settled(w)') \in Nat
      /\ Cardinality(Process) \in Nat
  BY <1>3, CardOf
<1>5. running'.size \in Nat /\ finished'.size \in Nat
  BY DEF Queue
<1>6. running'.size \in 0 .. Cardinality(Process) /\ finished'.size \in 0 .. Cardinality(Process)
  BY <1>2, <1>4, <1>5
<1>7. waiting' \in QueueType
  BY <1>1, ChainType
<1>8. \A q \in Queue : q.size \in 0 .. Cardinality(Process) => q \in QueueType
  BY DEF Queue, QueueType
<1> QED BY <1>6, <1>7, <1>8

LEMMA OutsideFence ==
  ASSUME TypeOK, NEW w, Backlog(w)
  PROVE  Fence(On(w), Outside(w)) /\ NULL \notin Process
<1>1. On(w) \subseteq Process
  BY ChainOn DEF Backlog
<1>2. Added \subseteq Process
  BY DEF Added, TypeOK
<1> QED BY <1>1, <1>2, ProcessAssumption DEF Fence, Outside, Pointer

\* Steps that leave the queues alone.
LEMMA AloneKept ==
  ASSUME TypeOK, NEW w, Kept(w), UNCHANGED <<queues, added, options>>,
         \A p \in Process : os'[p] = os[p] \/ (os[p] = "run" /\ os'[p] = "zombie")
  PROVE  Kept(w)'
<1>1. /\ running' = running /\ waiting' = waiting /\ finished' = finished /\ next' = next
      /\ Added' = Added /\ options' = options /\ Outside(w)' = Outside(w)
  BY DEF queues, Added, Outside
<1>2. Backlog(w)'
  <2>1. Backlog(w)
    BY DEF Kept
  <2>2. \A p \in Process : os'[p] # "stop" /\ (p \in On(w) \/ p \notin Added => os'[p] = "none")
    BY <2>1 DEF Backlog
  <2> QED BY <1>1, <2>1, <2>2 DEF Backlog
<1>3. Busy' = Busy /\ Begun' = Begun /\ Settled(w)' = Settled(w)
  BY <1>1 DEF Busy, Begun, Settled
<1> QED BY <1>1, <1>2, <1>3 DEF Kept, Tally

\* The pointers of the waiting queue and around it after its head has been popped.
AfterUnqueue(w, W, h, qq, nm) ==
  /\ qq \in Queue /\ nm \in Links /\ Chain(qq, nm, W) /\ TailOK(qq, W)
  /\ h \in On(w) /\ h \in Process /\ On(W) = On(w) \ {h} /\ os[h] = "none" /\ h \in Added
  /\ Outside(W) = Outside(w) \cup {h} /\ Fence(On(W), Outside(W))
  /\ Fenced(nm, On(W), Outside(W)) /\ Near(running, Outside(W)) /\ Near(finished, Outside(W))

LEMMA Unqueue ==
  ASSUME TypeOK, NEW w, Backlog(w), waiting.size > 0,
         NEW W, W = Without(w, waiting.size, 1)
  PROVE  AfterUnqueue(w, W, waiting.head, Pop(waiting, next).queue, Pop(waiting, next).next)
<1> DEFINE h  == waiting.head
           qq == Pop(waiting, next).queue
           nm == Pop(waiting, next).next
<1>1. waiting \in Queue /\ next \in Links
  BY TypedQueues
<1>2. Chain(waiting, next, w) /\ TailOK(waiting, w) /\ On(w) \subseteq Added
  BY DEF Backlog
<1>3. /\ qq \in Queue /\ nm \in Links /\ Chain(qq, nm, W) /\ TailOK(qq, W)
      /\ On(W) = On(w) \ {h} /\ h \in On(w) /\ h \in Process
      /\ \A x \in Process : x # h => nm[x] = next[x]
  BY <1>1, <1>2, PopChain
<1>4. nm[h] = NULL
  <2>1. h # NULL
    BY <1>3, ProcessAssumption
  <2>2. nm = [next EXCEPT ![h] = NULL]
    BY <2>1 DEF Pop
  <2> QED BY <1>1, <1>3, <2>2 DEF Links
<1> HIDE DEF h, qq, nm
<1>5. os[h] = "none" /\ h \in Added
  BY <1>2, <1>3 DEF Backlog
<1>6. Outside(W) = Outside(w) \cup {h}
  BY <1>3, <1>5 DEF Outside
<1>7. Fence(On(W), Outside(W))
  <2>1. On(w) \subseteq Process /\ Added \subseteq Process
    BY <1>2, ChainOn DEF Added, TypeOK
  <2> QED BY <1>3, <2>1, ProcessAssumption DEF Fence, Outside, Pointer
<1>8. Fenced(nm, On(W), Outside(W))
  <2> SUFFICES ASSUME NEW x \in Process \ On(W) PROVE nm[x] \in Outside(W)
    BY DEF Fenced
  <2>1. CASE x = h
    BY <1>4, <2>1 DEF Outside
  <2>2. CASE x # h
    <3>1. x \in Process \ On(w)
      BY <1>3, <2>2
    <3> QED BY <1>3, <1>6, <2>2, <3>1 DEF Backlog, Fenced
  <2> QED BY <2>1, <2>2
<1>9. Near(running, Outside(W)) /\ Near(finished, Outside(W))
  BY <1>6 DEF Backlog, Near
<1>10. AfterUnqueue(w, W, h, qq, nm)
  BY <1>3, <1>5, <1>6, <1>7, <1>8, <1>9 DEF AfterUnqueue
<1> QED BY <1>10 DEF h, qq, nm

\* scheduler_fifo starts the head of the waiting queue, whatever became of the running
\* queue's tail.
LEMMA FifoStartKept ==
  ASSUME TypeOK, NEW w, Kept(w), FifoStart, waiting.size > 0, running.size < options.cores,
         NEW W, W = Without(w, waiting.size, 1)
  PROVE  Kept(W)' /\ running' \in Queue /\ waiting' \in Queue /\ next' \in Links
         /\ os[waiting.head] = "none" /\ waiting.head \in Process
<1>1. PICK h, qq, nm : h = waiting.head /\ qq = Pop(waiting, next).queue /\ nm = Pop(waiting, next).next
  OBVIOUS
<1>2. Backlog(w) /\ Tally(w) /\ running \in Queue
  BY TypedQueues DEF Kept
<1>3. AfterUnqueue(w, W, h, qq, nm)
  BY <1>1, <1>2, Unqueue
<1>4. /\ waiting' = qq /\ running' = Push(running, nm, h).queue /\ next' = Push(running, nm, h).next
      /\ os' = [os EXCEPT ![h] = "run"] /\ finished' = finished /\ added' = added
      /\ options' = options
  BY <1>1 DEF FifoStart, Fork
<1>5. AfterOutside(running, running', nm, next', On(W), Outside(W), 1)
  <2>1. nm \in Links /\ h \in Process /\ h \in Outside(W) /\ Fence(On(W), Outside(W))
        /\ Fenced(nm, On(W), Outside(W)) /\ Near(running, Outside(W))
    BY <1>3 DEF AfterUnqueue
  <2> QED BY <1>2, <1>4, <2>1, PushOutside
<1>6. /\ os'[h] = "run" /\ \A p \in Process : p # h => os'[p] = os[p]
  BY <1>3, <1>4 DEF AfterUnqueue, TypeOK
<1>7. Added' = Added /\ Outside(W)' = Outside(W)
  BY <1>4 DEF Added, Outside
<1>8. Backlog(W)'
  <2>1. Chain(waiting', next', W)
    <3>1. Chain(waiting', nm, W) /\ \A x \in On(W) : next'[x] = nm[x]
      BY <1>3, <1>4, <1>5 DEF AfterUnqueue, AfterOutside
    <3> QED BY <3>1, ChainKept
  <2>2. /\ TailOK(waiting', W) /\ On(W) \subseteq Added /\ Near(finished', Outside(W))
    BY <1>2, <1>3, <1>4 DEF AfterUnqueue, Backlog
  <2>3. Fenced(next', On(W), Outside(W)) /\ Near(running', Outside(W))
    BY <1>5 DEF AfterOutside
  <2>4. \A p \in Process : os'[p] # "stop" /\ (p \in On(W) \/ p \notin Added => os'[p] = "none")
    BY <1>2, <1>3, <1>6 DEF AfterUnqueue, Backlog
  <2> QED BY <1>7, <2>1, <2>2, <2>3, <2>4 DEF Backlog
<1>9. Tally(W)'
  <2>1. h \in Process /\ os[h] = "none" /\ h \in On(w) /\ On(W) = On(w) \ {h}
    BY <1>3 DEF AfterUnqueue
  <2>2. Busy' = Busy \cup {h} /\ h \notin Busy
    BY <1>6, <2>1 DEF Busy
  <2>3. Begun' = Begun \cup {h} /\ h \notin Begun
    BY <1>6, <2>1 DEF Begun
  <2>4. Settled(W)' = Settled(w)
    BY <1>6, <1>7, <2>1 DEF Settled
  <2>5. running'.size = running.size + 1 /\ running.size \in Nat
    BY <1>2, <1>5 DEF AfterOutside, Queue
  <2>6. /\ Cardinality(Busy') = Cardinality(Busy) + 1 /\ Cardinality(Busy) \in Nat
        /\ Cardinality(Begun') = Cardinality(Begun) + 1 /\ Cardinality(Begun) \in Nat
    BY <2>2, <2>3, Countable, CardOf
  <2>7. options.cores \in Nat
    BY OptionsAssumption DEF TypeOK
  <2>8. /\ Cardinality(Busy) <= running.size /\ running.size <= Cardinality(Begun)
        /\ finished.size <= Cardinality(Settled(w))
    BY <1>2 DEF Tally
  <2>9. running'.size <= options.cores
    BY <2>5, <2>7
  <2> QED BY <1>4, <2>4, <2>5, <2>6, <2>8, <2>9 DEF Tally
<1> QED BY <1>1, <1>3, <1>4, <1>5, <1>8, <1>9 DEF Kept, AfterUnqueue, AfterOutside

\* A fork that fails moves the head of the waiting queue to the finished queue.
LEMMA ForkFailsKept ==
  ASSUME TypeOK, NEW w, Kept(w), FifoForkFails, waiting.size > 0,
         NEW W, W = Without(w, waiting.size, 1)
  PROVE  Kept(W)' /\ finished' \in Queue /\ waiting' \in Queue /\ next' \in Links
<1>1. PICK h, qq, nm : h = waiting.head /\ qq = Pop(waiting, next).queue /\ nm = Pop(waiting, next).next
  OBVIOUS
<1>2. Backlog(w) /\ Tally(w) /\ finished \in Queue
  BY TypedQueues DEF Kept
<1>3. AfterUnqueue(w, W, h, qq, nm)
  BY <1>1, <1>2, Unqueue
<1>4. /\ waiting' = qq /\ finished' = Push(finished, nm, h).queue
      /\ next' = Push(finished, nm, h).next
      /\ os' = os /\ running' = running /\ added' = added /\ options' = options
  <2>1. h # NULL
    BY <1>3, ProcessAssumption DEF AfterUnqueue
  <2> QED BY <1>1, <2>1 DEF FifoForkFails, MoveToFinished, history
<1>5. AfterOutside(finished, finished', nm, next', On(W), Outside(W), 1)
  <2>1. nm \in Links /\ h \in Process /\ h \in Outside(W) /\ Fence(On(W), Outside(W))
        /\ Fenced(nm, On(W), Outside(W)) /\ Near(finished, Outside(W))
    BY <1>3 DEF AfterUnqueue
  <2> QED BY <1>2, <1>4, <2>1, PushOutside
<1>6. Added' = Added /\ Outside(W)' = Outside(W)
  BY <1>4 DEF Added, Outside
<1>7. Backlog(W)'
  <2>1. Chain(waiting', next', W)
    <3>1. Chain(waiting', nm, W) /\ \A x \in On(W) : next'[x] = nm[x]
      BY <1>3, <1>4, <1>5 DEF AfterUnqueue, AfterOutside
    <3> QED BY <3>1, ChainKept
  <2>2. /\ TailOK(waiting', W) /\ On(W) \subseteq Added /\ Near(running', Outside(W))
    BY <1>2, <1>3, <1>4 DEF AfterUnqueue, Backlog
  <2>3. Fenced(next', On(W), Outside(W)) /\ Near(finished', Outside(W))
    BY <1>5 DEF AfterOutside
  <2>4. \A p \in Process : os'[p] # "stop" /\ (p \in On(W) \/ p \notin Added => os'[p] = "none")
    BY <1>2, <1>3, <1>4 DEF AfterUnqueue, Backlog
  <2> QED BY <1>6, <2>1, <2>2, <2>3, <2>4 DEF Backlog
<1>8. Tally(W)'
  <2>1. h \in Process /\ os[h] = "none" /\ h \in On(w) /\ On(W) = On(w) \ {h} /\ h \in Added
    BY <1>3 DEF AfterUnqueue
  <2>2. Busy' = Busy /\ Begun' = Begun
    BY <1>4 DEF Busy, Begun
  <2>3. Settled(W)' = Settled(w) \cup {h} /\ h \notin Settled(w)
    BY <1>4, <1>6, <2>1 DEF Settled
  <2>4. finished'.size = finished.size + 1 /\ finished.size \in Nat
    BY <1>2, <1>5 DEF AfterOutside, Queue
  <2>5. Cardinality(Settled(W)') = Cardinality(Settled(w)) + 1 /\ Cardinality(Settled(w)) \in Nat
    BY <2>3, Countable, CardOf
  <2>6. /\ Cardinality(Busy) <= running.size /\ running.size <= Cardinality(Begun)
        /\ finished.size <= Cardinality(Settled(w)) /\ running.size <= options.cores
    BY <1>2 DEF Tally
  <2> QED BY <1>4, <2>2, <2>4, <2>5, <2>6 DEF Tally
<1> QED BY <1>3, <1>4, <1>5, <1>7, <1>8 DEF Kept, AfterUnqueue, AfterOutside

\* A child is reaped.  If its structure is found in the running queue, that queue gets
\* smaller, and no less so than the number of children that are to be reaped.
LEMMA ReapKept ==
  ASSUME TypeOK, NEW w, Kept(w), NEW p \in Process, WaitChild(p)
  PROVE  /\ Kept(w)' /\ running' \in Queue /\ waiting' \in Queue /\ finished' \in Queue
         /\ next' \in Links
<1>1. /\ os[p] = "zombie" /\ os' = [os EXCEPT ![p] = "reaped"] /\ added' = added
      /\ options' = options
  BY DEF WaitChild
<1>2. Backlog(w) /\ Tally(w)
  BY DEF Kept
<1>3. running \in Queue /\ waiting \in Queue /\ finished \in Queue /\ next \in Links
  BY TypedQueues
<1>4. os'[p] = "reaped" /\ \A x \in Process : x # p => os'[x] = os[x]
  BY <1>1 DEF TypeOK
<1>5. p \notin On(w) /\ p \in Added /\ p \in Outside(w)
  BY <1>1, <1>2 DEF Backlog, Outside
<1>6. Added' = Added /\ Outside(w)' = Outside(w)
  BY <1>1 DEF Added, Outside
<1>7. \A x \in Process : os'[x] # "stop" /\ (x \in On(w) \/ x \notin Added => os'[x] = "none")
  BY <1>2, <1>4, <1>5 DEF Backlog
<1>8. Busy' = Busy \ {p} /\ p \in Busy
  BY <1>1, <1>4 DEF Busy
<1>9. Begun' = Begun
  BY <1>1, <1>4 DEF Begun
<1>10. Settled(w)' = Settled(w) \cup {p} /\ p \notin Settled(w)
  BY <1>1, <1>4, <1>5, <1>6 DEF Settled
<1>11. /\ Cardinality(Busy') = Cardinality(Busy) - 1 /\ Cardinality(Busy) \in Nat
       /\ Cardinality(Busy') \in Nat
  <2>1. Busy' \subseteq Process
    BY <1>8, Countable
  <2> QED BY <1>8, <2>1, Countable, CardOf
<1>12. /\ Cardinality(Settled(w)') = Cardinality(Settled(w)) + 1 /\ Cardinality(Settled(w)) \in Nat
  BY <1>10, Countable, CardOf
<1>13. /\ Cardinality(Busy) <= running.size /\ running.size <= Cardinality(Begun)
       /\ finished.size <= Cardinality(Settled(w)) /\ running.size <= options.cores
  BY <1>2 DEF Tally
<1>14. /\ running.size \in Nat /\ finished.size \in Nat /\ options.cores \in Nat
       /\ Cardinality(Begun) \in Nat
  BY <1>3, OptionsAssumption, Countable, CardOf DEF Queue, TypeOK
<1>15. CASE p \notin Members(running, next)
  <2>1. UNCHANGED queues
    BY <1>15 DEF WaitChild
  <2>2. running' = running /\ waiting' = waiting /\ finished' = finished /\ next' = next
    BY <2>1 DEF queues
  <2>3. Backlog(w)'
    BY <1>2, <1>6, <1>7, <2>2 DEF Backlog
  <2>4. Tally(w)'
    BY <1>1, <1>9, <1>11, <1>12, <1>13, <1>14, <2>2 DEF Tally
  <2> QED BY <1>3, <2>2, <2>3, <2>4 DEF Kept
<1>16. CASE p \in Members(running, next)
  <2>1. PICK nm : nm = Remove(running, next, p).next
    OBVIOUS
  <2>2. /\ running' = Remove(running, next, p).queue /\ finished' = Push(finished, nm, p).queue
        /\ next' = Push(finished, nm, p).next /\ waiting' = waiting
    BY <1>16, <2>1 DEF WaitChild
  <2>3. Fence(On(w), Outside(w)) /\ Fenced(next, On(w), Outside(w)) /\ Near(running, Outside(w))
        /\ Near(finished, Outside(w)) /\ Chain(waiting, next, w)
    BY <1>2, OutsideFence DEF Backlog
  <2>4. running.size > 0
    BY <1>11, <1>13, <1>14
  <2>5. AfterOutside(running, running', next, nm, On(w), Outside(w), -1)
    BY <1>3, <1>16, <2>1, <2>2, <2>3, <2>4, RemoveOutside
  <2>6. nm \in Links /\ Fenced(nm, On(w), Outside(w)) /\ Near(running', Outside(w))
        /\ running' \in Queue /\ running'.size = running.size - 1
    BY <1>14, <2>5 DEF AfterOutside
  <2>7. AfterOutside(finished, finished', nm, next', On(w), Outside(w), 1)
    BY <1>3, <1>5, <2>2, <2>3, <2>6, PushOutside
  <2>8. /\ finished' \in Queue /\ next' \in Links /\ finished'.size = finished.size + 1
        /\ Fenced(next', On(w), Outside(w)) /\ Near(finished', Outside(w))
        /\ \A x \in On(w) : next'[x] = next[x]
    BY <2>5, <2>7 DEF AfterOutside
  <2>9. Chain(waiting, next', w)
    BY <2>3, <2>8, ChainKept
  <2>10. Backlog(w)'
    BY <1>2, <1>6, <1>7, <2>2, <2>6, <2>8, <2>9 DEF Backlog
  <2>11. Tally(w)'
    <3>1. Cardinality(Busy') <= running'.size /\ running'.size <= Cardinality(Begun')
      BY <1>9, <1>11, <1>13, <1>14, <2>6
    <3>2. running'.size <= options'.cores
      BY <1>1, <1>13, <1>14, <2>6
    <3>3. finished'.size <= Cardinality(Settled(w)')
      BY <1>12, <1>13, <1>14, <2>8
    <3> QED BY <3>1, <3>2, <3>3 DEF Tally
  <2> QED BY <1>3, <2>2, <2>6, <2>8, <2>10, <2>11 DEF Kept
<1> QED BY <1>15, <1>16

\* A new process is pushed onto the waiting queue; nothing pointed at it.
LEMMA AddKept ==
  ASSUME TypeOK, NEW w, Kept(w), NEW p \in Process, Add(p),
         NEW W, W = Longer(w, waiting.size, p)
  PROVE  Kept(W)' /\ waiting' \in Queue /\ next' \in Links /\ added' \in Seq(Process)
<1>1. /\ waiting' = Push(waiting, next, p).queue /\ next' = Push(waiting, next, p).next
      /\ running' = running /\ finished' = finished /\ added' = Append(added, p)
      /\ options' = options /\ os' = os /\ p \notin Added
  BY DEF Add, Added
<1>2. Backlog(w) /\ Tally(w)
  BY DEF Kept
<1>3. waiting \in Queue /\ next \in Links
  BY TypedQueues
<1>4. Chain(waiting, next, w) /\ TailOK(waiting, w) /\ p \notin On(w)
  BY <1>1, <1>2 DEF Backlog
<1>5. /\ waiting' \in Queue /\ next' \in Links
      /\ Chain(waiting', next', W) /\ TailOK(waiting', W) /\ On(W) = On(w) \cup {p}
      /\ \A x \in Process : x \notin On(W) => next'[x] = next[x]
  BY <1>1, <1>3, <1>4, PushChain
<1>6. Added' = Added \cup {p} /\ added' \in Seq(Process)
  <2>1. added \in Seq(Process)
    BY DEF TypeOK
  <2>2. \A i \in DOMAIN added : i \in DOMAIN added' /\ added'[i] = added[i]
    BY <1>1, <2>1
  <2>3. Len(added) + 1 \in DOMAIN added' /\ added'[Len(added) + 1] = p
    BY <1>1, <2>1
  <2>4. \A i \in DOMAIN added' : i \in DOMAIN added \/ i = Len(added) + 1
    BY <1>1, <2>1
  <2>5. Added' = {added'[i] : i \in DOMAIN added'}
    BY DEF Added
  <2>6. Added' \subseteq Added \cup {p}
    BY <2>2, <2>3, <2>4, <2>5 DEF Added
  <2>7. Added \cup {p} \subseteq Added'
    BY <2>2, <2>3, <2>5 DEF Added
  <2> QED BY <1>1, <2>1, <2>6, <2>7
<1>7. Outside(W)' = Outside(w)
  BY <1>1, <1>5, <1>6 DEF Outside
<1>8. Backlog(W)'
  <2>1. On(W) \subseteq Added'
    BY <1>2, <1>5, <1>6 DEF Backlog
  <2>2. Fenced(next', On(W), Outside(w))
    BY <1>2, <1>5 DEF Backlog, Fenced
  <2>3. Near(running', Outside(w)) /\ Near(finished', Outside(w))
    BY <1>1, <1>2 DEF Backlog
  <2>4. \A x \in Process : os'[x] # "stop" /\ (x \in On(W) \/ x \notin Added' => os'[x] = "none")
    BY <1>1, <1>2, <1>5, <1>6 DEF Backlog
  <2> QED BY <1>5, <1>7, <2>1, <2>2, <2>3, <2>4 DEF Backlog
<1>9. Tally(W)'
  <2>1. Busy' = Busy /\ Begun' = Begun
    BY <1>1 DEF Busy, Begun
  <2>2. Settled(W)' = Settled(w)
    BY <1>1, <1>5, <1>6 DEF Settled
  <2> QED BY <1>1, <1>2, <2>1, <2>2 DEF Tally
<1> QED BY <1>5, <1>6, <1>8, <1>9 DEF Kept

\* Every step of a FIFO shell.
LEMMA StepKept ==
  ASSUME TypeOK, LoopInv, options.policy = "fifo", NEW w, Kept(w), [Next]_vars
  PROVE  TypeOK' /\ \E v : Kept(v)'
<1>1. pc \notin {"pause", "fill"} /\ ~ RdrnPause /\ ~ RdrnFill /\ ~ RdrnFillFails
  BY DEF LoopInv, RdrnPause, RdrnFill, RdrnFillFails, Goto
<1>2. running \in Queue /\ waiting \in Queue /\ finished \in Queue /\ next \in Links
  BY TypedQueues
<1>3. CASE QuietStep
  <2>1. UNCHANGED <<queues, added, options>>
    BY <1>3, QuietStepDoes DEF history
  <2>2. \A p \in Process : os'[p] = os[p] \/ (os[p] = "run" /\ os'[p] = "zombie")
    BY <1>3, QuietStepDoes
  <2>3. Kept(w)'
    BY <2>1, <2>2, AloneKept
  <2>4. TypeOK'
    BY <1>3, QuietStepDoes
  <2> QED BY <2>3, <2>4
<1>4. CASE \E p \in Process : Add(p)
  <2>1. PICK p \in Process : Add(p)
    BY <1>4
  <2>2. PICK W : W = Longer(w, waiting.size, p)
    OBVIOUS
  <2>3. Kept(W)' /\ waiting' \in Queue /\ next' \in Links /\ added' \in Seq(Process)
    BY <2>1, <2>2, AddKept
  <2>4. running' = running /\ finished' = finished
    BY <2>1 DEF Add
  <2>5. waiting' \in QueueType
    BY <1>2, <2>3, <2>4, KeptTyped
  <2>6. TypeOK'
    BY <2>1, <2>3, <2>5 DEF Add, Goto, TypeOK, Links
  <2> QED BY <2>3, <2>6
<1>5. CASE \E p \in Process : WaitChild(p)
  <2>1. PICK p \in Process : WaitChild(p)
    BY <1>5
  <2>2. /\ Kept(w)' /\ running' \in Queue /\ waiting' \in Queue /\ finished' \in Queue
        /\ next' \in Links
    BY <2>1, ReapKept
  <2>3. running' \in QueueType /\ waiting' \in QueueType /\ finished' \in QueueType
    BY <2>2, KeptTyped
  <2>4. /\ counted' \subseteq Process /\ pc' = "wait"
        /\ os' \in [Process -> {"none", "run", "stop", "zombie", "reaped"}]
        /\ UNCHANGED <<event, pending, added, children, astray, options>>
    BY <2>1 DEF WaitChild, Goto, TypeOK
  <2>5. TypeOK'
    BY <2>2, <2>3, <2>4 DEF TypeOK, Links
  <2> QED BY <2>2, <2>5
<1>6. CASE FifoStart
  <2>1. PICK W : W = Without(w, waiting.size, 1)
    OBVIOUS
  <2>2. waiting.size > 0 /\ running.size < options.cores
    BY <1>6 DEF FifoStart, FifoMore
  <2>3. Kept(W)' /\ running' \in Queue /\ waiting' \in Queue /\ next' \in Links
        /\ waiting.head \in Process
    BY <1>6, <2>1, <2>2, FifoStartKept
  <2>4. finished' = finished
    BY <1>6 DEF FifoStart
  <2>5. running' \in QueueType /\ waiting' \in QueueType /\ finished' \in QueueType
    BY <1>2, <2>3, <2>4, KeptTyped
  <2>6. /\ os' = [os EXCEPT ![waiting.head] = "run"] /\ pc' = "fifo"
        /\ children' = [children EXCEPT ![waiting.head] = @ + 1]
        /\ UNCHANGED <<event, pending, added, counted, options>>
    BY <1>6 DEF FifoStart, Fork, Goto
  <2>7. /\ os' \in [Process -> {"none", "run", "stop", "zombie", "reaped"}]
        /\ children' \in [Process -> Nat]
    BY <2>3, <2>6 DEF TypeOK
  <2>8. astray' \in BOOLEAN
    BY <1>6 DEF FifoStart
  <2>9. TypeOK'
    BY <2>3, <2>5, <2>6, <2>7, <2>8 DEF TypeOK, Links
  <2> QED BY <2>3, <2>9
<1>7. CASE FifoForkFails
  <2>1. PICK W : W = Without(w, waiting.size, 1)
    OBVIOUS
  <2>2. waiting.size > 0
    BY <1>7 DEF FifoForkFails, FifoMore
  <2>3. Kept(W)' /\ finished' \in Queue /\ waiting' \in Queue /\ next' \in Links
    BY <1>7, <2>1, <2>2, ForkFailsKept
  <2>4. /\ UNCHANGED <<running, event, os, pending, history, options>> /\ pc' = "reset"
    BY <1>7 DEF FifoForkFails, Goto
  <2>5. running' \in QueueType /\ waiting' \in QueueType /\ finished' \in QueueType
    BY <1>2, <2>3, <2>4, KeptTyped
  <2>6. TypeOK'
    BY <2>3, <2>4, <2>5 DEF TypeOK, Links, history
  <2> QED BY <2>3, <2>6
<1> QED BY <1>1, <1>3, <1>4, <1>5, <1>6, <1>7 DEF Next, Loop, QuietStep

-----------------------------------------------------------------------------
(* Both together.                                                          *)

\* Every process is forked when it leaves the state "none", and not again.
ForkedOnce == \A p \in Process : children[p] = IF os[p] = "none" THEN 0 ELSE 1

IInv == /\ TypeOK /\ LoopInv /\ ForkedOnce
        /\ options.policy = "fifo" => \E w : Kept(w)
        /\ ~astray => Sound

LEMMA InitInv == Init => IInv
<1> SUFFICES ASSUME Init PROVE IInv
  OBVIOUS
<1>1. TypeOK /\ Sound
  BY InitSound
<1>2. /\ options \in Options /\ running = EmptyQueue /\ waiting = EmptyQueue /\ finished = EmptyQueue
      /\ next = [p \in Process |-> NULL] /\ pc = "enter" /\ os = [p \in Process |-> "none"]
      /\ added = << >> /\ children = [p \in Process |-> 0] /\ astray = FALSE
  BY DEF Init
<1>3. LoopInv /\ ForkedOnce
  BY <1>2 DEF LoopInv, ForkedOnce
<1>4. EmptyQueue.size = 0 /\ EmptyQueue.head = NULL /\ EmptyQueue.tail = NULL
  BY DEF EmptyQueue
<1>5. DOMAIN << >> = {} /\ Added = {} /\ On(<< >>) = {}
  BY <1>2 DEF Added, On
<1>6. Backlog(<< >>)
  <2>1. << >> \in [1 .. 0 -> Process] /\ \A i \in 1 .. 0 : FALSE
    OBVIOUS
  <2>2. Chain(EmptyQueue, next, << >>) /\ TailOK(EmptyQueue, << >>)
    BY <1>4, <2>1 DEF Chain, TailOK
  <2> QED BY <1>2, <1>4, <1>5, <2>2 DEF Backlog, Fenced, Near, Outside
<1>7. Tally(<< >>)
  <2>1. Busy = {} /\ Begun = {} /\ Settled(<< >>) = {}
    BY <1>2, <1>5 DEF Busy, Begun, Settled
  <2>2. options.cores \in Nat
    BY <1>2, OptionsAssumption
  <2>3. Cardinality({}) = 0
    BY FS_EmptySet
  <2>4. running.size = 0 /\ finished.size = 0
    BY <1>2, <1>4
  <2>5. /\ Cardinality(Busy) = 0 /\ Cardinality(Begun) = 0 /\ Cardinality(Settled(<< >>)) = 0
    BY <2>1, <2>3
  <2>6. 0 <= options.cores
    BY <2>2
  <2> QED BY <2>4, <2>5, <2>6 DEF Tally
<1> QED BY <1>1, <1>3, <1>6, <1>7 DEF IInv, Kept

\* What a step can do to a process: fork it if it was not forked, and else let it stop,
\* continue, end or be reaped.
Forks(p)   == os[p] = "none" /\ os'[p] = "run" /\ children'[p] = children[p] + 1
Changes(p) == /\ children'[p] = children[p]
              /\ \/ os'[p] = os[p] \/ (os[p] = "run" /\ os'[p] \in {"stop", "zombie"})
                 \/ (os[p] = "stop" /\ os'[p] = "run") \/ (os[p] = "zombie" /\ os'[p] = "reaped")

LEMMA ChildSteps ==
  ASSUME IInv, [Next]_vars, NEW p \in Process
  PROVE  Forks(p) \/ Changes(p)
<1>1. TypeOK /\ LoopInv
  BY DEF IInv
<1>2. CASE QuietStep
  <2>1. children' = children
    BY <1>1, <1>2, QuietStepDoes DEF history
  <2> QED BY <1>1, <1>2, <2>1, QuietStepDoes DEF Changes
<1>3. CASE (\E x \in Process : Add(x)) \/ FifoForkFails \/ RdrnFillFails
  <2>1. os' = os /\ children' = children
    BY <1>3 DEF Add, FifoForkFails, RdrnFillFails, history
  <2> QED BY <2>1 DEF Changes
<1>4. CASE \E x \in Process : WaitChild(x)
  BY <1>1, <1>4 DEF WaitChild, TypeOK, Changes
<1>5. CASE FifoStart
  <2>1. /\ os' = [os EXCEPT ![waiting.head] = "run"] /\ waiting.size > 0 /\ pc = "fifo"
        /\ children' = [children EXCEPT ![waiting.head] = @ + 1] /\ running.size < options.cores
    BY <1>5 DEF FifoStart, FifoMore, Fork, Goto
  <2>2. options.policy = "fifo"
    BY <1>1, <2>1 DEF LoopInv
  <2>3. PICK w : Kept(w)
    BY <2>2 DEF IInv
  <2>4. PICK W : W = Without(w, waiting.size, 1)
    OBVIOUS
  <2>5. os[waiting.head] = "none" /\ waiting.head \in Process
    BY <1>1, <1>5, <2>1, <2>3, <2>4, FifoStartKept
  <2> QED BY <1>1, <2>1, <2>5 DEF TypeOK, Forks, Changes
<1>6. CASE RdrnFill
  <2>1. PICK h : h = waiting.head
    OBVIOUS
  <2>2. CASE os[h] = "none" /\ Fork(h)
    BY <1>1, <2>2 DEF Fork, TypeOK, Forks, Changes
  <2>3. CASE SigCont(h) /\ UNCHANGED children
    BY <1>1, <2>3 DEF SigCont, TypeOK, Changes
  <2> QED BY <1>6, <2>1, <2>2, <2>3 DEF RdrnFill
<1>7. CASE RdrnPause
  <2>1. PICK h : h = running.head
    OBVIOUS
  <2>2. (SigStop(h) \/ os' = os) /\ children' = children
    BY <1>7, <2>1 DEF RdrnPause, history
  <2> QED BY <1>1, <2>2 DEF SigStop, TypeOK, Changes
<1> QED BY <1>2, <1>3, <1>4, <1>5, <1>6, <1>7 DEF Next, Loop, QuietStep

LEMMA LoopStep ==
  ASSUME IInv, [Next]_vars
  PROVE  LoopInv' /\ options' = options /\ (astray => astray')
<1>1. TypeOK /\ LoopInv /\ (~ astray => Sound)
  BY DEF IInv
<1>2. CASE QuietStep
  <2>1. options' = options /\ astray' = astray
    BY <1>1, <1>2, QuietStepDoes DEF history
  <2>2. \/ pc' = pc \/ CheckTimer \/ RdrnPaused
        \/ pc' \in {"enter", "blocked", "quit", "check_child", "wait", "check_timer", "reset"}
    BY <1>1, <1>2, QuietStepDoes
  <2> QED BY <1>1, <2>1, <2>2 DEF LoopInv, CheckTimer, RdrnPaused, Goto
<1>3. CASE FifoStart
  <2>1. /\ options' = options /\ astray' = (astray \/ TailRemoved(running)) /\ pc = "fifo"
        /\ pc' = "fifo" /\ running.size < options.cores
    BY <1>3 DEF FifoStart, FifoMore, Goto
  <2>2. options.policy = "fifo"
    BY <1>1, <2>1 DEF LoopInv
  <2>3. ASSUME ~ astray, TailRemoved(running) PROVE options.cores > 1
    <3>1. PICK r, w, f : ShellInv(r, w, f)
      BY <1>1, <2>3 DEF Sound
    <3>2. Chain(running, next, r)
      BY <3>1 DEF ShellInv, Queues, ThreeChains
    <3>3. running.size # 0 /\ running.size \in Nat
      BY <1>1, <2>3, <3>2, ChainOn, TypedQueues DEF TailRemoved
    <3>4. options.cores \in Nat
      BY <1>1, OptionsAssumption DEF TypeOK
    <3> QED BY <2>1, <3>3, <3>4
  <2>4. astray' => options.cores > 1
    BY <1>1, <2>1, <2>3 DEF LoopInv
  <2> QED BY <2>1, <2>2, <2>4 DEF LoopInv
<1>4. CASE RdrnPause
  BY <1>1, <1>4 DEF RdrnPause, LoopInv, history
<1>5. CASE RdrnFill
  BY <1>1, <1>5 DEF RdrnFill, LoopInv, Goto
<1>6. CASE (\E x \in Process : Add(x) \/ WaitChild(x)) \/ FifoForkFails \/ RdrnFillFails
  <2>1. options' = options /\ astray' = astray /\ pc' \in {"enter", "wait", "reset"}
    BY <1>6 DEF Add, WaitChild, FifoForkFails, RdrnFillFails, Goto, history
  <2> QED BY <1>1, <2>1 DEF LoopInv
<1> QED BY <1>2, <1>3, <1>4, <1>5, <1>6 DEF Next, Loop, QuietStep

LEMMA StepInv ==
  ASSUME IInv, [Next]_vars
  PROVE  IInv'
<1>1. TypeOK /\ LoopInv /\ (~ astray => Sound) /\ astray \in BOOLEAN
  BY DEF IInv, TypeOK
<1>2. LoopInv' /\ options' = options /\ (astray => astray')
  BY LoopStep
<1>3. ASSUME ~ astray' PROVE TypeOK' /\ Sound'
  BY <1>1, <1>2, <1>3, StepSound
<1>4. ForkedOnce'
  <2> SUFFICES ASSUME NEW p \in Process
               PROVE  children'[p] = IF os'[p] = "none" THEN 0 ELSE 1
    BY DEF ForkedOnce
  <2>1. children[p] = IF os[p] = "none" THEN 0 ELSE 1
    BY DEF IInv, ForkedOnce
  <2>2. Forks(p) \/ Changes(p)
    BY ChildSteps
  <2> QED BY <2>1, <2>2 DEF Forks, Changes
<1>5. CASE options.policy = "fifo"
  <2>1. PICK w : Kept(w)
    BY <1>5 DEF IInv
  <2>2. TypeOK' /\ \E v : Kept(v)'
    BY <1>1, <1>5, <2>1, StepKept
  <2>3. (options.policy = "fifo" => \E v : Kept(v))'
    BY <2>2
  <2> QED BY <1>2, <1>3, <1>4, <2>2, <2>3 DEF IInv
<1>6. CASE options.policy # "fifo"
  <2>1. ~ astray' /\ options'.policy # "fifo"
    BY <1>1, <1>2, <1>6 DEF LoopInv
  <2>2. (options.policy = "fifo" => \E v : Kept(v))'
    BY <2>1
  <2>3. TypeOK' /\ Sound'
    BY <1>3, <2>1
  <2> QED BY <1>2, <1>4, <2>2, <2>3 DEF IInv
<1> QED BY <1>5, <1>6

-----------------------------------------------------------------------------
(* What the invariant says.                                                *)

LEMMA Invariant == SafeSpec => []IInv
<1>1. Init => IInv
  BY InitInv
<1>2. IInv /\ [Next]_vars => IInv'
  BY StepInv
<1> QED BY <1>1, <1>2, PTL DEF SafeSpec

\* Until a push goes astray.
LEMMA SoundSays ==
  ASSUME TypeOK, LoopInv, Sound, ~ astray
  PROVE  QueuesOK /\ CoresBound /\ StoppedWait /\ PauseSucceeds /\ StartOrder /\ FifoReapedCounted
<1>1. PICK r, w, f : ShellInv(r, w, f)
  BY DEF Sound
<1>2. /\ Queues(r, w, f) /\ Children(r, w) /\ FifoInv(r, w, f) /\ OrderInv(w, f)
      /\ TypeOK
  BY <1>1 DEF ShellInv
<1>3. Chain(running, next, r) /\ Chain(waiting, next, w) /\ Chain(finished, next, f)
  BY <1>2 DEF Queues, ThreeChains
<1>4. /\ Members(running, next) = On(r) /\ running.size = Cardinality(On(r)) /\ IsFiniteSet(On(r))
      /\ Members(waiting, next) = On(w) /\ waiting.size = Cardinality(On(w))
      /\ Members(finished, next) = On(f) /\ finished.size = Cardinality(On(f))
  BY <1>3, ChainMembers
<1>5. QueuesOK
  <2>1. /\ QueueList[1] = running /\ QueueList[2] = waiting /\ QueueList[3] = finished
        /\ \A i \in 1 .. 3 : i = 1 \/ i = 2 \/ i = 3
        /\ 1 \in 1 .. 3 /\ 2 \in 1 .. 3 /\ 3 \in 1 .. 3
    BY DEF QueueList
  <2>2. /\ On(r) \cap On(w) = {} /\ On(r) \cap On(f) = {} /\ On(w) \cap On(f) = {}
        /\ On(r) \cup On(w) \cup On(f) = Added
    BY <1>2 DEF Queues, ThreeChains
  <2>3. PICK M : M = [i \in 1 .. 3 |-> Members(QueueList[i], next)]
    OBVIOUS
  <2>4. /\ M[1] = On(r) /\ M[2] = On(w) /\ M[3] = On(f)
        /\ \A i \in 1 .. 3 : M[i] = Members(QueueList[i], next)
    BY <1>4, <2>1, <2>3
  <2>5. UNION {Members(QueueList[i], next) : i \in 1 .. 3} = Added
    <3>1. {Members(QueueList[i], next) : i \in 1 .. 3} = {On(r), On(w), On(f)}
      BY <2>1, <2>4
    <3> QED BY <2>2, <3>1
  <2>6. \A i, j \in 1 .. 3 :
          i # j => Members(QueueList[i], next) \cap Members(QueueList[j], next) = {}
    <3> SUFFICES ASSUME NEW i \in 1 .. 3, NEW j \in 1 .. 3, i # j PROVE M[i] \cap M[j] = {}
      BY <2>4
    <3> QED BY <2>1, <2>2, <2>4
  <2>7. \A i \in 1 .. 3 : QueueList[i].size = Cardinality(Members(QueueList[i], next))
    BY <1>4, <2>1, <2>4
  <2> QED BY <2>5, <2>6, <2>7 DEF QueuesOK
<1>6. CoresBound
  <2> DEFINE runs == {p \in Process : os[p] = "run"}
  <2>1. runs \subseteq On(r)
    BY <1>2 DEF Children
  <2>2. Cardinality(runs) <= Cardinality(On(r)) /\ Cardinality(runs) \in Nat
    <3> HIDE DEF runs
    <3> QED BY <1>4, <2>1, FS_Subset, FS_CardinalityType
  <2>3. running.size <= options.cores
    BY <1>2 DEF Children
  <2>4. options.cores \in Nat /\ running.size \in Nat
    BY <1>2, TypedQueues, OptionsAssumption DEF TypeOK
  <2> QED BY <1>4, <2>2, <2>3, <2>4 DEF CoresBound
<1>7. StoppedWait
  <2>1. On(r) \cap On(w) = {}
    BY <1>2 DEF Queues, ThreeChains
  <2> QED BY <1>2, <1>4, <2>1 DEF StoppedWait, Children
<1>8. PauseSucceeds
  <2> SUFFICES ASSUME running.size > 0 PROVE running.head # NULL /\ ~ KillFails(running.head)
    BY DEF PauseSucceeds
  <2>1. running.head \in On(r) /\ running.head \in Process
    BY <1>3, ChainOn
  <2> QED BY <1>2, <2>1, ProcessAssumption DEF Children, KillFails
<1>9. StartOrder
  <2> SUFFICES ASSUME NEW i \in DOMAIN added, NEW j \in DOMAIN added, i < j,
                      os[added[j]] # "none"
               PROVE  os[added[i]] # "none" \/ added[i] \in On(f)
    BY <1>4 DEF StartOrder
  <2>1. AddedBefore(added, added[i], added[j]) /\ added[i] \in Added /\ added[j] \in Added
    BY DEF AddedBefore, Added
  <2> QED BY <1>2, <2>1 DEF OrderInv
<1>10. FifoReapedCounted
  BY <1>2, <1>4 DEF FifoReapedCounted, FifoInv
<1> QED BY <1>5, <1>6, <1>7, <1>8, <1>9, <1>10

\* And after one did.
LEMMA AstraySays ==
  ASSUME TypeOK, LoopInv, NEW w, Kept(w), astray
  PROVE  QueuesOK /\ CoresBound /\ StoppedWait /\ PauseSucceeds /\ StartOrder /\ FifoReapedCounted
<1>1. options.policy = "fifo" /\ options.cores > 1 /\ pc # "pause"
  BY DEF LoopInv
<1>2. QueuesOK /\ PauseSucceeds /\ StartOrder /\ FifoReapedCounted
  BY <1>1 DEF QueuesOK, PauseSucceeds, StartOrder, FifoReapedCounted
<1>3. CoresBound
  <2>1. PICK runs : runs = {p \in Process : os[p] = "run"}
    OBVIOUS
  <2>2. runs \subseteq Busy
    BY <2>1 DEF Busy
  <2>3. IsFiniteSet(Busy) /\ Cardinality(Busy) \in Nat
    BY Countable, CardOf
  <2>4. Cardinality(runs) <= Cardinality(Busy) /\ Cardinality(runs) \in Nat
    BY <2>2, <2>3, FS_Subset, FS_CardinalityType
  <2>5. Cardinality(Busy) <= running.size /\ running.size <= options.cores
    BY DEF Kept, Tally
  <2>6. running.size \in Nat /\ options.cores \in Nat
    BY TypedQueues, OptionsAssumption DEF TypeOK, Queue
  <2> QED BY <2>1, <2>3, <2>4, <2>5, <2>6 DEF CoresBound
<1>4. StoppedWait
  <2>1. /\ Chain(waiting, next, w)
        /\ \A p \in Process : os[p] # "stop" /\ (p \in On(w) \/ p \notin Added => os[p] = "none")
    BY DEF Kept, Backlog
  <2>2. Members(waiting, next) = On(w)
    BY <2>1, ChainMembers
  <2> QED BY <2>1, <2>2 DEF StoppedWait
<1> QED BY <1>2, <1>3, <1>4

LEMMA InvSays ==
  ASSUME IInv
  PROVE  QueuesOK /\ CoresBound /\ StoppedWait /\ PauseSucceeds /\ StartOrder /\ FifoReapedCounted
<1>1. TypeOK /\ LoopInv /\ (~ astray => Sound)
  BY DEF IInv
<1>2. CASE ~ astray
  BY <1>1, <1>2, SoundSays
<1>3. CASE astray
  <2>1. PICK w : Kept(w)
    BY <1>3 DEF IInv, LoopInv
  <2> QED BY <1>1, <1>3, <2>1, AstraySays
<1> QED BY <1>2, <1>3

\* Every variable of the shell keeps its type under both policies and on any number of
\* cores, also after a push went astray: no queue's size_t counter wraps below 0 or
\* outgrows the processes there are.
THEOREM ShellTypeCorrect == SafeSpec => []TypeOK
<1>1. IInv => TypeOK
  BY DEF IInv
<1> QED BY <1>1, Invariant, PTL

\* Push, pop and remove keep the three linked queues sound, every process added in exactly
\* one of them and the sizes right, as long as scheduler_fifo has not pushed behind a tail
\* that queue_remove left behind (queue.c:95); no such push is ever made under round robin
\* or on one core.
THEOREM QueuesCorrect == SafeSpec => []QueuesOK
<1>1. IInv => QueuesOK
  BY InvSays
<1> QED BY <1>1, Invariant, PTL

\* scheduler_fifo and scheduler_rdrn never run more children than there are cores, not even
\* when scheduler_fifo has lost a process.
THEOREM CoresRespected == SafeSpec => []CoresBound
<1>1. IInv => CoresBound
  BY InvSays
<1> QED BY <1>1, Invariant, PTL

\* A stopped child's structure is in the waiting queue, from which it will be resumed, and
\* no child runs whose structure waits there.
THEOREM StoppedOnesWait == SafeSpec => []StoppedWait
<1>1. IInv => StoppedWait
  BY InvSays
<1> QED BY <1>1, Invariant, PTL

\* The first loop of scheduler_rdrn never leaves by its error exit.
THEOREM PauseNeverFails == SafeSpec => []PauseSucceeds
<1>1. IInv => PauseSucceeds
  BY InvSays
<1> QED BY <1>1, Invariant, PTL

\* Both policies start the processes in the order in which they were added: under round
\* robin and on one core always, under FIFO on more of them until a push goes astray.
THEOREM StartedInOrder == SafeSpec => []StartOrder
<1>1. IInv => StartOrder
  BY InvSays
<1> QED BY <1>1, Invariant, PTL

\* Under FIFO, on any number of cores, scheduler_wait leaves no child it reaped out of the
\* finished queue and the metrics until a push goes astray.
THEOREM ReapedAreCounted == SafeSpec => []FifoReapedCounted
<1>1. IInv => FifoReapedCounted
  BY InvSays
<1> QED BY <1>1, Invariant, PTL

-----------------------------------------------------------------------------
(* What a step may not do.                                                 *)

\* No structure's process is forked a second time, whether its child runs, is stopped or
\* has ended, and a reaped child does not come back: under both policies, on any number of
\* cores, also after a push went astray.
THEOREM OneChildEach == SafeSpec => OneChild
<1> DEFINE Once == \A p \in Process : /\ os[p] # "none" => os'[p] # "none"
                                      /\ os[p] = "zombie" => os'[p] \in {"zombie", "reaped"}
                                      /\ os[p] = "reaped" => os'[p] = "reaped"
                                      /\ children'[p] <= 1
<1>1. IInv /\ [Next]_vars => Once
  <2> SUFFICES ASSUME IInv, [Next]_vars, NEW p \in Process
               PROVE  /\ os[p] # "none" => os'[p] # "none"
                      /\ os[p] = "zombie" => os'[p] \in {"zombie", "reaped"}
                      /\ os[p] = "reaped" => os'[p] = "reaped"
                      /\ children'[p] <= 1
    OBVIOUS
  <2>1. Forks(p) \/ Changes(p)
    BY ChildSteps
  <2>2. children[p] = IF os[p] = "none" THEN 0 ELSE 1
    BY DEF IInv, ForkedOnce
  <2> QED BY <2>1, <2>2 DEF Forks, Changes
<1>2. SafeSpec => [][Next]_vars
  BY DEF SafeSpec
<1> HIDE DEF Once
<1>3. SafeSpec => [][Once]_vars
  BY <1>1, <1>2, Invariant, PTL
<1> QED BY <1>3 DEF OneChild, Once

\* When scheduler_fifo returns without an error and a process still waits, every core has a
\* child that was not reaped yet: on any number of cores, until a push goes astray.
THEOREM FifoUsesAllCores == SafeSpec => FifoFillsCoresAtFirst
<1> DEFINE Full == FifoDone /\ ~ astray => AllCoresTaken
<1>1. IInv => Full
  <2> SUFFICES ASSUME IInv, FifoDone, ~ astray, waiting.size # 0
               PROVE  Cardinality({p \in Process : os[p] \in {"run", "zombie"}}) >= options.cores
    BY DEF AllCoresTaken
  <2>1. TypeOK /\ Sound
    BY DEF IInv
  <2>2. PICK r, w, f : ShellInv(r, w, f)
    BY <2>1 DEF Sound
  <2>3. Children(r, w) /\ Chain(waiting, next, w) /\ Chain(running, next, r)
    BY <2>2 DEF ShellInv, Queues, ThreeChains
  <2>4. waiting.size \in Nat /\ running.size \in Nat /\ options.cores \in Nat
    BY <2>1, TypedQueues, OptionsAssumption DEF TypeOK
  <2>5. waiting.head # NULL
    BY <2>3, ChainOn
  <2>6. running.size >= options.cores
    BY <2>4, <2>5 DEF FifoDone, FifoMore
  <2>7. On(r) \subseteq Busy
    <3>1. On(r) \subseteq Process
      BY <2>3, ChainOn
    <3> QED BY <2>3, <3>1 DEF Children, Busy
  <2>8. Cardinality(On(r)) = running.size
    BY <2>3, ChainMembers
  <2>9. Cardinality(On(r)) <= Cardinality(Busy) /\ Cardinality(Busy) \in Nat
    <3>1. IsFiniteSet(Busy) /\ Cardinality(Busy) \in Nat
      BY Countable, CardOf
    <3> QED BY <2>7, <3>1, FS_Subset
  <2>10. Cardinality(Busy) >= options.cores
    BY <2>4, <2>6, <2>8, <2>9
  <2> QED BY <2>10 DEF Busy
<1> HIDE DEF Full
<1>2. SafeSpec => [][Full]_vars
  BY <1>1, Invariant, PTL
<1> QED BY <1>2, PTL DEF FifoFillsCoresAtFirst, Full
=============================================================================
