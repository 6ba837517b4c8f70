---------------------------- MODULE HashersProofs ----------------------------
(***************************************************************************)
(* The programs of Hashers do what HashFiles says, on any command line.    *)
(***************************************************************************)
EXTENDS Hashers, Induction, FiniteSetTheorems

\* In reading05 a worker stops at the first file that fails.  More workers than such
\* files: otherwise main waits for ever, or leaves files behind.
SomeoneIsLeft == \A s \in Setups : s.program = "reading05" => s.failing < s.threads

-----------------------------------------------------------------------------
(* The inductive invariant.                                                *)

W == Workers(setup)

\* The workers that are at one of these steps.
At(steps) == {w \in W : worker[w].pc \in steps}

Ended  == {"returned", "joined"}
Locked == {"load", "store", "unlock"}
Counts == {"lock", "load", "store"}
Slot   == {"end", "lock", "load", "store", "unlock", "post"}
Behind  == {"lock", "load", "store", "unlock", "post", "returned", "joined"}

MainSteps == {"create", "push", "sentinels", "join", "exited"}

QueueType == [data     : [0 .. setup.capacity - 1 -> File \cup {NULL}],
              capacity : {setup.capacity},
              size     : 0 .. setup.capacity,
              reader   : 0 .. setup.capacity - 1,
              writer   : 0 .. setup.capacity - 1]

MainType == [pc : MainSteps, i : Nat \ {0}, failures : Nat, status : {NULL} \cup 0 .. ExitCodes - 1]

SetupTyped  == setup \in Setups /\ bad \in SUBSET File /\ Cardinality(bad) <= setup.failing
MainTyped   == main \in MainType
WorkerTyped == worker \in [Worker -> [pc : WorkerSteps, value : Nat]]
HashTyped   == hashing \in [Thread -> File \cup {NULL}] /\ hashed \in SUBSET File
SemTyped    == running \in Nat /\ lock \in Nat /\ failures \in Nat
QueueTyped  == queue \in QueueType /\ queue.writer = (queue.reader + queue.size) % queue.capacity
SleepTyped  == /\ asleep \in [Conditions -> SUBSET Thread]
               /\ asleep["consumed"] \subseteq {Main} /\ asleep["produced"] \subseteq Worker

Typed == /\ SetupTyped /\ MainTyped /\ WorkerTyped /\ HashTyped /\ SemTyped
         /\ QueueTyped /\ SleepTyped

\* Where the workers of each program may be.
Places == CASE setup.program \in {"reading03", "reading04"} ->
                 {"none", "begin", "end", "returned", "joined"}
            [] setup.program \in Pooled -> {"none", "init", "pop", "end", "returned", "joined"}
            [] OTHER -> {"none", "throttle"} \cup Slot \cup {"returned", "joined"}

Located == /\ \A w \in Worker : worker[w].pc \in (IF w \in W THEN Places ELSE {"none"})
           /\ main.pc \in {"push", "sentinels"} => setup.program \in Pooled
           /\ main.status # NULL <=> main.pc = "exited"

\* What main has done so far.
Progress ==
  /\ main.pc = "create" => \A w \in W : worker[w].pc = "none" <=> w >= main.i
  /\ main.pc \in {"push", "sentinels", "join"} => \A w \in W : worker[w].pc # "none"
  /\ main.pc \notin {"join", "exited"} => At({"joined"}) = {}
  /\ main.pc = "join" => Cardinality(At({"joined"})) = main.i - 1

\* Nobody hashes what somebody else hashes, or has.
Exclusive ==
  /\ \A w \in Worker : hashing[w] # NULL <=> worker[w].pc = "end"
  /\ hashing[Main] # NULL => setup.program \in Alone /\ main.pc = "create" /\ main.i <= setup.files
  /\ \A t, u \in Thread : hashing[t] # NULL /\ hashing[t] = hashing[u] => t = u
  /\ \A t \in Thread : hashing[t] \notin hashed

\* The semaphores.
Semaphores ==
  /\ lock + Cardinality(At(Locked)) = 1
  /\ running + (IF Is("reading06") THEN Cardinality(At(Slot)) ELSE 0) = setup.threads
  /\ \A w \in At({"store"}) : worker[w].value = failures

\* The files that failed, and the workers, at one of these steps, that say so.
FailedFiles    == hashed \cap bad
Failing(steps) == {w \in At(steps) : worker[w].value = 1}

Counted ==
  /\ \A w \in At(Ended) : worker[w].value \in {0, 1}
  /\ setup.program \in {"reading03", "reading04", "reading05"} =>
       Cardinality(Failing(Ended)) = Cardinality(FailedFiles)
  /\ setup.program \in {"reading06", "exam02"} => Failing(Ended) = {}
  /\ Is("reading06") => failures + Cardinality(At(Counts)) = Cardinality(FailedFiles)
  /\ setup.program \notin Alone => main.failures = Cardinality(Failing({"joined"}))
  /\ setup.program \in Alone => main.failures = Cardinality(FailedFiles)

\* Which files are done: each worker's own; as many as the loop has gone through; or
\* the first k, when the next ones are in the queue.
OwnFiles == setup.program \in PerFile =>
              \A w \in W : /\ hashing[w] \in {w, NULL}
                           /\ w \in hashed <=> worker[w].pc \in Behind

LoopFiles == setup.program \in Alone =>
               /\ main.pc = "create" => Cardinality(hashed) = main.i - 1
               /\ main.pc # "create" => hashed = File
               /\ Is("reading02") /\ main.pc = "create" =>
                    hashed = 1 .. main.i - 1 /\ hashing[Main] \in {main.i, NULL}

Pushes == CASE main.pc = "create"    -> 0
            [] main.pc = "push"      -> main.i - 1
            [] main.pc = "sentinels" -> setup.files + main.i - 1
            [] main.pc \in {"join", "exited"} -> setup.files + setup.threads

Ahead(k, j) == IF k + 1 + j <= setup.files THEN k + 1 + j ELSE NULL

Taken(k) ==
  /\ \A f \in File : f <= k <=> f \in hashed \/ \E w \in W : hashing[w] = f
  /\ \A j \in 0 .. queue.size - 1 :
       queue.data[(queue.reader + j) % queue.capacity] = Ahead(k, j)
  /\ main.pc # "exited" => k + queue.size = Pushes
  /\ main.pc = "push" => main.i <= setup.files + 1
  /\ main.pc = "sentinels" => main.i <= setup.threads + 1
  /\ \A w \in At(Ended) : worker[w].value = 0 => k = setup.files

PoolFiles == setup.program \in Pooled => \E k \in 0 .. setup.files : Taken(k)

IInv == /\ Typed /\ Located /\ Progress /\ Exclusive /\ Semaphores /\ Counted
        /\ OwnFiles /\ LoopFiles /\ PoolFiles

-----------------------------------------------------------------------------
(* Programs and workers.                                                   *)

\* What the assumption says of the program that runs.
LEMMA SetupIs ==
  ASSUME setup \in Setups
  PROVE  /\ setup.program \in PerFile \cup Pooled \cup Alone
         /\ setup.files \in Nat \ {0} /\ setup.threads \in Nat \ {0}
         /\ setup.capacity \in Nat \ {0} /\ setup.failing \in Nat
         /\ ExitCodes \in Nat \ {0}
  BY HashersAssumption

\* The workers are numbered from 1.
LEMMA WorkersAre ==
  ASSUME NEW s \in Setups
  PROVE  /\ s.program \in PerFile => Workers(s) = 1 .. s.files
         /\ s.program \in Pooled => Workers(s) = 1 .. s.threads
         /\ s.program \in Alone => Workers(s) = {}
         /\ \E n \in Nat : Workers(s) = 1 .. n
<1>1. /\ s.program \in PerFile \cup Pooled \cup Alone
      /\ s.files \in Nat /\ s.threads \in Nat
  BY HashersAssumption
<1>2. CASE s.program \in PerFile
  BY <1>1, <1>2 DEF Workers, PerFile, Pooled, Alone
<1>3. CASE s.program \in Pooled
  BY <1>1, <1>3 DEF Workers, PerFile, Pooled, Alone
<1>4. CASE s.program \in Alone
  <2>1. Workers(s) = {} /\ {} = 1 .. 0
    BY <1>4 DEF Workers, PerFile, Pooled, Alone
  <2> QED BY <1>4, <2>1 DEF PerFile, Pooled, Alone
<1> QED BY <1>1, <1>2, <1>3, <1>4

LEMMA WorkerIs ==
  /\ Worker \in SUBSET (Nat \ {0}) /\ Main \notin Worker /\ Main \in Thread
  /\ \A w \in Worker : w \in Thread /\ w # Main
<1>1. Worker \in SUBSET (Nat \ {0})
  <2> SUFFICES ASSUME NEW s \in Setups, NEW w \in Workers(s) PROVE w \in Nat \ {0}
    BY DEF Worker
  <2>1. PICK n \in Nat : Workers(s) = 1 .. n
    BY WorkersAre
  <2> QED BY <2>1
<1> QED BY <1>1 DEF Main, Thread

LEMMA WIs ==
  ASSUME setup \in Setups
  PROVE  /\ W \in SUBSET Worker /\ IsFiniteSet(W)
         /\ Workforce \in Nat /\ W = 1 .. Workforce /\ Cardinality(W) = Workforce
         /\ setup.program \in PerFile => W = File /\ Workforce = setup.files
         /\ setup.program \in Pooled => W = 1 .. setup.threads /\ Workforce = setup.threads
         /\ setup.program \in Alone => W = {} /\ Workforce = 0
<1>1. W \in SUBSET Worker
  BY DEF W, Worker
<1>2. PICK n \in Nat : W = 1 .. n
  BY WorkersAre DEF W
<1>3. \A m \in Nat : IsFiniteSet(1 .. m) /\ Cardinality(1 .. m) = m
  <2> SUFFICES ASSUME NEW m \in Nat PROVE IsFiniteSet(1 .. m) /\ Cardinality(1 .. m) = m
    OBVIOUS
  <2>1. Cardinality(1 .. m) = (IF 1 > m THEN 0 ELSE m - 1 + 1) /\ IsFiniteSet(1 .. m)
    BY FS_Interval
  <2> QED BY <2>1
<1>4. Workforce = n /\ Cardinality(W) = n /\ IsFiniteSet(W)
  BY <1>2, <1>3 DEF Workforce, W
<1>5. setup.files \in Nat /\ setup.threads \in Nat
  BY SetupIs
<1>6. /\ setup.program \in PerFile => W = File /\ Workforce = setup.files
      /\ setup.program \in Pooled => W = 1 .. setup.threads /\ Workforce = setup.threads
      /\ setup.program \in Alone => W = {} /\ Workforce = 0
  BY <1>3, <1>5, WorkersAre, FS_EmptySet DEF W, File, Workforce
<1> QED BY <1>1, <1>2, <1>4, <1>6

LEMMA FileIs ==
  ASSUME setup \in Setups
  PROVE  /\ IsFiniteSet(File) /\ Cardinality(File) = setup.files
         /\ File \in SUBSET (Nat \ {0}) /\ NULL \notin File
         /\ \A S \in SUBSET File : IsFiniteSet(S) /\ Cardinality(S) \in Nat
<1>1. setup.files \in Nat
  BY SetupIs
<1>2. Cardinality(1 .. setup.files) = (IF 1 > setup.files THEN 0 ELSE setup.files - 1 + 1)
      /\ IsFiniteSet(1 .. setup.files)
  <2>1. 1 \in Int /\ setup.files \in Int
    BY <1>1
  <2> QED BY <2>1, FS_Interval
<1>3. File \in SUBSET (Nat \ {0}) /\ NULL \notin File
  BY <1>1, NullAssumption DEF File
<1>4. IsFiniteSet(File) /\ Cardinality(File) = setup.files
  BY <1>1, <1>2 DEF File
<1>5. \A S \in SUBSET File : IsFiniteSet(S) /\ Cardinality(S) \in Nat
  BY <1>4, FS_Subset, FS_CardinalityType
<1> QED BY <1>3, <1>4, <1>5

\* A worker that is at one step goes to another one.
Move(w, from, to, v) == /\ worker[w].pc = from
                        /\ worker' = [worker EXCEPT ![w] = [pc |-> to, value |-> v]]

LEMMA StepMoves ==
  ASSUME WorkerTyped, NEW w \in Worker,
         NEW from, NEW to, Step(w, from, to)
  PROVE  Move(w, from, to, worker[w].value) /\ worker[w].value \in Nat
<1>1. worker[w] \in [pc : WorkerSteps, value : Nat]
  BY DEF WorkerTyped
<1>2. [worker[w] EXCEPT !.pc = to] = [pc |-> to, value |-> worker[w].value]
  BY <1>1
<1>3. worker' = [worker EXCEPT ![w] = [worker[w] EXCEPT !.pc = to]]
  BY DEF Step
<1> QED BY <1>1, <1>2, <1>3 DEF Move, Step

LEMMA ReturnMoves ==
  ASSUME NEW w, NEW from, NEW v, Returns(w, from, v)
  PROVE  Move(w, from, "returned", v)
  BY DEF Returns, Move

LEMMA MoveIs ==
  ASSUME WorkerTyped, NEW w \in Worker,
         NEW from, NEW to \in WorkerSteps, NEW v \in Nat, Move(w, from, to, v)
  PROVE  /\ WorkerTyped'
         /\ worker[w].pc = from /\ worker'[w].pc = to /\ worker'[w].value = v
         /\ \A u \in Worker : u # w => worker'[u] = worker[u]
  BY DEF Move, WorkerTyped

\* How the workers at a set of steps change.
Moved(w, from, to, S) ==
  /\ At(S)' = IF to \in S THEN At(S) \cup {w} ELSE At(S) \ {w}
  /\ w \in At(S) <=> from \in S
  /\ IsFiniteSet(At(S)) /\ Cardinality(At(S)) \in Nat /\ At(S) \in SUBSET W
  /\ to \in S /\ from \in S => Cardinality(At(S)') = Cardinality(At(S))
  /\ to \in S /\ from \notin S => Cardinality(At(S)') = Cardinality(At(S)) + 1
  /\ to \notin S /\ from \in S => Cardinality(At(S)') = Cardinality(At(S)) - 1
  /\ to \notin S /\ from \notin S => Cardinality(At(S)') = Cardinality(At(S))

LEMMA AtMoves ==
  ASSUME setup \in Setups, setup' = setup,
         WorkerTyped, NEW w \in W,
         NEW from, NEW to \in WorkerSteps, NEW v \in Nat, Move(w, from, to, v), NEW S
  PROVE  Moved(w, from, to, S)
<1>1. W \in SUBSET Worker /\ IsFiniteSet(W) /\ W' = W
  BY WIs DEF W
<1>2. /\ worker[w].pc = from /\ worker'[w].pc = to
      /\ \A u \in Worker : u # w => worker'[u] = worker[u]
  BY <1>1, MoveIs
<1>3. At(S) \in SUBSET W
  BY DEF At
<1>4. IsFiniteSet(At(S)) /\ Cardinality(At(S)) \in Nat
  BY <1>1, <1>3, FS_Subset, FS_CardinalityType
<1>5. w \in At(S) <=> from \in S
  BY <1>2 DEF At
<1>6. At(S)' = {u \in W : worker'[u].pc \in S}
  BY <1>1 DEF At
<1>7. At(S)' = IF to \in S THEN At(S) \cup {w} ELSE At(S) \ {w}
  <2>1. \A u \in W : u \in At(S)' <=> (IF u = w THEN to \in S ELSE u \in At(S))
    BY <1>1, <1>2, <1>6 DEF At
  <2>2. At(S)' \in SUBSET W
    BY <1>6
  <2>3. CASE to \in S
    <3>1. \A u : u \in At(S)' <=> u \in At(S) \cup {w}
      BY <1>3, <2>1, <2>2, <2>3
    <3> QED BY <2>3, <3>1
  <2>4. CASE to \notin S
    <3>1. \A u : u \in At(S)' <=> u \in At(S) \ {w}
      BY <1>3, <2>1, <2>2, <2>4
    <3> QED BY <2>4, <3>1
  <2> QED BY <2>3, <2>4
<1>8. Cardinality(At(S) \cup {w}) = (IF w \in At(S) THEN Cardinality(At(S))
                                                   ELSE Cardinality(At(S)) + 1)
  BY <1>4, FS_AddElement
<1>9. Cardinality(At(S) \ {w}) = (IF w \in At(S) THEN Cardinality(At(S)) - 1
                                                 ELSE Cardinality(At(S)))
  BY <1>4, FS_RemoveElement
<1> QED BY <1>3, <1>4, <1>5, <1>7, <1>8, <1>9 DEF Moved

\* Where no worker moves, nothing changes.
LEMMA AtStays ==
  ASSUME UNCHANGED <<setup, worker>>, NEW S
  PROVE  At(S)' = At(S) /\ W' = W
  BY DEF At, W

-----------------------------------------------------------------------------
(* The steps.                                                              *)

\* A file, or the sentinel, gets into the queue.
PushOne(v) == /\ PushPuts(Main, v) /\ main' = [main EXCEPT !.i = @ + 1]
              /\ UNCHANGED <<setup, bad, worker, hashVars, semVars>>

PushOneFile     == InLoop("push", setup.files) /\ PushOne(main.i)
PushOneSentinel == InLoop("sentinels", setup.threads) /\ PushOne(NULL)

\* A worker gets a file from it.
PopOne(w) == /\ PopTakes(w) /\ Step(w, "pop", "end") /\ Begin(w, First)
             /\ UNCHANGED <<setup, bad, main, semVars>>

\* A worker cannot be set up.
GivesUp == Workforce > 0 /\ main.pc # "exited" /\ setup.givesUp /\ ExitFailure

\* Somebody falls asleep, or wakes up, or nothing happens.
Rests == UNCHANGED <<setup, bad, main, worker, hashVars, semVars, queue>>

MainMoves == \/ Create \/ GivesUp \/ AllCreated
             \/ (\E f \in File : BeginAlone(f)) \/ EndAlone \/ DoneAlone
             \/ PushOneFile \/ Pushed \/ PushOneSentinel \/ SentinelsPushed
             \/ (\E w \in W : Join(w)) \/ Exit

WorkerMoves(w) == \/ CurlInit(w) \/ BeginOwn(w) \/ Throttle(w) \/ PopOne(w) \/ PopEnd(w)
                  \/ EndAndReturn(w) \/ EndAndPop(w) \/ EndThrottled(w)
                  \/ TakeLock(w) \/ LoadFailures(w) \/ StoreFailures(w)
                  \/ ReleaseLock(w) \/ PostRunning(w)

Moves == MainMoves \/ (\E w \in W : WorkerMoves(w)) \/ Rests

\* Only the workers of this program do anything.
LEMMA NobodyElse ==
  ASSUME IInv, NEW w \in Worker, worker[w].pc # "none"
  PROVE  w \in W
  BY DEF IInv, Located

\* Which program it is, by the steps of its workers.
LEMMA ProgramIs ==
  ASSUME IInv, NEW w \in W
  PROVE  /\ worker[w].pc = "begin" => setup.program \in {"reading03", "reading04"}
         /\ worker[w].pc \in {"throttle", "lock", "load", "store", "unlock", "post"} =>
              setup.program = "reading06"
         /\ worker[w].pc \in {"init", "pop"} => setup.program \in Pooled
         /\ setup.program \notin Alone
<1>1. worker[w].pc \in Places
  BY WIs DEF IInv, Typed, SetupTyped, Located
<1>2. setup.program \in PerFile \cup Pooled \cup Alone
  BY SetupIs DEF IInv, Typed, SetupTyped
<1>3. setup.program \notin Alone
  BY WIs DEF IInv, Typed, SetupTyped
<1> QED BY <1>1, <1>2, <1>3 DEF Places, PerFile, Pooled, Alone, Slot

LEMMA StepsAre ==
  ASSUME IInv, [Next]_vars
  PROVE  Moves
<1>1. CASE MainStep
  <2>1. CASE PushFile
    <3>1. CASE PushWaits(Main) /\ UNCHANGED main
      BY <2>1, <3>1 DEF PushFile, PushWaits, Moves, Rests
    <3>2. CASE ~ (PushWaits(Main) /\ UNCHANGED main)
      BY <2>1, <3>2 DEF PushFile, Moves, MainMoves, PushOneFile, PushOne
    <3> QED BY <3>1, <3>2
  <2>2. CASE PushSentinel
    <3>1. CASE PushWaits(Main) /\ UNCHANGED main
      BY <2>2, <3>1 DEF PushSentinel, PushWaits, Moves, Rests
    <3>2. CASE ~ (PushWaits(Main) /\ UNCHANGED main)
      BY <2>2, <3>2 DEF PushSentinel, Moves, MainMoves, PushOneSentinel, PushOne
    <3> QED BY <3>1, <3>2
  <2>3. CASE \E w \in Worker : Join(w)
    <3>1. PICK w \in Worker : Join(w)
      BY <2>3
    <3>2. w \in W
      BY <3>1, NobodyElse DEF Join
    <3> QED BY <3>1, <3>2 DEF Moves, MainMoves
  <2>4. CASE ForkFails
    <3>1. Workforce > 0 /\ main.pc # "exited"
      <4>1. main.i \in Nat \ {0} /\ Workforce \in Nat
        BY WIs DEF IInv, Typed, SetupTyped, MainTyped, MainType
      <4> QED BY <2>4, <4>1 DEF ForkFails, InLoop
    <3> QED BY <2>4, <3>1 DEF ForkFails, GivesUp, Moves, MainMoves
  <2> QED BY <1>1, <2>1, <2>2, <2>3, <2>4 DEF MainStep, Moves, MainMoves
<1>2. ASSUME NEW w \in Worker, WorkerStep(w)
      PROVE  Moves
  <2>1. worker[w].pc # "none"
    BY <1>2 DEF WorkerStep, CurlInit, CurlInitFails, BeginOwn, Throttle, PopFile, PopEnd,
                EndAndReturn, EndAndPop, EndThrottled, TakeLock, LoadFailures, StoreFailures,
                ReleaseLock, PostRunning, Step, Returns
  <2>2. w \in W
    BY <2>1, NobodyElse
  <2>3. CASE PopFile(w)
    <3>1. CASE PopTakes(w) /\ Step(w, "pop", "end") /\ Begin(w, First)
      BY <2>2, <2>3, <3>1 DEF PopFile, Moves, WorkerMoves, PopOne
    <3>2. CASE ~ (PopTakes(w) /\ Step(w, "pop", "end") /\ Begin(w, First))
      BY <2>3, <3>2 DEF PopFile, PopWaits, Moves, Rests
    <3> QED BY <3>1, <3>2
  <2>4. CASE CurlInitFails(w)
    <3>1. Workforce > 0
      BY <2>2, WIs DEF IInv, Typed, SetupTyped
    <3>2. ~ Is("reading03")
      BY <2>2, <2>4, ProgramIs DEF CurlInitFails, Is, Pooled
    <3> QED BY <1>2, <2>4, <3>1, <3>2
            DEF WorkerStep, Alive, CurlInitFails, GivesUp, Moves, MainMoves
  <2>5. CASE ~ PopFile(w) /\ ~ CurlInitFails(w)
    BY <1>2, <2>2, <2>5 DEF WorkerStep, WorkerMoves, Moves
  <2> QED BY <2>3, <2>4, <2>5
<1>3. CASE Wakeup
  BY <1>3 DEF Wakeup, SpuriousWakeup, Moves, Rests
<1>4. CASE UNCHANGED vars
  BY <1>4 DEF vars, Moves, Rests, hashVars, semVars
<1> QED BY <1>1, <1>2, <1>3, <1>4 DEF Next

\* From where to where each of them goes.
LEMMA MovesAre ==
  ASSUME WorkerTyped, NEW w \in Worker
  PROVE  /\ CurlInit(w) => Move(w, "init", "pop", worker[w].value)
         /\ BeginOwn(w) => Move(w, "begin", "end", worker[w].value)
         /\ Throttle(w) => Move(w, "throttle", "end", worker[w].value)
         /\ PopOne(w) => Move(w, "pop", "end", worker[w].value)
         /\ PopEnd(w) => Move(w, "pop", "returned", 0)
         /\ EndAndReturn(w) => Move(w, "end", "returned", IF Failed(w) THEN 1 ELSE 0)
         /\ EndAndPop(w) => Move(w, "end", "pop", worker[w].value)
         /\ EndThrottled(w) => Move(w, "end", IF Failed(w) THEN "lock" ELSE "post", worker[w].value)
         /\ TakeLock(w) => Move(w, "lock", "load", worker[w].value)
         /\ LoadFailures(w) => Move(w, "load", "store", failures)
         /\ StoreFailures(w) => Move(w, "store", "unlock", worker[w].value)
         /\ ReleaseLock(w) => Move(w, "unlock", "post", worker[w].value)
         /\ PostRunning(w) => Move(w, "post", "returned", 0)
         /\ Join(w) => Move(w, "returned", "joined", worker[w].value)
         /\ worker[w].value \in Nat
<1>1. worker[w].value \in Nat
  BY DEF WorkerTyped
<1>2. \A from, to : Step(w, from, to) => Move(w, from, to, worker[w].value)
  BY StepMoves
<1>3. Join(w) => Step(w, "returned", "joined")
  BY DEF Join, Step
<1> QED BY <1>1, <1>2, <1>3, ReturnMoves DEF CurlInit, BeginOwn, Throttle, PopOne, PopEnd, EndAndReturn,
             EndAndPop, EndThrottled, TakeLock, LoadFailures, StoreFailures, ReleaseLock,
             PostRunning, Move

\* The next worker is created.
LEMMA CreateMoves ==
  ASSUME IInv, Create
  PROVE  /\ main.i \in W /\ Move(main.i, "none", FirstStep, worker[main.i].value)
         /\ FirstStep \in WorkerSteps /\ FirstStep # "none" /\ worker[main.i].value \in Nat
<1>1. main.i \in W
  <2>1. W = 1 .. Workforce /\ Workforce \in Nat
    BY WIs DEF IInv, Typed, SetupTyped
  <2>2. main.i \in Nat \ {0} /\ main.i <= Workforce
    BY DEF IInv, Typed, MainTyped, MainType, Create, InLoop
  <2> QED BY <2>1, <2>2
<1>2. main.i \in Worker
  BY <1>1, WIs DEF IInv, Typed, SetupTyped
<1>3. worker[main.i].pc = "none"
  BY <1>1 DEF IInv, Progress, Create, InLoop, Typed, MainTyped, MainType
<1>4. Step(main.i, "none", FirstStep)
  BY <1>3 DEF Create, Step
<1>5. Move(main.i, "none", FirstStep, worker[main.i].value) /\ worker[main.i].value \in Nat
  BY <1>2, <1>4, StepMoves DEF IInv, Typed
<1>6. FirstStep \in WorkerSteps /\ FirstStep # "none"
  BY DEF FirstStep, WorkerSteps
<1> QED BY <1>1, <1>5, <1>6

-----------------------------------------------------------------------------
(* The types stay.                                                         *)

\* The setup never changes, and with it the files and the workers.
LEMMA SetupStays ==
  ASSUME Moves
  PROVE  setup' = setup /\ bad' = bad /\ File' = File /\ W' = W /\ Workforce' = Workforce
<1>1. setup' = setup /\ bad' = bad
  BY DEF Moves, MainMoves, WorkerMoves, Create, GivesUp, ExitFailure, AllCreated, BeginAlone, EndAlone,
         DoneAlone, PushOneFile, PushOne, Pushed, PushOneSentinel, SentinelsPushed, LoopEnds,
         Join, Exit, CurlInit, BeginOwn, Throttle, PopOne, PopEnd, EndAndReturn, EndAndPop,
         EndThrottled, TakeLock, LoadFailures, StoreFailures, ReleaseLock, PostRunning, Rests
<1> QED BY <1>1 DEF File, W, Workforce

\* The steps of main: one more round of its loop, the end of one, the end of all.
RoundOfMain(v) == /\ main'.pc = main.pc /\ main'.status = main.status
                  /\ main'.i = main.i + 1 /\ main'.failures = main.failures + v
                  /\ MainTyped'

LoopOfMain(from, last, to) ==
  /\ main.pc = from /\ main.i > last /\ main'.pc = to /\ main'.i = 1
  /\ main'.failures = main.failures /\ main'.status = main.status /\ MainTyped'
  /\ UNCHANGED <<worker, hashing, hashed, running, lock, failures, queue, asleep>>

EndOfMain(n) == /\ main'.pc = "exited" /\ main'.status = n % ExitCodes
                /\ main'.status \in 0 .. ExitCodes - 1
                /\ main'.i = main.i /\ main'.failures = main.failures /\ MainTyped'
                /\ UNCHANGED <<worker, hashing, hashed, running, lock, failures, queue, asleep>>

LEMMA LoopEndsIs ==
  ASSUME MainTyped, NEW from, NEW last, NEW to \in MainSteps, LoopEnds(from, last, to)
  PROVE  LoopOfMain(from, last, to)
<1>1. main' = [main EXCEPT !.pc = to, !.i = 1] /\ main.pc = from /\ main.i > last
  BY DEF LoopEnds
<1>2. main' = [pc |-> to, i |-> 1, failures |-> main.failures, status |-> main.status]
  BY <1>1 DEF MainTyped, MainType
<1>3. /\ main'.pc = to /\ main'.i = 1 /\ main'.failures = main.failures
      /\ main'.status = main.status
  BY <1>2
<1>4. MainTyped'
  BY <1>2 DEF MainTyped, MainType
<1>5. UNCHANGED <<worker, hashing, hashed, running, lock, failures, queue, asleep>>
  BY DEF LoopEnds, hashVars, semVars, queueVars
<1> QED BY <1>1, <1>3, <1>4, <1>5 DEF LoopOfMain

LEMMA RoundIs ==
  ASSUME MainTyped, NEW v \in Nat, main' = [main EXCEPT !.i = @ + 1, !.failures = @ + v]
  PROVE  RoundOfMain(v)
<1>1. main' = [pc |-> main.pc, i |-> main.i + 1, failures |-> main.failures + v,
               status |-> main.status]
  BY DEF MainTyped, MainType
<1>2. main.i \in Nat \ {0} /\ main.failures \in Nat
  BY DEF MainTyped, MainType
<1>3. MainTyped'
  BY <1>1, <1>2 DEF MainTyped, MainType
<1> QED BY <1>1, <1>3 DEF RoundOfMain

LEMMA RoundOnlyIs ==
  ASSUME MainTyped, main' = [main EXCEPT !.i = @ + 1]
  PROVE  RoundOfMain(0)
  BY DEF MainTyped, MainType, RoundOfMain

LEMMA CodeIs ==
  ASSUME NEW n \in Nat
  PROVE  n % ExitCodes \in 0 .. ExitCodes - 1
<1>1. ExitCodes \in Nat \ {0}
  BY HashersAssumption
<1> QED BY <1>1, ModDef

LEMMA EndIs ==
  ASSUME MainTyped, NEW n \in Nat,
         main' = [main EXCEPT !.pc = "exited", !.status = n % ExitCodes],
         UNCHANGED <<worker, hashVars, semVars, queueVars>>
  PROVE  EndOfMain(n)
<1>1. n % ExitCodes \in 0 .. ExitCodes - 1
  BY CodeIs
<1> QED BY <1>1 DEF MainTyped, MainType, MainSteps, EndOfMain, hashVars, semVars, queueVars

\* How each step of main moves its program counter, its index, its count and the status.
LEMMA MainIs ==
  ASSUME IInv
  PROVE  /\ Create => RoundOfMain(0)
         /\ \A w \in W : Join(w) => RoundOfMain(worker[w].value)
         /\ EndAlone => RoundOfMain(IF hashing[Main] \in bad THEN 1 ELSE 0)
         /\ PushOneFile => RoundOfMain(0)
         /\ PushOneSentinel => RoundOfMain(0)
         /\ AllCreated => LoopOfMain("create", Workforce,
                                     IF setup.program \in Pooled THEN "push" ELSE "join")
         /\ DoneAlone => LoopOfMain("create", setup.files, "join")
         /\ Pushed => LoopOfMain("push", setup.files, "sentinels")
         /\ SentinelsPushed => LoopOfMain("sentinels", setup.threads, "join")
         /\ GivesUp => EndOfMain(1)
         /\ Exit => EndOfMain(IF Is("reading06") THEN failures ELSE main.failures)
<1>1. MainTyped /\ WorkerTyped /\ W \in SUBSET Worker /\ failures \in Nat
  BY WIs DEF IInv, Typed, SetupTyped, SemTyped
<1>2. (Create => RoundOfMain(0)) /\ (PushOneFile => RoundOfMain(0)) /\ (PushOneSentinel => RoundOfMain(0))
  BY <1>1, RoundOnlyIs DEF Create, PushOneFile, PushOneSentinel, PushOne
<1>3. ASSUME NEW w \in W, Join(w)
      PROVE  RoundOfMain(worker[w].value)
  <2>1. worker[w].value \in Nat
    BY <1>1, MovesAre
  <2> QED BY <1>1, <1>3, <2>1, RoundIs DEF Join
<1>4. ASSUME EndAlone
      PROVE  RoundOfMain(IF hashing[Main] \in bad THEN 1 ELSE 0)
  BY <1>1, <1>4, RoundIs DEF EndAlone
<1>5. {"create", "push", "sentinels", "join"} \subseteq MainSteps
  BY DEF MainSteps
<1>6. AllCreated => LoopOfMain("create", Workforce,
                               IF setup.program \in Pooled THEN "push" ELSE "join")
  BY <1>1, <1>5, LoopEndsIs DEF AllCreated
<1>7. /\ DoneAlone => LoopOfMain("create", setup.files, "join")
      /\ Pushed => LoopOfMain("push", setup.files, "sentinels")
      /\ SentinelsPushed => LoopOfMain("sentinels", setup.threads, "join")
  BY <1>1, <1>5, LoopEndsIs DEF DoneAlone, Pushed, SentinelsPushed
<1>8. GivesUp => EndOfMain(1)
  BY <1>1, EndIs DEF GivesUp, ExitFailure
<1>9. Exit => EndOfMain(IF Is("reading06") THEN failures ELSE main.failures)
  <2>1. main.failures \in Nat
    BY <1>1 DEF MainTyped, MainType
  <2> QED BY <1>1, <2>1, EndIs DEF Exit
<1> QED BY <1>2, <1>3, <1>4, <1>6, <1>7, <1>8, <1>9

\* Where main stays.
LEMMA MainKept ==
  ASSUME IInv
  PROVE  (\A f \in File : BeginAlone(f) => main' = main)
         /\ (\A w \in W : WorkerMoves(w) => main' = main) /\ (Rests => main' = main)
  BY DEF BeginAlone, WorkerMoves, CurlInit, BeginOwn, Throttle, PopOne, PopEnd, EndAndReturn, EndAndPop,
         EndThrottled, TakeLock, LoadFailures, StoreFailures, ReleaseLock, PostRunning, Rests

-----------------------------------------------------------------------------
(* Files are begun and ended.                                              *)

\* t starts on f, which nobody has hashed or is hashing.
StartsFile(t, f) ==
  /\ f \in File /\ f \notin hashed /\ \A u \in Thread : hashing[u] # f
  /\ hashing[t] = NULL /\ hashing'[t] = f
  /\ \A u \in Thread \ {t} : hashing'[u] = hashing[u]
  /\ hashed' = hashed
  /\ hashing' \in [Thread -> File \cup {NULL}] /\ hashed' \in SUBSET File

EndsFile(t) ==
  /\ hashing[t] \in File /\ hashing[t] \notin hashed /\ hashing'[t] = NULL
  /\ \A u \in Thread \ {t} : hashing'[u] = hashing[u]
  /\ hashed' = hashed \cup {hashing[t]}
  /\ hashing' \in [Thread -> File \cup {NULL}] /\ hashed' \in SUBSET File

HashStays == UNCHANGED <<hashing, hashed>>

LEMMA BeginIs ==
  ASSUME HashTyped, NEW t \in Thread, NEW f \in File, Begin(t, f), hashing[t] = NULL,
         f \notin hashed, \A u \in Thread : hashing[u] # f
  PROVE  StartsFile(t, f)
  BY DEF Begin, StartsFile, HashTyped

LEMMA EndFileIs ==
  ASSUME HashTyped, NEW t \in Thread, hashing[t] \in File, End(t), hashing[t] \notin hashed
  PROVE  EndsFile(t)
  BY DEF End, EndsFile, HashTyped

\* Nobody but the workers and, in a program without them, main is hashing.
LEMMA WhoHashes ==
  ASSUME IInv, NEW t \in Thread, hashing[t] # NULL
  PROVE  /\ hashing[t] \in File /\ hashing[t] \notin hashed
         /\ (t \in W /\ worker[t].pc = "end") \/ (t = Main /\ setup.program \in Alone)
<1>1. hashing[t] \in File /\ hashing[t] \notin hashed
  BY DEF IInv, Typed, HashTyped, Exclusive
<1>2. CASE t = Main
  BY <1>1, <1>2 DEF IInv, Exclusive
<1>3. CASE t \in Worker
  <2>1. worker[t].pc = "end"
    BY <1>3 DEF IInv, Exclusive
  <2> QED BY <1>1, <1>3, <2>1, NobodyElse
<1> QED BY <1>2, <1>3 DEF Thread

\* A worker that waits for a file, or for its turn, is not hashing one.
LEMMA OwnFileIsFresh ==
  ASSUME IInv, NEW w \in W, setup.program \in PerFile,
         worker[w].pc \in {"begin", "throttle"}
  PROVE  w \in File /\ w \notin hashed /\ hashing[w] = NULL /\ \A u \in Thread : hashing[u] # w
<1>1. w \in File /\ w \in Worker /\ w # NULL
  BY WIs, FileIs DEF IInv, Typed, SetupTyped
<1>2. w \notin hashed
  BY DEF IInv, OwnFiles, Behind
<1>3. hashing[w] = NULL
  BY <1>1 DEF IInv, Exclusive
<1>4. ASSUME NEW u \in Thread, hashing[u] = w
      PROVE  FALSE
  <2>1. u \in W
    BY <1>1, <1>4, WhoHashes DEF PerFile, Alone
  <2>2. hashing[u] \in {u, NULL}
    BY <2>1 DEF IInv, OwnFiles
  <2> QED BY <1>1, <1>3, <1>4, <2>2
<1> QED BY <1>1, <1>2, <1>3, <1>4

\* What the fields of the queue are.
LEMMA QueueIs ==
  ASSUME SetupTyped, QueueTyped
  PROVE  /\ queue.capacity \in Nat \ {0} /\ queue.capacity = setup.capacity
         /\ queue.size \in 0 .. queue.capacity
         /\ queue.reader \in 0 .. queue.capacity - 1
         /\ queue.writer \in 0 .. queue.capacity - 1
         /\ queue.data \in [0 .. queue.capacity - 1 -> File \cup {NULL}]
         /\ queue.writer = (queue.reader + queue.size) % queue.capacity
         /\ queue = [data |-> queue.data, capacity |-> queue.capacity, size |-> queue.size,
                     reader |-> queue.reader, writer |-> queue.writer]
<1>1. setup.capacity \in Nat \ {0}
  BY SetupIs DEF SetupTyped
<1> QED BY <1>1 DEF QueueTyped, QueueType

\* The first entry, whatever it is.
LEMMA FirstIs ==
  ASSUME IInv, NEW k \in Nat, Taken(k), queue.size > 0
  PROVE  First = IF k + 1 <= setup.files THEN k + 1 ELSE NULL
<1> DEFINE c == queue.capacity
           r == queue.reader
<1>1. c \in Nat \ {0} /\ queue.size \in 1 .. c /\ r \in 0 .. c - 1
  BY QueueIs DEF IInv, Typed
<1>2. 0 \in 0 .. queue.size - 1
  BY <1>1
<1>3. queue.data[(r + 0) % c] = Ahead(k, 0)
  BY <1>2 DEF Taken
<1>4. (r + 0) % c = r
  <2>1. r + 0 = r
    BY <1>1
  <2>2. r % c = r
    BY <1>1, ModSmall
  <2> QED BY <2>1, <2>2
<1>5. Ahead(k, 0) = IF k + 1 <= setup.files THEN k + 1 ELSE NULL
  BY DEF Ahead
<1> QED BY <1>3, <1>4, <1>5 DEF First

\* A file that comes first is one that nobody has taken.
LEMMA FirstIsFresh ==
  ASSUME IInv, setup.program \in Pooled, queue.size > 0, First # NULL
  PROVE  First \in File /\ First \notin hashed /\ \A u \in Thread : hashing[u] # First
<1>1. PICK k \in 0 .. setup.files : Taken(k)
  BY DEF IInv, PoolFiles
<1>2. setup.files \in Nat /\ k \in Nat
  BY SetupIs DEF IInv, Typed, SetupTyped
<1>3. First = k + 1 /\ k + 1 <= setup.files
  BY <1>1, <1>2, FirstIs
<1>4. First \in File /\ ~ (First <= k)
  BY <1>2, <1>3 DEF File
<1>5. First \notin hashed /\ \A w \in W : hashing[w] # First
  BY <1>1, <1>4 DEF Taken
<1>6. First # NULL
  BY <1>4, FileIs DEF IInv, Typed, SetupTyped
<1>7. \A u \in Thread : hashing[u] # First
  BY <1>5, <1>6, WhoHashes DEF Pooled, Alone
<1> QED BY <1>4, <1>5, <1>7

\* What each step does to the files.
LEMMA HashIs ==
  ASSUME IInv
  PROVE  /\ \A f \in File : BeginAlone(f) => StartsFile(Main, f)
         /\ EndAlone => EndsFile(Main)
         /\ \A w \in W : /\ BeginOwn(w) \/ Throttle(w) => StartsFile(w, w)
                         /\ PopOne(w) => StartsFile(w, First)
                         /\ EndAndReturn(w) \/ EndAndPop(w) \/ EndThrottled(w) => EndsFile(w)
<1>1. HashTyped /\ Main \in Thread /\ NULL \notin File /\ W \in SUBSET Worker
  BY WIs, FileIs, WorkerIs DEF IInv, Typed, SetupTyped
<1>2. ASSUME NEW f \in File, BeginAlone(f)
      PROVE  StartsFile(Main, f)
  <2>1. setup.program \in Alone /\ hashing[Main] = NULL /\ f \notin hashed /\ Begin(Main, f)
    BY <1>2 DEF BeginAlone
  <2>2. W = {}
    BY <2>1, WIs DEF IInv, Typed, SetupTyped
  <2>3. \A u \in Thread : hashing[u] # f
    BY <1>1, <2>1, <2>2, WhoHashes
  <2> QED BY <1>1, <2>1, <2>3, BeginIs
<1>3. ASSUME EndAlone
      PROVE  EndsFile(Main)
  <2>1. hashing[Main] \in File /\ hashing[Main] \notin hashed
    BY <1>1, <1>3, WhoHashes DEF EndAlone
  <2> QED BY <1>1, <1>3, <2>1, EndFileIs DEF EndAlone
<1>4. ASSUME NEW w \in W, BeginOwn(w) \/ Throttle(w)
      PROVE  StartsFile(w, w)
  <2>1. worker[w].pc \in {"begin", "throttle"} /\ Begin(w, w)
    BY <1>4 DEF BeginOwn, Throttle, Step
  <2>2. setup.program \in PerFile
    BY <2>1, ProgramIs DEF PerFile
  <2>3. w \in Thread
    BY <1>1 DEF Thread
  <2> QED BY <1>1, <2>1, <2>2, <2>3, OwnFileIsFresh, BeginIs
<1>5. ASSUME NEW w \in W, PopOne(w)
      PROVE  StartsFile(w, First)
  <2>1. worker[w].pc = "pop" /\ Begin(w, First) /\ queue.size > 0 /\ First # NULL
    BY <1>5 DEF PopOne, PopTakes, Step
  <2>2. setup.program \in Pooled
    BY <2>1, ProgramIs
  <2>3. w \in Thread /\ hashing[w] = NULL
    BY <1>1, <2>1 DEF Thread, IInv, Exclusive
  <2> QED BY <1>1, <2>1, <2>2, <2>3, FirstIsFresh, BeginIs
<1>6. ASSUME NEW w \in W, EndAndReturn(w) \/ EndAndPop(w) \/ EndThrottled(w)
      PROVE  EndsFile(w)
  <2>1. worker[w].pc = "end" /\ End(w)
    BY <1>6 DEF EndAndReturn, EndAndPop, EndThrottled, Step, Returns
  <2>2. w \in Thread /\ hashing[w] # NULL
    BY <1>1, <2>1 DEF Thread, IInv, Exclusive
  <2> QED BY <1>1, <2>1, <2>2, WhoHashes, EndFileIs
<1> QED BY <1>2, <1>3, <1>4, <1>5, <1>6

\* Where the files are left alone.
LEMMA HashKept ==
  ASSUME IInv
  PROVE  /\ Create \/ GivesUp \/ AllCreated \/ DoneAlone \/ PushOneFile \/ Pushed => HashStays
         /\ PushOneSentinel \/ SentinelsPushed \/ Exit \/ Rests => HashStays
         /\ \A w \in W : Join(w) => HashStays
         /\ \A w \in W : CurlInit(w) \/ PopEnd(w) \/ TakeLock(w) \/ LoadFailures(w) => HashStays
         /\ \A w \in W : StoreFailures(w) \/ ReleaseLock(w) \/ PostRunning(w) => HashStays
  BY DEF Create, GivesUp, ExitFailure, AllCreated, DoneAlone, PushOneFile, PushOne, Pushed, PushOneSentinel,
         SentinelsPushed, LoopEnds, Join, Exit, CurlInit, PopEnd, TakeLock, LoadFailures, StoreFailures,
         ReleaseLock, PostRunning, Rests, HashStays, hashVars

-----------------------------------------------------------------------------
(* The ring.                                                               *)

\* Where the entry s places after r is.
LEMMA RingIndex ==
  ASSUME NEW k \in Nat \ {0}, NEW r \in 0 .. k - 1, NEW s \in 0 .. k
  PROVE  /\ (r + s) % k = IF r + s < k THEN r + s ELSE r + s - k
         /\ (r + s) % k \in 0 .. k - 1
<1> DEFINE n == r + s
<1>1. n \in Nat
  OBVIOUS
<1>2. n < 2 * k
  OBVIOUS
<1>3. n % k = IF n < k THEN n ELSE n - k
  <2> HIDE DEF n
  <2> QED BY <1>1, <1>2, ModOnce
<1>4. (IF n < k THEN n ELSE n - k) \in 0 .. k - 1
  OBVIOUS
<1> QED BY <1>3, <1>4

\* One further at the end, and at the beginning.
LEMMA RingNext ==
  ASSUME NEW k \in Nat \ {0}, NEW r \in 0 .. k - 1, NEW s \in 0 .. k - 1
  PROVE  /\ (((r + s) % k) + 1) % k = (r + (s + 1)) % k
         /\ (((r + 1) % k) + s) % k = (r + (s + 1)) % k
         /\ (r + 1) % k \in 0 .. k - 1
<1> DEFINE here  == (r + s) % k
           first == (r + 1) % k
<1>1. here = (IF r + s < k THEN r + s ELSE r + s - k) /\ here \in 0 .. k - 1
  <2>1. s \in 0 .. k
    OBVIOUS
  <2> QED BY <2>1, RingIndex
<1>2. (here + 1) % k = (IF here + 1 < k THEN here + 1 ELSE here + 1 - k)
  <2> HIDE DEF here
  <2>1. 1 \in 0 .. k
    OBVIOUS
  <2> QED BY <1>1, <2>1, RingIndex
<1>3. (r + (s + 1)) % k = (IF r + (s + 1) < k THEN r + (s + 1) ELSE r + (s + 1) - k)
  <2>1. s + 1 \in 0 .. k
    OBVIOUS
  <2> QED BY <2>1, RingIndex
<1>4. first = (IF r + 1 < k THEN r + 1 ELSE r + 1 - k) /\ first \in 0 .. k - 1
  <2>1. 1 \in 0 .. k
    OBVIOUS
  <2> QED BY <2>1, RingIndex
<1>5. (first + s) % k = (IF first + s < k THEN first + s ELSE first + s - k)
  <2> HIDE DEF first
  <2>1. s \in 0 .. k
    OBVIOUS
  <2> QED BY <1>4, <2>1, RingIndex
<1>6. (here + 1) % k = (r + (s + 1)) % k
  <2> HIDE DEF here
  <2> QED BY <1>1, <1>2, <1>3
<1>7. (first + s) % k = (r + (s + 1)) % k
  <2> HIDE DEF first
  <2> QED BY <1>3, <1>4, <1>5
<1> QED BY <1>4, <1>6, <1>7

\* Two entries of the queue, or an entry and the next free place, are different.
LEMMA RingApart ==
  ASSUME NEW k \in Nat \ {0}, NEW r \in 0 .. k - 1, NEW s \in 0 .. k - 1, NEW j \in 0 .. s - 1
  PROVE  (r + j) % k # (r + s) % k
<1>1. j \in 0 .. k /\ s \in 0 .. k
  OBVIOUS
<1>2. (r + j) % k = (IF r + j < k THEN r + j ELSE r + j - k)
  BY <1>1, RingIndex
<1>3. (r + s) % k = (IF r + s < k THEN r + s ELSE r + s - k)
  BY <1>1, RingIndex
<1> QED BY <1>2, <1>3

\* The ring after a push, and after a pop.
Put(v) == /\ queue.size < queue.capacity
          /\ queue'.data = [queue.data EXCEPT ![queue.writer] = v]
          /\ queue'.capacity = queue.capacity /\ queue'.size = queue.size + 1
          /\ queue'.reader = queue.reader

Got == /\ queue.size > 0 /\ First # NULL
       /\ queue'.data = queue.data
       /\ queue'.capacity = queue.capacity /\ queue'.size = queue.size - 1
       /\ queue'.reader = After(queue.reader)

LEMMA PutIs ==
  ASSUME SetupTyped, QueueTyped, UNCHANGED setup, NEW t, NEW v \in File \cup {NULL}, PushPuts(t, v)
  PROVE  Put(v) /\ QueueTyped'
<1> DEFINE c == queue.capacity
           r == queue.reader
           n == queue.size
<1>1. /\ c \in Nat \ {0} /\ c = setup.capacity /\ n \in 0 .. c - 1 /\ r \in 0 .. c - 1
      /\ queue.writer = (r + n) % c /\ queue.writer \in 0 .. c - 1
      /\ queue.data \in [0 .. c - 1 -> File \cup {NULL}]
  BY QueueIs DEF PushPuts
<1>2. queue' = [data |-> [queue.data EXCEPT ![queue.writer] = v], capacity |-> c, size |-> n + 1,
                reader |-> r, writer |-> After(queue.writer)]
  BY QueueIs DEF PushPuts
<1>3. After(queue.writer) = (r + (n + 1)) % c
  <2>1. (((r + n) % c) + 1) % c = (r + (n + 1)) % c
    <3> HIDE DEF c, r, n
    <3> QED BY <1>1, RingNext
  <2> QED BY <1>1, <2>1 DEF After
<1>4. (r + (n + 1)) % c \in 0 .. c - 1
  <2>1. n + 1 \in 0 .. c
    BY <1>1
  <2> HIDE DEF c, r, n
  <2> QED BY <1>1, <2>1, RingIndex
<1>5. Put(v)
  BY <1>1, <1>2 DEF Put, PushPuts
<1>6. [queue.data EXCEPT ![queue.writer] = v] \in [0 .. c - 1 -> File \cup {NULL}]
  BY <1>1
<1>7. queue' \in QueueType
  BY <1>1, <1>2, <1>3, <1>4, <1>6 DEF QueueType
<1>8. queue'.writer = (queue'.reader + queue'.size) % queue'.capacity
  BY <1>2, <1>3
<1>9. QueueType' = QueueType
  BY DEF QueueType, File
<1> QED BY <1>5, <1>7, <1>8, <1>9 DEF QueueTyped

LEMMA GotIs ==
  ASSUME SetupTyped, QueueTyped, UNCHANGED setup, NEW t, PopTakes(t)
  PROVE  Got /\ QueueTyped'
<1> DEFINE c == queue.capacity
           r == queue.reader
           n == queue.size
<1>1. /\ c \in Nat \ {0} /\ c = setup.capacity /\ n \in 1 .. c /\ r \in 0 .. c - 1
      /\ queue.writer = (r + n) % c /\ queue.writer \in 0 .. c - 1
      /\ queue.data \in [0 .. c - 1 -> File \cup {NULL}]
  BY QueueIs DEF PopTakes
<1>2. queue' = [data |-> queue.data, capacity |-> c, size |-> n - 1,
                reader |-> After(r), writer |-> queue.writer]
  BY QueueIs DEF PopTakes
<1>3. After(r) \in 0 .. c - 1 /\ (After(r) + (n - 1)) % c = (r + n) % c
  <2>1. n - 1 \in 0 .. c - 1 /\ (n - 1) + 1 = n
    BY <1>1
  <2>2. (((r + 1) % c) + (n - 1)) % c = (r + ((n - 1) + 1)) % c /\ (r + 1) % c \in 0 .. c - 1
    <3> HIDE DEF c, r, n
    <3> QED BY <1>1, <2>1, RingNext
  <2> QED BY <2>1, <2>2 DEF After
<1>4. Got
  BY <1>1, <1>2 DEF Got, PopTakes
<1>5. queue' \in QueueType
  BY <1>1, <1>2, <1>3 DEF QueueType
<1>6. queue'.writer = (queue'.reader + queue'.size) % queue'.capacity
  BY <1>1, <1>2, <1>3
<1>7. QueueType' = QueueType
  BY DEF QueueType, File
<1> QED BY <1>4, <1>5, <1>6, <1>7 DEF QueueTyped

\* What each step does to the queue.
LEMMA RingIs ==
  ASSUME IInv, Moves
  PROVE  /\ PushOneFile => Put(main.i) /\ QueueTyped'
         /\ PushOneSentinel => Put(NULL) /\ QueueTyped'
         /\ \A w \in W : PopOne(w) => Got /\ QueueTyped'
         /\ ~ PushOneFile /\ ~ PushOneSentinel /\ (\A w \in W : ~ PopOne(w)) =>
              queue' = queue
<1>1. SetupTyped /\ QueueTyped /\ UNCHANGED setup
  BY SetupStays DEF IInv, Typed
<1>2. ASSUME PushOneFile
      PROVE  Put(main.i) /\ QueueTyped'
  <2>1. main.i \in File
    <3>1. main.i \in Nat \ {0} /\ main.i <= setup.files /\ setup.files \in Nat
      BY <1>1, <1>2, SetupIs DEF PushOneFile, InLoop, IInv, Typed, MainTyped, MainType, SetupTyped
    <3> QED BY <3>1 DEF File
  <2> QED BY <1>1, <1>2, <2>1, PutIs DEF PushOneFile, PushOne
<1>3. PushOneSentinel => Put(NULL) /\ QueueTyped'
  BY <1>1, PutIs DEF PushOneSentinel, PushOne
<1>4. \A w \in W : PopOne(w) => Got /\ QueueTyped'
  BY <1>1, GotIs DEF PopOne
<1>5. ~ PushOneFile /\ ~ PushOneSentinel /\ (\A w \in W : ~ PopOne(w)) => queue' = queue
  BY DEF Moves, MainMoves, WorkerMoves, Create, GivesUp, ExitFailure, AllCreated, BeginAlone, EndAlone,
         DoneAlone, Pushed, SentinelsPushed, LoopEnds, Join, Exit, CurlInit, BeginOwn, Throttle, PopEnd,
         PopSentinel, EndAndReturn, EndAndPop, EndThrottled, TakeLock, LoadFailures,
         StoreFailures, ReleaseLock, PostRunning, Rests, queueVars
<1> QED BY <1>2, <1>3, <1>4, <1>5

-----------------------------------------------------------------------------
(* The types stay.                                                         *)

\* Where no worker moves.
LEMMA WorkersKept ==
  ASSUME IInv
  PROVE  /\ GivesUp \/ AllCreated \/ EndAlone \/ DoneAlone \/ PushOneFile => worker' = worker
         /\ Pushed \/ PushOneSentinel \/ SentinelsPushed \/ Exit \/ Rests => worker' = worker
         /\ \A f \in File : BeginAlone(f) => worker' = worker
  BY DEF GivesUp, ExitFailure, AllCreated, BeginAlone, EndAlone, DoneAlone, PushOneFile, PushOne, Pushed,
         PushOneSentinel, SentinelsPushed, LoopEnds, Exit, Rests

\* The steps between the creation of a worker and its end.
Inner == WorkerSteps \ {"none", "joined"}

\* A worker goes where the workers of its program go.
LEMMA SomeMove ==
  ASSUME IInv, NEW w \in W, WorkerMoves(w)
  PROVE  \E from, to \in Inner : \E v \in Nat : Move(w, from, to, v) /\ to \in Places
<1>1. WorkerTyped /\ w \in Worker /\ failures \in Nat /\ worker[w].value \in Nat
  BY WIs, MovesAre DEF IInv, Typed, SetupTyped, SemTyped
<1>2. worker[w].pc \in Places
  BY <1>1 DEF IInv, Located
<1>3. setup.program \in PerFile \cup Pooled
  BY SetupIs, ProgramIs DEF IInv, Typed, SetupTyped
<1>4. "returned" \in Places /\ "end" \in Places
  BY <1>3 DEF Places, PerFile, Pooled, Slot
<1> DEFINE P(to) == \E from \in Inner : \E v \in Nat : Move(w, from, to, v)
<1>5. ASSUME NEW to \in Inner, P(to), to \in Places
      PROVE  \E from, t \in Inner : \E v \in Nat : Move(w, from, t, v) /\ t \in Places
  BY <1>5
<1>6. {"init", "begin", "throttle", "pop", "end", "lock", "load", "store", "unlock", "post",
       "returned"} \subseteq Inner /\ 0 \in Nat /\ 1 \in Nat
  BY DEF Inner, WorkerSteps
<1>7. CASE BeginOwn(w) \/ Throttle(w) \/ PopOne(w)
  <2>1. P("end")
    BY <1>1, <1>6, <1>7, MovesAre
  <2> QED BY <1>4, <1>5, <1>6, <2>1
<1>8. CASE PopEnd(w) \/ EndAndReturn(w) \/ PostRunning(w)
  <2>1. P("returned")
    BY <1>1, <1>6, <1>8, MovesAre
  <2> QED BY <1>4, <1>5, <1>6, <2>1
<1>9. CASE CurlInit(w) \/ EndAndPop(w)
  <2>1. P("pop")
    BY <1>1, <1>6, <1>9, MovesAre
  <2>2. "pop" \in Places
    <3>1. setup.program \in Pooled
      BY <1>9, ProgramIs DEF CurlInit, Step, EndAndPop, Is, Pooled
    <3> QED BY <3>1 DEF Places, Pooled
  <2> QED BY <1>5, <1>6, <2>1, <2>2
<1>10. CASE EndThrottled(w)
  <2>1. P("lock") \/ P("post")
    BY <1>1, <1>6, <1>10, MovesAre
  <2>2. "lock" \in Places /\ "post" \in Places
    BY <1>10 DEF EndThrottled, Is, Places, Pooled, Slot
  <2> QED BY <1>5, <1>6, <2>1, <2>2
<1>11. CASE TakeLock(w) \/ LoadFailures(w) \/ StoreFailures(w) \/ ReleaseLock(w)
  <2>1. setup.program = "reading06"
    BY <1>11, ProgramIs DEF TakeLock, LoadFailures, StoreFailures, ReleaseLock, Step
  <2>2. {"load", "store", "unlock", "post"} \subseteq Places
    BY <2>1 DEF Places, Pooled, Slot
  <2>3. P("load") \/ P("store") \/ P("unlock") \/ P("post")
    BY <1>1, <1>6, <1>11, MovesAre
  <2> QED BY <1>5, <1>6, <2>2, <2>3
<1> QED BY <1>7, <1>8, <1>9, <1>10, <1>11 DEF WorkerMoves

LEMMA WorkerTypedStays ==
  ASSUME IInv, Moves
  PROVE  WorkerTyped'
<1>1. WorkerTyped /\ W \in SUBSET Worker
  BY WIs DEF IInv, Typed, SetupTyped
<1>2. CASE Create
  BY <1>1, <1>2, CreateMoves, MoveIs
<1>3. ASSUME NEW w \in W, WorkerMoves(w)
      PROVE  WorkerTyped'
  <2>1. PICK from, to \in Inner : \E v \in Nat : Move(w, from, to, v)
    BY <1>3, SomeMove
  <2> QED BY <1>1, <2>1, MoveIs DEF Inner
<1>4. ASSUME NEW w \in W, Join(w)
      PROVE  WorkerTyped'
  <2>1. Move(w, "returned", "joined", worker[w].value) /\ worker[w].value \in Nat
    BY <1>1, <1>4, MovesAre
  <2> QED BY <1>1, <2>1, MoveIs DEF WorkerSteps
<1>5. CASE worker' = worker
  BY <1>1, <1>5 DEF WorkerTyped
<1> QED BY <1>2, <1>3, <1>4, <1>5, WorkersKept DEF Moves, MainMoves

LEMMA MainTypedStays ==
  ASSUME IInv, Moves
  PROVE  MainTyped'
<1>1. CASE main' = main
  BY <1>1 DEF IInv, Typed, MainTyped
<1>2. CASE MainMoves
  <2>1. CASE \E f \in File : BeginAlone(f)
    BY <1>1, <2>1, MainKept
  <2>2. CASE ~ \E f \in File : BeginAlone(f)
    BY <1>2, <2>2, MainIs DEF MainMoves, RoundOfMain, LoopOfMain, EndOfMain
  <2> QED BY <2>1, <2>2
<1> QED BY <1>1, <1>2, MainKept DEF Moves

LEMMA HashTypedStays ==
  ASSUME IInv, Moves
  PROVE  HashTyped'
<1>1. File' = File
  BY SetupStays
<1>2. CASE HashStays
  BY <1>1, <1>2 DEF IInv, Typed, HashTyped, HashStays
<1>3. ASSUME NEW t, NEW f, StartsFile(t, f)
      PROVE  HashTyped'
  BY <1>1, <1>3 DEF StartsFile, HashTyped
<1>4. ASSUME NEW t, EndsFile(t)
      PROVE  HashTyped'
  BY <1>1, <1>4 DEF EndsFile, HashTyped
<1>5. CASE MainMoves
  BY <1>2, <1>3, <1>4, <1>5, HashIs, HashKept DEF MainMoves
<1>6. ASSUME NEW w \in W, WorkerMoves(w)
      PROVE  HashTyped'
  <2>1. CASE BeginOwn(w) \/ Throttle(w) \/ PopOne(w)
    BY <1>3, <2>1, HashIs
  <2>2. CASE EndAndReturn(w) \/ EndAndPop(w) \/ EndThrottled(w)
    BY <1>4, <2>2, HashIs
  <2>3. CASE \/ CurlInit(w) \/ PopEnd(w) \/ TakeLock(w) \/ LoadFailures(w) \/ StoreFailures(w)
             \/ ReleaseLock(w) \/ PostRunning(w)
    BY <1>2, <2>3, HashKept
  <2> QED BY <1>6, <2>1, <2>2, <2>3 DEF WorkerMoves
<1>7. CASE Rests
  BY <1>2, <1>7, HashKept
<1> QED BY <1>5, <1>6, <1>7 DEF Moves

LEMMA SemTypedStays ==
  ASSUME IInv, Moves
  PROVE  SemTyped'
<1>1. SemTyped /\ WorkerTyped /\ W \in SUBSET Worker
  BY WIs DEF IInv, Typed, SetupTyped
<1>2. CASE UNCHANGED semVars
  BY <1>1, <1>2 DEF SemTyped, semVars
<1>3. ASSUME NEW w \in W, Throttle(w) \/ TakeLock(w) \/ ReleaseLock(w) \/ PostRunning(w)
      PROVE  SemTyped'
  BY <1>1, <1>3 DEF Throttle, TakeLock, ReleaseLock, PostRunning, SemTyped
<1>4. ASSUME NEW w \in W, StoreFailures(w)
      PROVE  SemTyped'
  <2>1. worker[w].value \in Nat
    BY <1>1, MovesAre
  <2> QED BY <1>1, <1>4, <2>1 DEF StoreFailures, SemTyped
<1>5. CASE MainMoves \/ Rests
  BY <1>2, <1>5 DEF MainMoves, Create, GivesUp, ExitFailure, AllCreated, BeginAlone, EndAlone, DoneAlone,
         PushOneFile, PushOne, Pushed, PushOneSentinel, SentinelsPushed, LoopEnds, Join, Exit, Rests
<1>6. ASSUME NEW w \in W, WorkerMoves(w)
      PROVE  SemTyped'
  <2>1. CASE \/ CurlInit(w) \/ BeginOwn(w) \/ PopOne(w) \/ PopEnd(w) \/ EndAndReturn(w) \/ EndAndPop(w)
             \/ EndThrottled(w) \/ LoadFailures(w)
    BY <1>2, <2>1 DEF CurlInit, BeginOwn, PopOne, PopEnd, EndAndReturn, EndAndPop, EndThrottled, LoadFailures
  <2> QED BY <1>3, <1>4, <1>6, <2>1 DEF WorkerMoves
<1> QED BY <1>5, <1>6 DEF Moves

LEMMA QueueTypedStays ==
  ASSUME IInv, Moves
  PROVE  QueueTyped'
<1>1. CASE queue' = queue
  <2>1. QueueType' = QueueType
    BY SetupStays DEF QueueType
  <2> QED BY <1>1, <2>1 DEF IInv, Typed, QueueTyped
<1>2. CASE queue' # queue
  BY <1>2, RingIs
<1> QED BY <1>1, <1>2

\* Who sleeps for what.
LEMMA WaitIs ==
  ASSUME SleepTyped, NEW t \in Thread, NEW c \in Conditions, Wait(t, c),
         IF c = "consumed" THEN t = Main ELSE t \in Worker
  PROVE  SleepTyped'
  BY DEF SleepTyped, Wait, Conditions

LEMMA WakeIs ==
  ASSUME SleepTyped, NEW t, NEW c \in Conditions,
         asleep' = [asleep EXCEPT ![c] = @ \ {t}]
  PROVE  SleepTyped'
  BY DEF SleepTyped, Conditions

LEMMA SignalIs ==
  ASSUME SleepTyped, NEW c \in Conditions, Signal(c)
  PROVE  SleepTyped'
<1>1. CASE UNCHANGED asleep
  BY <1>1 DEF SleepTyped
<1> QED BY <1>1, WakeIs DEF Signal

LEMMA SleepTypedStays ==
  ASSUME IInv, [Next]_vars
  PROVE  SleepTyped'
<1>1. SleepTyped /\ Main \in Thread /\ Worker \in SUBSET Thread
  BY DEF IInv, Typed, Thread
<1>2. "consumed" \in Conditions /\ "produced" \in Conditions /\ "produced" # "consumed"
  BY DEF Conditions
<1>3. CASE UNCHANGED asleep
  BY <1>1, <1>3 DEF SleepTyped
<1>4. CASE PushFile \/ PushSentinel
  BY <1>1, <1>2, <1>4, WaitIs, SignalIs DEF PushFile, PushSentinel, PushWaits, PushPuts
<1>5. ASSUME NEW w \in Worker, PopFile(w) \/ PopEnd(w)
      PROVE  SleepTyped'
  BY <1>1, <1>2, <1>5, WaitIs, SignalIs DEF PopFile, PopEnd, PopTakes, PopWaits, PopSentinel
<1>6. CASE Wakeup
  BY <1>1, <1>6, WakeIs DEF Wakeup, SpuriousWakeup
<1>7. CASE MainStep
  BY <1>3, <1>4, <1>7 DEF MainStep, Create, ForkFails, ExitFailure, AllCreated, BeginAlone, EndAlone, DoneAlone,
         Pushed, SentinelsPushed, LoopEnds, Join, Exit, queueVars
<1>8. ASSUME NEW w \in Worker, WorkerStep(w)
      PROVE  SleepTyped'
  BY <1>3, <1>5, <1>8 DEF WorkerStep, CurlInit, CurlInitFails, ExitFailure, BeginOwn, Throttle, EndAndReturn, EndAndPop, EndThrottled,
         TakeLock, LoadFailures, StoreFailures, ReleaseLock, PostRunning, queueVars
<1>9. CASE UNCHANGED vars
  BY <1>3, <1>9 DEF vars
<1> QED BY <1>6, <1>7, <1>8, <1>9 DEF Next

LEMMA TypedStays ==
  ASSUME IInv, [Next]_vars
  PROVE  Typed'
<1>1. Moves
  BY StepsAre
<1>2. SetupTyped'
  BY <1>1, SetupStays DEF IInv, Typed, SetupTyped
<1> QED BY <1>1, <1>2, MainTypedStays, WorkerTypedStays, HashTypedStays, SemTypedStays,
           QueueTypedStays, SleepTypedStays DEF Typed

-----------------------------------------------------------------------------
(* Where the threads are.                                                  *)

\* The worker that joins has returned.
LEMMA JoinIs ==
  ASSUME IInv, NEW w \in W, Join(w)
  PROVE  /\ Move(w, "returned", "joined", worker[w].value) /\ worker[w].value \in Nat
         /\ worker[w].value \in {0, 1} /\ main.pc = "join" /\ main.i <= Workforce
         /\ "joined" \in WorkerSteps
<1>1. WorkerTyped /\ w \in Worker
  BY WIs DEF IInv, Typed, SetupTyped
<1>2. worker[w].value \in {0, 1}
  BY DEF IInv, Counted, At, Ended, Join
<1> QED BY <1>1, <1>2, MovesAre DEF Join, InLoop, WorkerSteps

LEMMA LocatedStays ==
  ASSUME IInv, Moves
  PROVE  Located'
<1> DEFINE At1(w, p) == p \in (IF w \in W THEN Places ELSE {"none"})
<1>1. /\ WorkerTyped /\ W \in SUBSET Worker /\ W' = W /\ Places' = Places
      /\ \A w \in Worker : At1(w, worker[w].pc)
  BY WIs, SetupStays DEF IInv, Typed, SetupTyped, Located, Places
<1>2. ASSUME NEW w \in W, NEW from, NEW to \in WorkerSteps, NEW v \in Nat, Move(w, from, to, v),
             to \in Places
      PROVE  \A u \in Worker : At1(u, worker'[u].pc)
  BY <1>1, <1>2, MoveIs
<1>3. \A u \in Worker : At1(u, worker'[u].pc)
  <2>1. CASE worker' = worker
    BY <1>1, <2>1
  <2>2. ASSUME NEW w \in W, WorkerMoves(w)
        PROVE  \A u \in Worker : At1(u, worker'[u].pc)
    <3>1. PICK from, to \in Inner : \E v \in Nat : Move(w, from, to, v) /\ to \in Places
      BY <2>2, SomeMove
    <3> HIDE DEF At1
    <3> QED BY <1>2, <3>1 DEF Inner
  <2>3. ASSUME NEW w \in W, Join(w)
        PROVE  \A u \in Worker : At1(u, worker'[u].pc)
    <3>1. setup.program \notin Alone /\ setup.program \in PerFile \cup Pooled \cup Alone
      BY SetupIs, ProgramIs DEF IInv, Typed, SetupTyped
    <3>2. "joined" \in Places
      BY <3>1 DEF Places, PerFile, Pooled, Alone
    <3> HIDE DEF At1
    <3> QED BY <1>2, <2>3, <3>2, JoinIs
  <2>4. CASE Create
    <3>1. FirstStep \in Places
      <4>1. main.i \in W
        BY <2>4, CreateMoves
      <4>2. setup.program \notin Alone /\ setup.program \in PerFile \cup Pooled \cup Alone
        BY <4>1, SetupIs, ProgramIs DEF IInv, Typed, SetupTyped
      <4> QED BY <4>2 DEF FirstStep, Places, PerFile, Pooled, Alone, Is
    <3> HIDE DEF At1
    <3> QED BY <1>2, <2>4, <3>1, CreateMoves
  <2> HIDE DEF At1
  <2> QED BY <2>1, <2>2, <2>3, <2>4, WorkersKept DEF Moves, MainMoves
<1>4. /\ main'.pc \in {"push", "sentinels"} => setup.program \in Pooled
      /\ main'.status # NULL <=> main'.pc = "exited"
  <2>1. /\ main.pc \in {"push", "sentinels"} => setup.program \in Pooled
        /\ main.status # NULL <=> main.pc = "exited"
    BY DEF IInv, Located
  <2>2. CASE main' = main
    BY <2>1, <2>2
  <2>3. ASSUME NEW n, RoundOfMain(n)
        PROVE  main'.pc = main.pc /\ main'.status = main.status
    BY <2>3 DEF RoundOfMain
  <2>4. ASSUME NEW n, EndOfMain(n)
        PROVE  main'.pc = "exited" /\ main'.status # NULL
    BY <2>4, NullAssumption DEF EndOfMain
  <2>5. CASE Create \/ (\E w \in W : Join(w)) \/ EndAlone \/ PushOneFile \/ PushOneSentinel
    BY <2>1, <2>3, <2>5, MainIs
  <2>6. CASE GivesUp \/ Exit
    BY <2>4, <2>6, MainIs
  <2>7. CASE AllCreated \/ DoneAlone \/ Pushed \/ SentinelsPushed
    BY <2>1, <2>7, MainIs DEF LoopOfMain
  <2> QED BY <2>2, <2>5, <2>6, <2>7, MainKept DEF Moves, MainMoves
<1> QED BY <1>1, <1>3, <1>4, SetupStays DEF Located

-----------------------------------------------------------------------------
(* The progress of main.                                                   *)

\* Between them, a worker is neither created nor joined.
LEMMA AtKept ==
  ASSUME IInv, NEW w \in W, WorkerMoves(w)
  PROVE  /\ \A u \in W : worker'[u].pc = "none" <=> worker[u].pc = "none"
         /\ At({"joined"})' = At({"joined"})
<1>1. WorkerTyped /\ W \in SUBSET Worker /\ SetupTyped /\ Moves
  BY WIs DEF IInv, Typed, SetupTyped, Moves
<1>2. PICK from, to \in Inner : \E v \in Nat : Move(w, from, to, v)
  BY SomeMove
<1>3. \A u \in W : worker'[u].pc = "none" <=> worker[u].pc = "none"
  BY <1>1, <1>2, MoveIs DEF Inner
<1>4. \A u \in W : worker'[u].pc = "joined" <=> worker[u].pc = "joined"
  BY <1>1, <1>2, MoveIs DEF Inner
<1>5. W' = W
  BY <1>1, SetupStays
<1> QED BY <1>3, <1>4, <1>5 DEF At

\* The joined workers are counted.
LEMMA JoinCounts ==
  ASSUME IInv, NEW w \in W, Join(w)
  PROVE  /\ Cardinality(At({"joined"})') = Cardinality(At({"joined"})) + 1
         /\ Cardinality(At({"joined"})) \in Nat
<1>1. WorkerTyped /\ setup \in Setups /\ setup' = setup
  BY DEF IInv, Typed, SetupTyped, Join
<1>2. /\ Move(w, "returned", "joined", worker[w].value) /\ worker[w].value \in Nat
      /\ "joined" \in WorkerSteps
  BY JoinIs
<1>3. Moved(w, "returned", "joined", {"joined"})
  BY <1>1, <1>2, AtMoves
<1> QED BY <1>3 DEF Moved

LEMMA ProgressStays ==
  ASSUME IInv, Moves
  PROVE  Progress'
<1> DEFINE J == At({"joined"})
<1>1. /\ W' = W /\ WorkerTyped /\ W \in SUBSET Worker /\ MainTyped /\ main.i \in Nat \ {0}
      /\ Workforce \in Nat /\ W = 1 .. Workforce
  BY WIs, SetupStays DEF IInv, Typed, SetupTyped, MainTyped, MainType
<1>2. /\ main.pc = "create" => \A w \in W : worker[w].pc = "none" <=> w >= main.i
      /\ main.pc \in {"push", "sentinels", "join"} => \A w \in W : worker[w].pc # "none"
      /\ main.pc \notin {"join", "exited"} => J = {}
      /\ main.pc = "join" => Cardinality(J) = main.i - 1
  BY DEF IInv, Progress
<1>3. CASE main' = main /\ J' = J /\ \A w \in W : worker'[w].pc = "none" <=> worker[w].pc = "none"
  <2> HIDE DEF J
  <2>1. Cardinality(J)' = Cardinality(J)
    BY <1>3
  <2> QED BY <1>1, <1>2, <1>3, <2>1 DEF Progress, J
<1>4. ASSUME worker' = worker
      PROVE  J' = J /\ \A w \in W : worker'[w].pc = "none" <=> worker[w].pc = "none"
  BY <1>1, <1>4 DEF At
<1>5. ASSUME NEW w \in W, WorkerMoves(w) PROVE Progress'
  BY <1>3, <1>5, AtKept, MainKept
<1>6. CASE Rests \/ \E f \in File : BeginAlone(f)
  BY <1>3, <1>4, <1>6, MainKept, WorkersKept
<1>7. CASE Create
  <2>1. main'.pc = "create" /\ main'.i = main.i + 1 /\ main.pc = "create"
    BY <1>7, MainIs DEF RoundOfMain, Create, InLoop
  <2>2. main.i \in Worker /\ \A u \in Worker : u # main.i => worker'[u] = worker[u]
    BY <1>1, <1>7, CreateMoves, MoveIs
  <2>3. worker'[main.i].pc # "none" /\ worker'[main.i].pc = FirstStep
    BY <1>1, <1>7, <2>2, CreateMoves, MoveIs
  <2>4. \A w \in W : worker'[w].pc = "none" <=> w >= main.i + 1
    BY <1>1, <1>2, <2>1, <2>2, <2>3
  <2>5. FirstStep # "joined"
    BY DEF FirstStep
  <2>6. J' = {}
    <3>1. \A w \in W : worker'[w].pc # "joined"
      BY <1>1, <1>2, <2>1, <2>2, <2>3, <2>5 DEF At
    <3> QED BY <1>1, <3>1 DEF At
  <2> QED BY <1>1, <2>1, <2>4, <2>6 DEF Progress
<1>8. CASE GivesUp \/ Exit
  <2>1. main'.pc = "exited"
    BY <1>8, MainIs DEF EndOfMain
  <2> QED BY <2>1 DEF Progress
<1>9. CASE EndAlone
  <2>1. W = {} /\ main'.pc = main.pc /\ main.pc = "create" /\ worker' = worker
    <3>1. hashing[Main] # NULL /\ setup.program \in Alone
      BY <1>9 DEF EndAlone
    <3> QED BY <1>9, <3>1, WIs, MainIs, WorkersKept DEF IInv, Typed, SetupTyped, Exclusive, RoundOfMain
  <2>2. J' = {}
    BY <1>1, <2>1 DEF At
  <2> QED BY <1>1, <2>1, <2>2 DEF Progress
<1>10. CASE PushOneFile \/ PushOneSentinel
  <2>1. main'.pc = main.pc /\ main.pc \in {"push", "sentinels"} /\ worker' = worker
    BY <1>10, MainIs, WorkersKept DEF RoundOfMain, PushOneFile, PushOneSentinel, InLoop
  <2>2. J' = {} /\ \A w \in W : worker'[w].pc # "none"
    BY <1>2, <1>4, <2>1
  <2> QED BY <1>1, <2>1, <2>2 DEF Progress
<1>11. CASE AllCreated \/ DoneAlone \/ Pushed \/ SentinelsPushed
  <2>1. /\ worker' = worker /\ main.pc \in {"create", "push", "sentinels"}
        /\ main'.pc \in {"push", "sentinels", "join"} /\ main'.i = 1
        /\ main.pc = "create" => main.i > Workforce
    <3>1. DoneAlone => Workforce = 0
      BY WIs DEF DoneAlone, IInv, Typed, SetupTyped
    <3>2. /\ AllCreated => main.pc = "create" /\ main.i > Workforce /\ main'.pc \in {"push", "join"}
          /\ DoneAlone => main.pc = "create" /\ main'.pc = "join"
          /\ Pushed => main.pc = "push" /\ main'.pc = "sentinels"
          /\ SentinelsPushed => main.pc = "sentinels" /\ main'.pc = "join"
      BY MainIs DEF LoopOfMain
    <3>3. main'.i = 1 /\ worker' = worker
      BY <1>11, MainIs DEF LoopOfMain
    <3>4. Workforce = 0 => main.i > Workforce
      BY <1>1
    <3> QED BY <1>11, <3>1, <3>2, <3>3, <3>4
  <2>2. J' = {}
    BY <1>2, <1>4, <2>1
  <2>3. \A w \in W : worker'[w].pc # "none"
    BY <1>1, <1>2, <2>1
  <2>4. Cardinality(J)' = main'.i - 1
    BY <2>1, <2>2, FS_EmptySet
  <2> HIDE DEF J
  <2> QED BY <1>1, <2>1, <2>2, <2>3, <2>4 DEF Progress, J
<1>12. ASSUME NEW w \in W, Join(w)
       PROVE  Progress'
  <2>1. main'.pc = "join" /\ main'.i = main.i + 1 /\ main.pc = "join"
    BY <1>12, MainIs, JoinIs DEF RoundOfMain
  <2>2. \A u \in W : worker'[u].pc # "none"
    <3>1. /\ Move(w, "returned", "joined", worker[w].value) /\ worker[w].value \in Nat
          /\ "joined" \in WorkerSteps /\ w \in Worker
      BY <1>1, <1>12, JoinIs
    <3>2. worker'[w].pc = "joined" /\ \A u \in Worker : u # w => worker'[u] = worker[u]
      BY <1>1, <3>1, MoveIs
    <3> QED BY <1>1, <1>2, <2>1, <3>2
  <2>3. Cardinality(J') = main'.i - 1
    <3> HIDE DEF J
    <3>1. Cardinality(J') = Cardinality(J) + 1 /\ Cardinality(J) \in Nat
      BY <1>12, JoinCounts DEF J
    <3> QED BY <1>1, <1>2, <2>1, <3>1
  <2>4. Cardinality(J)' = Cardinality(J')
    OBVIOUS
  <2> HIDE DEF J
  <2> QED BY <1>1, <2>1, <2>2, <2>3, <2>4 DEF Progress, J
<1> QED BY <1>5, <1>6, <1>7, <1>8, <1>9, <1>10, <1>11, <1>12 DEF Moves, MainMoves

-----------------------------------------------------------------------------
(* Who hashes what.                                                        *)

\* In the steps that leave the files alone, nobody arrives at the end of a file or
\* leaves it.
LEMMA EndKept ==
  ASSUME IInv, Moves, HashStays
  PROVE  \A w \in Worker : worker'[w].pc = "end" <=> worker[w].pc = "end"
<1>1. WorkerTyped /\ W \in SUBSET Worker /\ failures \in Nat
  BY WIs DEF IInv, Typed, SetupTyped, SemTyped
<1>2. ASSUME NEW w \in W, NEW from, NEW to \in WorkerSteps, NEW v \in Nat, Move(w, from, to, v),
             from # "end", to # "end"
      PROVE  \A u \in Worker : worker'[u].pc = "end" <=> worker[u].pc = "end"
  <2>1. /\ worker[w].pc = from /\ worker'[w].pc = to
        /\ \A u \in Worker : u # w => worker'[u] = worker[u]
    BY <1>1, <1>2, MoveIs
  <2> QED BY <1>2, <2>1
<1>3. CASE Create
  <2>1. FirstStep # "end"
    BY DEF FirstStep
  <2> QED BY <1>2, <1>3, <2>1, CreateMoves
<1>4. ASSUME NEW w \in W, Join(w)
      PROVE  \A u \in Worker : worker'[u].pc = "end" <=> worker[u].pc = "end"
  BY <1>2, <1>4, JoinIs
<1>5. {"pop", "load", "store", "unlock", "post", "returned"} \subseteq WorkerSteps
  BY DEF WorkerSteps
<1>6. ASSUME NEW w \in W, \/ CurlInit(w) \/ PopEnd(w) \/ TakeLock(w) \/ LoadFailures(w)
                          \/ StoreFailures(w) \/ ReleaseLock(w) \/ PostRunning(w)
      PROVE  \A u \in Worker : worker'[u].pc = "end" <=> worker[u].pc = "end"
  <2>1. worker[w].value \in Nat /\ w \in Worker
    BY <1>1, MovesAre
  <2>2. \/ Move(w, "init", "pop", worker[w].value) \/ Move(w, "pop", "returned", 0)
        \/ Move(w, "lock", "load", worker[w].value)
        \/ Move(w, "load", "store", failures)
        \/ Move(w, "store", "unlock", worker[w].value)
        \/ Move(w, "unlock", "post", worker[w].value)
        \/ Move(w, "post", "returned", 0)
    BY <1>1, <1>6, <2>1, MovesAre
  <2>3. \E from, to \in {"init", "pop", "lock", "load", "store", "unlock", "post", "returned"} :
          \E v \in Nat : Move(w, from, to, v) /\ to \in WorkerSteps
    BY <1>1, <1>5, <2>1, <2>2
  <2> QED BY <1>2, <2>3
<1>7. ASSUME NEW w \in W, BeginOwn(w) \/ Throttle(w) \/ PopOne(w)
      PROVE  FALSE
  BY <1>7, HashIs, FileIs DEF StartsFile, HashStays, IInv, Typed, SetupTyped
<1>8. ASSUME NEW w \in W, EndAndReturn(w) \/ EndAndPop(w) \/ EndThrottled(w)
      PROVE  FALSE
  BY <1>8, HashIs, FileIs DEF EndsFile, HashStays, IInv, Typed, SetupTyped
<1>9. CASE worker' = worker
  BY <1>9
<1> QED BY <1>3, <1>4, <1>6, <1>7, <1>8, <1>9, WorkersKept DEF Moves, MainMoves, WorkerMoves

\* While main is hashing, it does nothing else, and there is no other thread.
LEMMA MainHashes ==
  ASSUME IInv, Moves, hashing[Main] # NULL
  PROVE  EndAlone \/ UNCHANGED <<main, worker, hashing, hashed>>
<1>1. /\ setup.program \in Alone /\ main.pc = "create" /\ main.i <= setup.files
      /\ W = {} /\ Workforce = 0 /\ main.i \in Nat \ {0} /\ setup.files \in Nat
  BY WIs, SetupIs DEF IInv, Exclusive, Typed, SetupTyped, MainTyped, MainType
<1>2. ~ Create /\ ~ GivesUp /\ ~ AllCreated
  BY <1>1 DEF Create, GivesUp, InLoop, AllCreated
<1>3. ~ DoneAlone /\ ~ Pushed /\ ~ SentinelsPushed /\ ~ PushOneFile /\ ~ PushOneSentinel /\ ~ Exit
  BY <1>1 DEF DoneAlone, Pushed, SentinelsPushed, LoopEnds, PushOneFile, PushOneSentinel, InLoop, Exit
<1>4. \A f \in File : ~ BeginAlone(f)
  BY DEF BeginAlone
<1>5. Rests => UNCHANGED <<main, worker, hashing, hashed>>
  BY DEF Rests, hashVars
<1> QED BY <1>1, <1>2, <1>3, <1>4, <1>5 DEF Moves, MainMoves

LEMMA ExclusiveStays ==
  ASSUME IInv, Moves
  PROVE  Exclusive'
<1>1. /\ setup' = setup /\ WorkerTyped /\ W \in SUBSET Worker /\ NULL \notin File
      /\ Main \in Thread /\ Main \notin Worker /\ Worker \in SUBSET Thread
      /\ hashed \in SUBSET File /\ HashTyped
  BY WIs, FileIs, WorkerIs, SetupStays DEF IInv, Typed, SetupTyped, HashTyped
<1>2. /\ \A w \in Worker : hashing[w] # NULL <=> worker[w].pc = "end"
      /\ hashing[Main] # NULL => setup.program \in Alone /\ main.pc = "create" /\ main.i <= setup.files
      /\ \A t, u \in Thread : hashing[t] # NULL /\ hashing[t] = hashing[u] => t = u
      /\ \A t \in Thread : hashing[t] \notin hashed
  BY DEF IInv, Exclusive
<1>3. CASE HashStays
  <2>1. \A w \in Worker : worker'[w].pc = "end" <=> worker[w].pc = "end"
    BY <1>3, EndKept
  <2>2. hashing[Main] # NULL => main' = main
    <3>1. ASSUME EndAlone PROVE FALSE
      BY <1>1, <1>3, <3>1, HashIs DEF EndsFile, HashStays
    <3> QED BY <3>1, MainHashes
  <2> QED BY <1>1, <1>2, <1>3, <2>1, <2>2 DEF Exclusive, HashStays
<1>4. ASSUME NEW t \in Thread, NEW f, StartsFile(t, f),
             \A w \in Worker : worker'[w].pc = "end" <=> worker[w].pc = "end" \/ w = t,
             t = Main => setup.program \in Alone /\ main.pc = "create" /\ main.i <= setup.files,
             main' = main
      PROVE  Exclusive'
  <2>1. /\ f \in File /\ f \notin hashed /\ \A u \in Thread : hashing[u] # f
        /\ hashing'[t] = f /\ \A u \in Thread \ {t} : hashing'[u] = hashing[u]
        /\ hashed' = hashed
    BY <1>4 DEF StartsFile
  <2>2. \A w \in Worker : hashing'[w] # NULL <=> worker'[w].pc = "end"
    BY <1>1, <1>2, <1>4, <2>1
  <2>3. hashing'[Main] # NULL => setup.program \in Alone /\ main.pc = "create" /\ main.i <= setup.files
    BY <1>1, <1>2, <1>4, <2>1
  <2>4. \A s, u \in Thread : hashing'[s] # NULL /\ hashing'[s] = hashing'[u] => s = u
    BY <1>1, <1>2, <2>1
  <2>5. \A s \in Thread : hashing'[s] \notin hashed'
    BY <1>1, <1>2, <2>1
  <2> QED BY <1>1, <1>4, <2>2, <2>3, <2>4, <2>5 DEF Exclusive
<1>5. ASSUME NEW t \in Thread, EndsFile(t),
             \A w \in Worker : worker'[w].pc = "end" <=> worker[w].pc = "end" /\ w # t,
             t # Main => main' = main
      PROVE  Exclusive'
  <2>1. /\ hashing[t] \in File /\ hashing'[t] = NULL
        /\ \A u \in Thread \ {t} : hashing'[u] = hashing[u]
        /\ hashed' = hashed \cup {hashing[t]}
    BY <1>5 DEF EndsFile
  <2>2. \A w \in Worker : hashing'[w] # NULL <=> worker'[w].pc = "end"
    BY <1>1, <1>2, <1>5, <2>1
  <2>3. hashing'[Main] # NULL => setup'.program \in Alone /\ main'.pc = "create" /\ main'.i <= setup'.files
    BY <1>1, <1>2, <1>5, <2>1
  <2>4. \A s, u \in Thread : hashing'[s] # NULL /\ hashing'[s] = hashing'[u] => s = u
    BY <1>1, <1>2, <2>1
  <2>5. \A s \in Thread : hashing'[s] \notin hashed'
    BY <1>1, <1>2, <2>1
  <2> QED BY <2>2, <2>3, <2>4, <2>5 DEF Exclusive
<1>6. "end" \in WorkerSteps /\ "returned" \in WorkerSteps /\ "pop" \in WorkerSteps
      /\ "lock" \in WorkerSteps /\ "post" \in WorkerSteps
  BY DEF WorkerSteps
<1>7. ASSUME NEW w \in W, BeginOwn(w) \/ Throttle(w) \/ PopOne(w)
      PROVE  Exclusive'
  <2>1. worker[w].value \in Nat /\ w \in Worker /\ w \in Thread /\ w # Main
    BY <1>1, MovesAre
  <2>2. \E from \in {"begin", "throttle", "pop"} : Move(w, from, "end", worker[w].value)
    BY <1>1, <1>7, <2>1, MovesAre
  <2>3. \A u \in Worker : worker'[u].pc = "end" <=> worker[u].pc = "end" \/ u = w
    BY <1>1, <1>6, <2>1, <2>2, MoveIs
  <2>4. StartsFile(w, w) \/ StartsFile(w, First)
    BY <1>7, HashIs
  <2>5. main' = main
    BY <1>7, MainKept DEF WorkerMoves
  <2> QED BY <1>4, <2>1, <2>3, <2>4, <2>5
<1>8. ASSUME NEW w \in W, EndAndReturn(w) \/ EndAndPop(w) \/ EndThrottled(w)
      PROVE  Exclusive'
  <2>1. worker[w].value \in Nat /\ w \in Worker /\ w \in Thread /\ w # Main
    BY <1>1, MovesAre
  <2>2. \E to \in {"returned", "pop", "lock", "post"}, v \in Nat : Move(w, "end", to, v)
    BY <1>1, <1>8, <2>1, MovesAre
  <2>3. \A u \in Worker : worker'[u].pc = "end" <=> worker[u].pc = "end" /\ u # w
    <3>1. PICK to \in {"returned", "pop", "lock", "post"}, v \in Nat : Move(w, "end", to, v)
      BY <2>2
    <3>2. WorkerTyped /\ to \in WorkerSteps
      BY <1>1, <1>6
    <3>3. worker'[w].pc = to /\ \A u \in Worker : u # w => worker'[u] = worker[u]
      BY <2>1, <3>1, <3>2, MoveIs
    <3> QED BY <2>1, <3>3
  <2>4. EndsFile(w)
    BY <1>8, HashIs
  <2>5. main' = main
    BY <1>8, MainKept DEF WorkerMoves
  <2> QED BY <1>5, <2>1, <2>3, <2>4, <2>5
<1>9. ASSUME NEW f \in File, BeginAlone(f)
      PROVE  Exclusive'
  <2>1. worker' = worker /\ main' = main /\ StartsFile(Main, f)
    BY <1>9, WorkersKept, MainKept, HashIs
  <2>2. setup.program \in Alone /\ main.pc = "create" /\ main.i <= setup.files
    BY <1>9 DEF BeginAlone, InLoop
  <2>3. \A w \in Worker : worker'[w].pc = "end" <=> worker[w].pc = "end" \/ w = Main
    BY <1>1, <2>1
  <2> QED BY <1>1, <1>4, <2>1, <2>2, <2>3
<1>10. CASE EndAlone
  <2>1. worker' = worker /\ EndsFile(Main)
    BY <1>10, WorkersKept, HashIs
  <2>2. \A w \in Worker : worker'[w].pc = "end" <=> worker[w].pc = "end" /\ w # Main
    BY <1>1, <2>1
  <2> QED BY <1>1, <1>5, <2>1, <2>2
<1>11. CASE MainMoves
  BY <1>3, <1>9, <1>10, <1>11, HashKept DEF MainMoves
<1>12. ASSUME NEW w \in W, WorkerMoves(w)
       PROVE  Exclusive'
  <2>1. CASE \/ CurlInit(w) \/ PopEnd(w) \/ TakeLock(w) \/ LoadFailures(w) \/ StoreFailures(w)
             \/ ReleaseLock(w) \/ PostRunning(w)
    BY <1>3, <2>1, HashKept
  <2> QED BY <1>7, <1>8, <1>12, <2>1 DEF WorkerMoves
<1>13. CASE Rests
  BY <1>3, <1>13, HashKept
<1> QED BY <1>11, <1>12, <1>13 DEF Moves

-----------------------------------------------------------------------------
(* The semaphores.                                                         *)

\* A set with one element at most.
LEMMA AtMostOne ==
  ASSUME NEW S, IsFiniteSet(S), Cardinality(S) <= 1, NEW a \in S, NEW b \in S
  PROVE  a = b
<1>1. Cardinality(S) \in Nat
  BY FS_CardinalityType
<1>2. Cardinality(S) # 0
  BY FS_EmptySet
<1>3. Cardinality(S) = 1
  BY <1>1, <1>2
<1>4. PICK x : S = {x}
  BY <1>3, FS_Singleton
<1> QED BY <1>4

One(P) == IF P THEN 1 ELSE 0

LEMMA SemMoves ==
  ASSUME IInv, setup' = setup, NEW w \in W, NEW from, NEW to \in WorkerSteps, NEW v \in Nat,
         Move(w, from, to, v),
         lock' = lock + One(from \in Locked) - One(to \in Locked),
         running' = IF Is("reading06") THEN running + One(from \in Slot) - One(to \in Slot)
                                       ELSE running,
         to = "store" => v = failures /\ failures' = failures,
         failures' = failures \/ from = "store"
  PROVE  Semaphores'
<1> DEFINE L == At(Locked)
           B == At(Slot)
<1>1. /\ setup \in Setups /\ WorkerTyped /\ W' = W /\ W \in SUBSET Worker
      /\ running \in Nat /\ lock \in Nat /\ setup.threads \in Nat
  BY WIs, SetupIs DEF IInv, Typed, SetupTyped, SemTyped, W
<1>2. /\ lock + Cardinality(L) = 1
      /\ running + (IF Is("reading06") THEN Cardinality(B) ELSE 0) = setup.threads
      /\ \A u \in At({"store"}) : worker[u].value = failures
  BY DEF IInv, Semaphores
<1>3. Moved(w, from, to, Locked)
  BY <1>1, AtMoves
<1>4. Moved(w, from, to, Slot)
  BY <1>1, AtMoves
<1>5. /\ Cardinality(L) \in Nat /\ IsFiniteSet(L)
      /\ w \in L <=> from \in Locked
      /\ Cardinality(L') = Cardinality(L) - One(from \in Locked) + One(to \in Locked)
  BY <1>3 DEF Moved, One
<1>6. /\ Cardinality(B) \in Nat
      /\ Cardinality(B') = Cardinality(B) - One(from \in Slot) + One(to \in Slot)
  BY <1>4 DEF Moved, One
<1>7. lock' + Cardinality(L') = 1
  <2> HIDE DEF L
  <2>1. One(from \in Locked) \in Nat /\ One(to \in Locked) \in Nat
    BY DEF One
  <2> QED BY <1>1, <1>2, <1>5, <2>1
<1>8. running' + (IF Is("reading06") THEN Cardinality(B') ELSE 0) = setup.threads
  <2> HIDE DEF B
  <2>1. One(from \in Slot) \in Nat /\ One(to \in Slot) \in Nat
    BY DEF One
  <2> QED BY <1>1, <1>2, <1>6, <2>1
<1>9. \A u \in At({"store"})' : worker'[u].value = failures'
  <2> SUFFICES ASSUME NEW u \in W, worker'[u].pc = "store"
               PROVE  worker'[u].value = failures'
    BY <1>1 DEF At
  <2>1. /\ worker[w].pc = from /\ worker'[w].pc = to /\ worker'[w].value = v
        /\ \A x \in Worker : x # w => worker'[x] = worker[x]
    BY <1>1, MoveIs
  <2>2. CASE u = w
    BY <2>1, <2>2
  <2>3. CASE u # w
    <3>1. worker'[u] = worker[u] /\ worker[u].pc = "store"
      BY <1>1, <2>1, <2>3
    <3>2. u \in At({"store"}) /\ u \in L
      BY <3>1 DEF At, Locked
    <3>3. from # "store"
      <4> SUFFICES ASSUME from = "store" PROVE FALSE
        OBVIOUS
      <4>1. w \in L
        BY <1>5 DEF Locked
      <4>2. Cardinality(L) <= 1
        <5> HIDE DEF L
        <5> QED BY <1>1, <1>2, <1>5
      <4> HIDE DEF L
      <4> QED BY <1>5, <2>3, <3>2, <4>1, <4>2, AtMostOne
    <3> QED BY <1>2, <3>1, <3>2, <3>3
  <2> QED BY <2>2, <2>3
<1>10. Cardinality(At(Locked))' = Cardinality(L') /\ Cardinality(At(Slot))' = Cardinality(B')
  OBVIOUS
<1> HIDE DEF L, B
<1> QED BY <1>7, <1>8, <1>9, <1>10 DEF Semaphores, Is

\* The step of a worker that does nothing to the semaphores.
LEMMA SemMovesFree ==
  ASSUME IInv, setup' = setup, NEW w \in W, NEW from, NEW to \in WorkerSteps, NEW v \in Nat,
         Move(w, from, to, v), UNCHANGED <<running, lock, failures>>,
         from \notin Locked, to \notin Locked, Is("reading06") => (from \in Slot <=> to \in Slot)
  PROVE  Semaphores'
<1>1. lock \in Nat /\ running \in Nat
  BY DEF IInv, Typed, SemTyped
<1>2. lock' = lock + One(from \in Locked) - One(to \in Locked)
  BY <1>1 DEF One
<1>3. running' = IF Is("reading06") THEN running + One(from \in Slot) - One(to \in Slot)
                                    ELSE running
  BY <1>1 DEF One
<1>4. to # "store"
  BY DEF Locked
<1> QED BY <1>2, <1>3, <1>4, SemMoves

LEMMA SemaphoresStay ==
  ASSUME IInv, Moves
  PROVE  Semaphores'
<1>1. /\ setup' = setup /\ WorkerTyped /\ W \in SUBSET Worker /\ running \in Nat /\ lock \in Nat
      /\ failures \in Nat
  BY WIs, SetupStays DEF IInv, Typed, SetupTyped, SemTyped
<1>2. CASE UNCHANGED <<worker, running, lock, failures>>
  <2>1. \A S : At(S)' = At(S)
    BY <1>1, <1>2, AtStays
  <2>2. Is("reading06")' = Is("reading06")
    BY <1>1 DEF Is
  <2>3. /\ lock + Cardinality(At(Locked)) = 1
        /\ running + (IF Is("reading06") THEN Cardinality(At(Slot)) ELSE 0) = setup.threads
        /\ \A w \in At({"store"}) : worker[w].value = failures
    BY DEF IInv, Semaphores
  <2> QED BY <1>1, <1>2, <2>1, <2>2, <2>3 DEF Semaphores
<1>3. WorkerSteps = {"none", "init", "begin", "throttle", "pop", "end", "lock", "load", "store", "unlock",
                     "post", "returned", "joined"}
  BY DEF WorkerSteps
<1>4. CASE Create
  <2>1. UNCHANGED <<running, lock, failures>>
    BY <1>4 DEF Create, semVars
  <2>2. FirstStep \in {"init", "pop", "throttle", "begin"}
    BY DEF FirstStep
  <2> QED BY <1>1, <1>4, <2>1, <2>2, CreateMoves, SemMovesFree DEF Locked, Slot
<1>5. ASSUME NEW w \in W, Join(w)
      PROVE  Semaphores'
  <2>1. UNCHANGED <<running, lock, failures>>
    BY <1>5 DEF Join, semVars
  <2> QED BY <1>1, <1>5, <2>1, JoinIs, SemMovesFree DEF Locked, Slot
<1>6. ASSUME NEW w \in W, CurlInit(w) \/ BeginOwn(w) \/ PopOne(w) \/ PopEnd(w)
      PROVE  Semaphores'
  <2>1. UNCHANGED <<running, lock, failures>>
    BY <1>6 DEF CurlInit, BeginOwn, PopOne, PopEnd, semVars
  <2>2. ~ Is("reading06")
    BY <1>6, ProgramIs DEF CurlInit, BeginOwn, PopOne, PopEnd, Step, Returns, Is, Pooled
  <2>3. worker[w].value \in Nat /\ w \in Worker
    BY <1>1, MovesAre
  <2>4. \/ Move(w, "begin", "end", worker[w].value) \/ Move(w, "pop", "end", worker[w].value)
        \/ Move(w, "pop", "returned", 0) \/ Move(w, "init", "pop", worker[w].value)
    BY <1>1, <1>6, <2>3, MovesAre
  <2>5. {"init", "begin", "pop", "end", "returned"} \cap Locked = {}
    BY DEF Locked
  <2>6. \E from \in {"init", "begin", "pop"}, to \in {"pop", "end", "returned"}, v \in Nat : Move(w, from, to, v)
    BY <2>3, <2>4
  <2> QED BY <1>1, <1>3, <2>1, <2>2, <2>5, <2>6, SemMovesFree
<1>7. ASSUME NEW w \in W, EndAndReturn(w) \/ EndAndPop(w)
      PROVE  Semaphores'
  <2>1. UNCHANGED <<running, lock, failures>>
    BY <1>7 DEF EndAndReturn, EndAndPop, semVars
  <2>2. ~ Is("reading06")
    BY <1>7 DEF EndAndReturn, EndAndPop, Is
  <2>3. worker[w].value \in Nat /\ w \in Worker
    BY <1>1, MovesAre
  <2>4. \/ Move(w, "end", "returned", 0) \/ Move(w, "end", "returned", 1)
        \/ Move(w, "end", "pop", worker[w].value)
    BY <1>1, <1>7, <2>3, MovesAre
  <2>5. {"end", "returned", "pop"} \cap Locked = {}
    BY DEF Locked
  <2> QED BY <1>1, <1>3, <2>1, <2>2, <2>3, <2>4, <2>5, SemMovesFree
<1>8. ASSUME NEW w \in W, EndThrottled(w)
      PROVE  Semaphores'
  <2>1. UNCHANGED <<running, lock, failures>>
    BY <1>8 DEF EndThrottled, semVars
  <2>2. worker[w].value \in Nat /\ w \in Worker
    BY <1>1, MovesAre
  <2>3. Move(w, "end", "lock", worker[w].value) \/ Move(w, "end", "post", worker[w].value)
    BY <1>1, <1>8, <2>2, MovesAre
  <2>4. {"end", "lock", "post"} \subseteq Slot /\ {"end", "lock", "post"} \cap Locked = {}
    BY DEF Locked, Slot
  <2>5. \A to \in {"lock", "post"} :
          to \in WorkerSteps /\ "end" \in Slot /\ to \in Slot /\ to \notin Locked /\ "end" \notin Locked
    BY <1>3, <2>4
  <2>6. PICK to \in {"lock", "post"} : Move(w, "end", to, worker[w].value)
    BY <2>3
  <2> QED BY <1>1, <2>1, <2>2, <2>5, <2>6, SemMovesFree
<1>9. ASSUME NEW w \in W,
             \/ Throttle(w) \/ TakeLock(w) \/ LoadFailures(w) \/ StoreFailures(w)
             \/ ReleaseLock(w) \/ PostRunning(w)
      PROVE  Semaphores'
  <2>1. Is("reading06")
    BY <1>9, ProgramIs DEF Throttle, TakeLock, LoadFailures, StoreFailures, ReleaseLock,
       PostRunning, Step, Returns, Is
  <2>2. worker[w].value \in Nat /\ w \in Worker
    BY <1>1, MovesAre
  <2> DEFINE Sem(from, to) ==
               /\ lock' = lock + One(from \in Locked) - One(to \in Locked)
               /\ running' = running + One(from \in Slot) - One(to \in Slot)
  <2>3. ASSUME NEW from, NEW to \in WorkerSteps, NEW v \in Nat, Move(w, from, to, v), Sem(from, to),
               to = "store" => v = failures /\ failures' = failures,
               failures' = failures \/ from = "store"
        PROVE  Semaphores'
    BY <1>1, <2>1, <2>3, SemMoves
  <2>4. CASE Throttle(w)
    <3>1. Sem("throttle", "end") /\ failures' = failures
      BY <1>1, <2>4 DEF Throttle, One, Locked, Slot
    <3> HIDE DEF Sem
    <3> QED BY <1>1, <1>3, <2>2, <2>3, <2>4, <3>1, MovesAre
  <2>5. CASE TakeLock(w)
    <3>1. Sem("lock", "load") /\ failures' = failures
      BY <1>1, <2>5 DEF TakeLock, One, Locked, Slot
    <3> HIDE DEF Sem
    <3> QED BY <1>1, <1>3, <2>2, <2>3, <2>5, <3>1, MovesAre
  <2>6. CASE LoadFailures(w)
    <3>1. Sem("load", "store") /\ failures' = failures
      BY <1>1, <2>6 DEF LoadFailures, One, Locked, Slot, semVars
    <3> HIDE DEF Sem
    <3> QED BY <1>1, <1>3, <2>2, <2>3, <2>6, <3>1, MovesAre
  <2>7. CASE StoreFailures(w)
    <3>1. Sem("store", "unlock")
      BY <1>1, <2>7 DEF StoreFailures, One, Locked, Slot
    <3> HIDE DEF Sem
    <3> QED BY <1>1, <1>3, <2>2, <2>3, <2>7, <3>1, MovesAre
  <2>8. CASE ReleaseLock(w)
    <3>1. Sem("unlock", "post") /\ failures' = failures
      BY <1>1, <2>8 DEF ReleaseLock, One, Locked, Slot
    <3> HIDE DEF Sem
    <3> QED BY <1>1, <1>3, <2>2, <2>3, <2>8, <3>1, MovesAre
  <2>9. CASE PostRunning(w)
    <3>1. Sem("post", "returned") /\ failures' = failures
      BY <1>1, <2>9 DEF PostRunning, One, Locked, Slot
    <3> HIDE DEF Sem
    <3> QED BY <1>1, <1>3, <2>2, <2>3, <2>9, <3>1, MovesAre
  <2> QED BY <1>9, <2>4, <2>5, <2>6, <2>7, <2>8, <2>9
<1>10. CASE MainMoves
  <2>1. CASE Create \/ \E w \in W : Join(w)
    BY <1>4, <1>5, <2>1
  <2>2. CASE ~ Create /\ ~ \E w \in W : Join(w)
    BY <1>2, <1>10, <2>2 DEF MainMoves, GivesUp, ExitFailure, AllCreated, BeginAlone, EndAlone, DoneAlone,
       PushOneFile, PushOne, Pushed, PushOneSentinel, SentinelsPushed, LoopEnds, Exit, semVars
  <2> QED BY <2>1, <2>2
<1>11. CASE Rests
  BY <1>2, <1>11 DEF Rests, semVars
<1> QED BY <1>6, <1>7, <1>8, <1>9, <1>10, <1>11 DEF Moves, WorkerMoves

-----------------------------------------------------------------------------
(* The failures.                                                           *)

\* A set that an element enters or leaves.
LEMMA SetChanges ==
  ASSUME NEW S, IsFiniteSet(S), NEW w, NEW P \in BOOLEAN, NEW T,
         T = IF P THEN S \cup {w} ELSE S \ {w}
  PROVE  Cardinality(T) = Cardinality(S) - One(w \in S) + One(P)
<1>1. Cardinality(S) \in Nat
  BY FS_CardinalityType
<1>2. Cardinality(S \cup {w}) = IF w \in S THEN Cardinality(S) ELSE Cardinality(S) + 1
  BY FS_AddElement
<1>3. Cardinality(S \ {w}) = IF w \in S THEN Cardinality(S) - 1 ELSE Cardinality(S)
  BY FS_RemoveElement
<1> QED BY <1>1, <1>2, <1>3 DEF One

\* How the workers at a set of steps that say so change.
FailingMoved(w, from, to, v, S) ==
  Cardinality(Failing(S)') = Cardinality(Failing(S)) - One(from \in S /\ worker[w].value = 1)
                                                     + One(to \in S /\ v = 1)

LEMMA FailingIs ==
  ASSUME setup \in Setups, NEW S
  PROVE  Failing(S) \in SUBSET W /\ IsFiniteSet(Failing(S)) /\ Cardinality(Failing(S)) \in Nat
<1>1. IsFiniteSet(W) /\ Failing(S) \in SUBSET W
  BY WIs DEF Failing, At
<1> QED BY <1>1, FS_Subset, FS_CardinalityType

LEMMA FailingMoves ==
  ASSUME setup \in Setups, setup' = setup, WorkerTyped, NEW w \in W,
         NEW from, NEW to \in WorkerSteps, NEW v \in Nat, Move(w, from, to, v), NEW S
  PROVE  FailingMoved(w, from, to, v, S)
<1> DEFINE F == Failing(S)
           G == {u \in W : worker'[u].pc \in S /\ worker'[u].value = 1}
<1>1. W \in SUBSET Worker /\ W' = W
  BY WIs DEF W
<1>2. /\ worker[w].pc = from /\ worker'[w].pc = to /\ worker'[w].value = v
      /\ \A u \in Worker : u # w => worker'[u] = worker[u]
  BY <1>1, MoveIs
<1>3. Failing(S)' = G
  BY <1>1 DEF Failing, At
<1>4. w \in F <=> from \in S /\ worker[w].value = 1
  BY <1>2 DEF Failing, At
<1>5. F = {u \in W : worker[u].pc \in S /\ worker[u].value = 1}
  BY DEF Failing, At
<1>6. \A u \in W : u # w => (u \in G <=> u \in F)
  BY <1>1, <1>2, <1>5
<1>7. w \in G <=> to \in S /\ v = 1
  BY <1>2
<1>8. F \in SUBSET W /\ G \in SUBSET W
  BY <1>5
<1>9. G = IF to \in S /\ v = 1 THEN F \cup {w} ELSE F \ {w}
  <2> HIDE DEF F, G
  <2>1. CASE to \in S /\ v = 1
    <3>1. \A u : u \in G <=> u \in F \cup {w}
      BY <1>6, <1>7, <1>8, <2>1
    <3> QED BY <2>1, <3>1
  <2>2. CASE ~ (to \in S /\ v = 1)
    <3>1. \A u : u \in G <=> u \in F \ {w}
      BY <1>6, <1>7, <1>8, <2>2
    <3> QED BY <2>2, <3>1
  <2> QED BY <2>1, <2>2
<1>10. IsFiniteSet(F)
  BY FailingIs
<1>11. Cardinality(G) = Cardinality(F) - One(w \in F) + One(to \in S /\ v = 1)
  <2> HIDE DEF F, G
  <2> QED BY <1>9, <1>10, SetChanges
<1>12. One(w \in F) = One(from \in S /\ worker[w].value = 1)
  BY <1>4 DEF One
<1> HIDE DEF G
<1> QED BY <1>3, <1>11, <1>12 DEF FailingMoved

\* A file that ends may be one of those that fail.
LEMMA FailedFilesIs ==
  ASSUME SetupTyped, HashTyped
  PROVE  FailedFiles \in SUBSET File /\ IsFiniteSet(FailedFiles) /\ Cardinality(FailedFiles) \in Nat
<1>1. FailedFiles \in SUBSET File
  BY DEF FailedFiles, SetupTyped, HashTyped
<1> QED BY <1>1, FileIs DEF SetupTyped

LEMMA FailedFilesGrow ==
  ASSUME SetupTyped, HashTyped, bad' = bad, NEW t, EndsFile(t)
  PROVE  Cardinality(FailedFiles') = Cardinality(FailedFiles) + One(hashing[t] \in bad)
<1> DEFINE f == hashing[t]
<1>1. f \notin FailedFiles /\ hashed' = hashed \cup {f}
  BY DEF EndsFile, FailedFiles
<1>2. FailedFiles' = IF f \in bad THEN FailedFiles \cup {f} ELSE FailedFiles
  BY <1>1 DEF FailedFiles
<1>3. IsFiniteSet(FailedFiles) /\ Cardinality(FailedFiles) \in Nat
  BY FailedFilesIs
<1>4. Cardinality(FailedFiles \cup {f}) = Cardinality(FailedFiles) + 1
  BY <1>1, <1>3, FS_AddElement
<1> QED BY <1>2, <1>3, <1>4 DEF One

LEMMA FailedFilesStay ==
  ASSUME bad' = bad, hashed' = hashed
  PROVE  Cardinality(FailedFiles') = Cardinality(FailedFiles) /\ FailedFiles' = FailedFiles
  BY DEF FailedFiles

\* The books of a step in which the worker w moves and e files fail.
Books(w, from, to, v, e) ==
  /\ to \in Ended => v \in {0, 1}
  /\ Cardinality(FailedFiles') = Cardinality(FailedFiles) + e
  /\ setup.program \in {"reading03", "reading04", "reading05"} =>
       One(to \in Ended /\ v = 1) = One(from \in Ended /\ worker[w].value = 1) + e
  /\ setup.program \in {"reading06", "exam02"} => ~ (to \in Ended /\ v = 1)
  /\ Is("reading06") => failures' + One(to \in Counts) = failures + One(from \in Counts) + e
  /\ main'.failures = main.failures + One(to = "joined" /\ v = 1)
                                    - One(from = "joined" /\ worker[w].value = 1)
  /\ failures' \in Nat

LEMMA CountedMoves ==
  ASSUME IInv, UNCHANGED <<setup, bad>>, NEW w \in W, NEW from, NEW to \in WorkerSteps, NEW v \in Nat,
         Move(w, from, to, v), NEW e \in Nat, Books(w, from, to, v, e)
  PROVE  Counted'
<1> DEFINE F == Failing(Ended)
           J == Failing({"joined"})
           C == At(Counts)
           X == FailedFiles
<1>1. /\ setup \in Setups /\ setup' = setup /\ WorkerTyped /\ W' = W /\ W \in SUBSET Worker
      /\ main.failures \in Nat /\ failures \in Nat /\ SetupTyped /\ HashTyped
  BY WIs DEF IInv, Typed, SetupTyped, SemTyped, W, MainTyped, MainType
<1>2. /\ worker[w].pc = from /\ worker'[w].pc = to /\ worker'[w].value = v
      /\ \A u \in Worker : u # w => worker'[u] = worker[u]
  BY <1>1, MoveIs
<1>3. \A u \in At(Ended)' : worker'[u].value \in {0, 1}
  <2> SUFFICES ASSUME NEW u \in W, worker'[u].pc \in Ended
               PROVE  worker'[u].value \in {0, 1}
    BY <1>1 DEF At
  <2>1. CASE u = w
    BY <1>2, <2>1 DEF Books
  <2>2. CASE u # w
    <3>1. worker'[u] = worker[u]
      BY <1>1, <1>2, <2>2
    <3> QED BY <3>1 DEF IInv, Counted, At
  <2> QED BY <2>1, <2>2
<1>4. Cardinality(F') = Cardinality(F) - One(from \in Ended /\ worker[w].value = 1)
                                       + One(to \in Ended /\ v = 1)
  <2>1. FailingMoved(w, from, to, v, Ended)
    BY <1>1, FailingMoves
  <2> QED BY <2>1 DEF FailingMoved
<1>5. Cardinality(J') = Cardinality(J) - One(from = "joined" /\ worker[w].value = 1)
                                       + One(to = "joined" /\ v = 1)
  <2>1. FailingMoved(w, from, to, v, {"joined"})
    BY <1>1, FailingMoves
  <2>2. (from \in {"joined"} <=> from = "joined") /\ (to \in {"joined"} <=> to = "joined")
    OBVIOUS
  <2> QED BY <2>1, <2>2 DEF FailingMoved
<1>6. Cardinality(C') = Cardinality(C) - One(from \in Counts) + One(to \in Counts)
  <2>1. Moved(w, from, to, Counts)
    BY <1>1, AtMoves
  <2> QED BY <2>1 DEF Moved, One
<1>7. /\ Cardinality(F) \in Nat /\ Cardinality(J) \in Nat /\ Cardinality(X) \in Nat
      /\ Cardinality(C) \in Nat
  <2>1. Moved(w, from, to, Counts)
    BY <1>1, AtMoves
  <2>2. Cardinality(C) \in Nat
    BY <2>1 DEF Moved
  <2>3. Cardinality(F) \in Nat /\ Cardinality(J) \in Nat
    BY <1>1, FailingIs
  <2>4. Cardinality(X) \in Nat
    BY <1>1, FailedFilesIs
  <2> QED BY <2>2, <2>3, <2>4
<1>8. /\ One(from \in Ended /\ worker[w].value = 1) \in Nat /\ One(to \in Ended /\ v = 1) \in Nat
      /\ One(from = "joined" /\ worker[w].value = 1) \in Nat /\ One(to = "joined" /\ v = 1) \in Nat
      /\ One(from \in Counts) \in Nat /\ One(to \in Counts) \in Nat
  BY DEF One
<1>9. setup.program \notin Alone
  BY ProgramIs
<1>10. setup.program \in {"reading03", "reading04", "reading05"} => Cardinality(F') = Cardinality(X')
  <2>1. setup.program \in {"reading03", "reading04", "reading05"} => Cardinality(F) = Cardinality(X)
    BY DEF IInv, Counted
  <2> HIDE DEF F, X
  <2>2. /\ Cardinality(X') = Cardinality(X) + e
        /\ setup.program \in {"reading03", "reading04", "reading05"} =>
             One(to \in Ended /\ v = 1) = One(from \in Ended /\ worker[w].value = 1) + e
    BY DEF Books, X
  <2> QED BY <1>4, <1>7, <1>8, <2>1, <2>2
<1>11. setup.program \in {"reading06", "exam02"} => F' = {}
  <2> SUFFICES ASSUME setup.program \in {"reading06", "exam02"}, NEW u \in W,
                      worker'[u].pc \in Ended, worker'[u].value = 1
               PROVE  FALSE
    BY <1>1 DEF Failing, At
  <2>1. u # w
    BY <1>2 DEF Books
  <2>2. u \in F
    BY <1>1, <1>2, <2>1 DEF Failing, At
  <2>3. F = {}
    BY DEF IInv, Counted
  <2> QED BY <2>2, <2>3
<1>12. Is("reading06") => failures' + Cardinality(C') = Cardinality(X')
  <2>1. Is("reading06") => failures + Cardinality(C) = Cardinality(X)
    BY DEF IInv, Counted
  <2> HIDE DEF C, X
  <2>2. /\ Cardinality(X') = Cardinality(X) + e /\ failures' \in Nat
        /\ Is("reading06") => failures' + One(to \in Counts) = failures + One(from \in Counts) + e
    BY DEF Books, X
  <2> QED BY <1>1, <1>6, <1>7, <1>8, <2>1, <2>2
<1>13. main'.failures = Cardinality(J')
  <2>1. main.failures = Cardinality(J)
    BY <1>9 DEF IInv, Counted
  <2>2. main'.failures = main.failures + One(to = "joined" /\ v = 1)
                                       - One(from = "joined" /\ worker[w].value = 1)
    BY DEF Books
  <2> HIDE DEF J
  <2> QED BY <1>1, <1>5, <1>7, <1>8, <2>1, <2>2
<1>14. /\ Cardinality(Failing(Ended))' = Cardinality(F') /\ Cardinality(FailedFiles)' = Cardinality(X')
       /\ Cardinality(Failing({"joined"}))' = Cardinality(J') /\ Cardinality(At(Counts))' = Cardinality(C')
       /\ Failing(Ended)' = F'
  OBVIOUS
<1> HIDE DEF F, J, C, X
<1> QED BY <1>1, <1>3, <1>9, <1>10, <1>11, <1>12, <1>13, <1>14 DEF Counted, Is

\* A step of a worker that brings no new failure.
LEMMA CountedMovesFree ==
  ASSUME IInv, UNCHANGED <<setup, bad, main, hashed>>, NEW w \in W,
         NEW from, NEW to \in WorkerSteps, NEW v \in Nat, Move(w, from, to, v),
         from \notin Ended, to \in Ended => v = 0,
         Is("reading06") => failures' + One(to \in Counts) = failures + One(from \in Counts),
         failures' \in Nat
  PROVE  Counted'
<1>1. Cardinality(FailedFiles') = Cardinality(FailedFiles) + 0
  <2>1. SetupTyped /\ HashTyped
    BY DEF IInv, Typed
  <2>2. Cardinality(FailedFiles) \in Nat
    BY <2>1, FailedFilesIs
  <2> QED BY <2>2, FailedFilesStay
<1>2. main.failures \in Nat /\ failures \in Nat
  BY DEF IInv, Typed, MainTyped, MainType, SemTyped
<1>3. One(to \in Ended /\ v = 1) = One(from \in Ended /\ worker[w].value = 1) + 0
  BY DEF One
<1>4. main'.failures = main.failures + One(to = "joined" /\ v = 1)
                                     - One(from = "joined" /\ worker[w].value = 1)
  BY <1>2 DEF One, Ended
<1>5. ~ (to \in Ended /\ v = 1)
  OBVIOUS
<1>6. One(from \in Counts) \in Nat
  BY DEF One
<1>7. Is("reading06") => failures' + One(to \in Counts) = failures + One(from \in Counts) + 0
  BY <1>2, <1>6
<1>8. setup' = setup /\ bad' = bad
  OBVIOUS
<1>9. to \in Ended => v \in {0, 1}
  OBVIOUS
<1> DEFINE e == 0
<1>10. e \in Nat
  OBVIOUS
<1>11. /\ Cardinality(FailedFiles') = Cardinality(FailedFiles) + e
       /\ One(to \in Ended /\ v = 1) = One(from \in Ended /\ worker[w].value = 1) + e
       /\ Is("reading06") => failures' + One(to \in Counts) = failures + One(from \in Counts) + e
  BY <1>1, <1>3, <1>7
<1>12. Books(w, from, to, v, e)
  BY <1>4, <1>5, <1>9, <1>11 DEF Books
<1> HIDE DEF e
<1> QED BY <1>8, <1>10, <1>12, CountedMoves

\* A worker is at the end of a file.
LEMMA CountedEnds ==
  ASSUME IInv, Moves, NEW w \in W, EndAndReturn(w) \/ EndAndPop(w) \/ EndThrottled(w)
  PROVE  Counted'
<1>1. /\ UNCHANGED <<setup, bad, main, failures>> /\ EndsFile(w) /\ WorkerTyped /\ w \in Worker
      /\ SetupTyped /\ HashTyped /\ main.failures \in Nat /\ failures \in Nat
  BY WIs, HashIs, SetupStays DEF EndAndReturn, EndAndPop, EndThrottled, semVars, IInv, Typed,
     SetupTyped, MainTyped, MainType, SemTyped
<1>2. Cardinality(FailedFiles') = Cardinality(FailedFiles) + One(Failed(w))
  BY <1>1, FailedFilesGrow DEF Failed
<1>3. worker[w].value \in Nat /\ One(Failed(w)) \in Nat /\ One(Failed(w)) \in {0, 1}
  BY <1>1, MovesAre DEF One
<1>4. /\ {"returned", "pop", "lock", "post"} \subseteq WorkerSteps
      /\ "returned" \in Ended /\ {"end", "pop", "lock", "post"} \cap Ended = {}
      /\ "lock" \in Counts /\ {"end", "post", "pop", "returned"} \cap Counts = {}
  BY DEF WorkerSteps, Ended, Counts
<1>5. main'.failures = main.failures + 0 - 0
  BY <1>1
<1>6. One(FALSE) = 0 /\ One(TRUE) = 1
  BY DEF One
<1>7. CASE EndAndReturn(w)
  <2> DEFINE v == One(Failed(w))
  <2>1. Move(w, "end", "returned", v)
    BY <1>1, <1>7, MovesAre DEF One
  <2>2. /\ One("returned" \in Ended /\ v = 1) = v /\ One("end" \in Ended /\ worker[w].value = 1) = 0
        /\ One("returned" = "joined" /\ v = 1) = 0 /\ One("end" = "joined" /\ worker[w].value = 1) = 0
    BY <1>4 DEF One
  <2>3. setup.program \in {"reading03", "reading04", "reading05"}
    BY <1>7 DEF EndAndReturn, Is
  <2>4. v \in Nat /\ v \in {0, 1} /\ v = 0 + v
    BY <1>3
  <2>5. "returned" \in WorkerSteps
    BY <1>4
  <2> HIDE DEF v
  <2>6. Cardinality(FailedFiles') = Cardinality(FailedFiles) + v
    BY <1>2 DEF v
  <2>7. ~ Is("reading06") /\ setup.program \notin {"reading06", "exam02"}
    BY <2>3 DEF Is
  <2>8. main'.failures = main.failures + One("returned" = "joined" /\ v = 1)
                                       - One("end" = "joined" /\ worker[w].value = 1)
    BY <1>5, <2>2
  <2>9. One("returned" \in Ended /\ v = 1) = One("end" \in Ended /\ worker[w].value = 1) + v
    BY <2>2, <2>4
  <2>10. Books(w, "end", "returned", v, v)
    BY <1>1, <2>4, <2>6, <2>7, <2>8, <2>9 DEF Books
  <2> QED BY <1>1, <2>1, <2>4, <2>5, <2>10, CountedMoves
<1>8. CASE EndAndPop(w)
  <2> DEFINE v == worker[w].value
             e == One(Failed(w))
  <2>1. Move(w, "end", "pop", v)
    BY <1>1, <1>8, MovesAre
  <2>2. One("pop" \in Ended /\ v = 1) = 0 /\ One("end" \in Ended /\ worker[w].value = 1) = 0
    BY <1>4 DEF One
  <2>3. One("pop" = "joined" /\ v = 1) = 0 /\ One("end" = "joined" /\ worker[w].value = 1) = 0
    BY DEF One
  <2>4. setup.program \in {"reading03", "reading04", "reading05"} => e = 0
    BY <1>8 DEF EndAndPop, Is, One
  <2>5. ~ Is("reading06") /\ "pop" \in WorkerSteps /\ "pop" \notin Ended
    BY <1>4, <1>8 DEF EndAndPop, Is
  <2>6. v \in Nat /\ e \in Nat
    BY <1>3
  <2>7. Cardinality(FailedFiles') = Cardinality(FailedFiles) + e
    BY <1>2
  <2> HIDE DEF v, e
  <2>8. setup.program \in {"reading03", "reading04", "reading05"} =>
          One("pop" \in Ended /\ v = 1) = One("end" \in Ended /\ worker[w].value = 1) + e
    BY <2>2, <2>4
  <2>9. main'.failures = main.failures + One("pop" = "joined" /\ v = 1)
                                       - One("end" = "joined" /\ worker[w].value = 1)
    BY <1>5, <2>3
  <2>10. /\ "pop" \in Ended => v \in {0, 1}
         /\ ~ ("pop" \in Ended /\ v = 1)
         /\ Is("reading06") => failures' + One("pop" \in Counts) = failures + One("end" \in Counts) + e
         /\ "pop" \in WorkerSteps
    BY <2>5
  <2>11. setup' = setup /\ bad' = bad /\ failures' \in Nat
    BY <1>1
  <2>12. Books(w, "end", "pop", v, e)
    BY <2>7, <2>8, <2>9, <2>10, <2>11 DEF Books
  <2> QED BY <2>1, <2>6, <2>10, <2>11, <2>12, CountedMoves
<1>9. CASE EndThrottled(w)
  <2> DEFINE v == worker[w].value
             e == One(Failed(w))
             to == IF Failed(w) THEN "lock" ELSE "post"
  <2>1. Move(w, "end", to, v)
    BY <1>1, <1>9, MovesAre
  <2>2. to \in WorkerSteps /\ to \notin Ended /\ to # "joined"
    BY <1>4
  <2>3. One(to \in Counts) = e /\ One("end" \in Counts) = 0
    BY <1>4 DEF One
  <2>4. setup.program = "reading06" /\ setup.program \notin {"reading03", "reading04", "reading05"}
    BY <1>9 DEF EndThrottled, Is
  <2>5. v \in Nat /\ e \in Nat
    BY <1>3
  <2>6. Cardinality(FailedFiles') = Cardinality(FailedFiles) + e
    BY <1>2
  <2> HIDE DEF v, e, to
  <2>7. failures' + One(to \in Counts) = failures + One("end" \in Counts) + e
    BY <1>1, <2>3, <2>5
  <2>8. One(to = "joined" /\ v = 1) = 0 /\ One("end" = "joined" /\ worker[w].value = 1) = 0
    BY <2>2 DEF One
  <2>9. main'.failures = main.failures + One(to = "joined" /\ v = 1)
                                       - One("end" = "joined" /\ worker[w].value = 1)
    BY <1>5, <2>8
  <2>10. Books(w, "end", to, v, e)
    BY <1>1, <2>2, <2>4, <2>6, <2>7, <2>9 DEF Books
  <2> QED BY <1>1, <2>1, <2>2, <2>5, <2>10, CountedMoves
<1> QED BY <1>7, <1>8, <1>9

\* A worker is joined.
LEMMA CountedJoins ==
  ASSUME IInv, Moves, NEW w \in W, Join(w)
  PROVE  Counted'
<1> DEFINE v == worker[w].value
<1>1. /\ UNCHANGED <<setup, bad, failures, hashed>> /\ SetupTyped /\ HashTyped
      /\ main.failures \in Nat /\ failures \in Nat
  BY SetupStays DEF Join, semVars, hashVars, IInv, Typed, MainTyped, MainType, SemTyped
<1>2. /\ Move(w, "returned", "joined", v) /\ v \in Nat /\ v \in {0, 1} /\ "joined" \in WorkerSteps
      /\ main'.failures = main.failures + v
  BY JoinIs, MainIs DEF RoundOfMain
<1>3. {"returned", "joined"} \subseteq Ended /\ {"returned", "joined"} \cap Counts = {}
  BY DEF Ended, Counts
<1>4. /\ One("joined" \in Ended /\ v = 1) = v /\ One("returned" \in Ended /\ v = 1) = v
      /\ One("joined" = "joined" /\ v = 1) = v /\ One("returned" = "joined" /\ v = 1) = 0
      /\ One("joined" \in Counts) = 0 /\ One("returned" \in Counts) = 0
  BY <1>2, <1>3 DEF One
<1>5. Cardinality(FailedFiles') = Cardinality(FailedFiles) + 0
  <2>1. Cardinality(FailedFiles) \in Nat
    BY <1>1, FailedFilesIs
  <2> QED BY <1>1, <2>1, FailedFilesStay
<1>6. setup.program \in {"reading06", "exam02"} => ~ ("joined" \in Ended /\ v = 1)
  <2> SUFFICES ASSUME setup.program \in {"reading06", "exam02"}, v = 1 PROVE FALSE
    OBVIOUS
  <2>1. w \in Failing(Ended)
    BY <1>3 DEF Failing, At, Join
  <2>2. Failing(Ended) = {}
    BY DEF IInv, Counted
  <2> QED BY <2>1, <2>2
<1> HIDE DEF v
<1>7. main'.failures = main.failures + One("joined" = "joined" /\ v = 1)
                                     - One("returned" = "joined" /\ v = 1)
  BY <1>1, <1>2, <1>4
<1>8. One("joined" \in Ended /\ v = 1) = One("returned" \in Ended /\ v = 1) + 0
  BY <1>2, <1>4
<1>9. failures' + One("joined" \in Counts) = failures + One("returned" \in Counts) + 0
  BY <1>1, <1>4
<1>10. 0 \in Nat /\ failures' \in Nat /\ setup' = setup /\ bad' = bad
  BY <1>1
<1>11. Books(w, "returned", "joined", v, 0)
  BY <1>2, <1>5, <1>6, <1>7, <1>8, <1>9, <1>10 DEF Books, v
<1> QED BY <1>2, <1>10, <1>11, CountedMoves

LEMMA CountedStays ==
  ASSUME IInv, Moves
  PROVE  Counted'
<1>1. /\ setup' = setup /\ bad' = bad /\ WorkerTyped /\ W \in SUBSET Worker /\ W' = W
      /\ failures \in Nat /\ SetupTyped /\ HashTyped /\ main.failures \in Nat
  BY WIs, SetupStays DEF IInv, Typed, SetupTyped, SemTyped, MainTyped, MainType
<1>2. CASE worker' = worker /\ hashed' = hashed /\ failures' = failures /\ main'.failures = main.failures
  <2>1. \A S : At(S)' = At(S)
    BY <1>1, <1>2, AtStays
  <2>2. \A S : Failing(S)' = Failing(S)
    BY <1>1, <1>2 DEF Failing, At
  <2>3. FailedFiles' = FailedFiles
    BY <1>1, <1>2 DEF FailedFiles
  <2>4. Is("reading06")' = Is("reading06")
    BY <1>1 DEF Is
  <2> QED BY <1>1, <1>2, <2>1, <2>2, <2>3, <2>4 DEF Counted, IInv
<1>3. WorkerSteps = {"none", "init", "begin", "throttle", "pop", "end", "lock", "load", "store", "unlock",
                     "post", "returned", "joined"}
  BY DEF WorkerSteps
<1>4. CASE Create
  <2>1. UNCHANGED <<failures, hashed>> /\ main'.failures = main.failures + 0
    BY <1>4, MainIs DEF Create, semVars, hashVars, RoundOfMain
  <2>2. FirstStep \in {"init", "pop", "throttle", "begin"} /\ FirstStep \in WorkerSteps
    BY <1>3 DEF FirstStep
  <2>3. main'.failures = main.failures
    BY <1>1, <2>1
  <2>4. FirstStep \notin Ended /\ FirstStep \notin Counts /\ FirstStep # "joined"
        /\ "none" \notin Ended /\ "none" \notin Counts
    BY <2>2 DEF Ended, Counts
  <2> DEFINE w == main.i
             v == worker[main.i].value
             to == FirstStep
  <2>5. /\ w \in W /\ Move(w, "none", to, v) /\ v \in Nat
    BY <1>4, CreateMoves
  <2>6. Cardinality(FailedFiles') = Cardinality(FailedFiles) + 0
    <3>1. Cardinality(FailedFiles) \in Nat
      BY <1>1, FailedFilesIs
    <3> QED BY <1>1, <2>1, <3>1, FailedFilesStay
  <2> HIDE DEF w, v, to
  <2>7. /\ to \in WorkerSteps /\ to \notin Ended /\ to \notin Counts /\ to # "joined"
    BY <2>2, <2>4 DEF to
  <2>8. /\ One(to \in Ended /\ v = 1) = 0 /\ One("none" \in Ended /\ worker[w].value = 1) = 0
        /\ One(to = "joined" /\ v = 1) = 0 /\ One("none" = "joined" /\ worker[w].value = 1) = 0
        /\ One(to \in Counts) = 0 /\ One("none" \in Counts) = 0
    BY <2>4, <2>7 DEF One
  <2>9. main'.failures = main.failures + One(to = "joined" /\ v = 1)
                                       - One("none" = "joined" /\ worker[w].value = 1)
    BY <1>1, <2>3, <2>8
  <2>10. One(to \in Ended /\ v = 1) = One("none" \in Ended /\ worker[w].value = 1) + 0
    BY <2>8
  <2>11. failures' + One(to \in Counts) = failures + One("none" \in Counts) + 0
    BY <1>1, <2>1, <2>8
  <2>12. failures' \in Nat /\ 0 \in Nat
    BY <1>1, <2>1
  <2>13. Books(w, "none", to, v, 0)
    BY <2>6, <2>7, <2>9, <2>10, <2>11, <2>12 DEF Books
  <2> QED BY <1>1, <2>5, <2>7, <2>12, <2>13, CountedMoves
<1>5. ASSUME NEW w \in W,
             \/ CurlInit(w) \/ BeginOwn(w) \/ Throttle(w) \/ PopOne(w) \/ PopEnd(w)
             \/ TakeLock(w) \/ LoadFailures(w) \/ ReleaseLock(w) \/ PostRunning(w)
      PROVE  Counted'
  <2>1. UNCHANGED <<main, failures>>
    BY <1>5 DEF CurlInit, BeginOwn, Throttle, PopOne, PopEnd, TakeLock, LoadFailures, ReleaseLock, PostRunning, semVars
  <2>2. hashed' = hashed
    BY <1>5 DEF CurlInit, BeginOwn, Throttle, PopOne, PopEnd, TakeLock, LoadFailures, ReleaseLock, PostRunning,
       Begin, hashVars
  <2>3. worker[w].value \in Nat /\ w \in Worker
    BY <1>1, MovesAre
  <2>4. ASSUME NEW from, NEW to \in WorkerSteps, NEW v \in Nat, Move(w, from, to, v),
               from \notin Ended, to \in Ended => v = 0, from \in Counts <=> to \in Counts
        PROVE  Counted'
    <3>1. failures' + One(to \in Counts) = failures + One(from \in Counts)
      BY <1>1, <2>1, <2>4 DEF One
    <3> QED BY <1>1, <2>1, <2>2, <2>4, <3>1, CountedMovesFree
  <2>5. CASE BeginOwn(w) \/ Throttle(w) \/ PopOne(w)
    <3>1. \E from \in {"begin", "throttle", "pop"} : Move(w, from, "end", worker[w].value)
      BY <1>1, <2>3, <2>5, MovesAre
    <3> QED BY <1>3, <2>3, <2>4, <3>1 DEF Ended, Counts
  <2>6. CASE PopEnd(w) \/ PostRunning(w)
    <3>1. \E from \in {"post", "pop"} : Move(w, from, "returned", 0)
      BY <1>1, <2>3, <2>6, MovesAre
    <3> QED BY <1>3, <2>3, <2>4, <3>1 DEF Ended, Counts
  <2>7. CASE TakeLock(w) \/ LoadFailures(w)
    <3>1. \E from \in {"lock", "load"}, to \in {"load", "store"}, v \in Nat : Move(w, from, to, v)
      BY <1>1, <2>3, <2>7, MovesAre
    <3> QED BY <1>3, <2>3, <2>4, <3>1 DEF Ended, Counts
  <2>8. CASE ReleaseLock(w)
    <3>1. Move(w, "unlock", "post", worker[w].value)
      BY <1>1, <2>3, <2>8, MovesAre
    <3>2. /\ "unlock" \notin Ended /\ "post" \notin Ended /\ "post" \in WorkerSteps
          /\ "unlock" \notin Counts /\ "post" \notin Counts
      BY <1>3 DEF Ended, Counts
    <3> QED BY <2>3, <2>4, <3>1, <3>2
  <2>9. CASE CurlInit(w)
    <3>1. Move(w, "init", "pop", worker[w].value)
      BY <1>1, <2>3, <2>9, MovesAre
    <3>2. /\ "init" \notin Ended /\ "pop" \notin Ended /\ "pop" \in WorkerSteps
          /\ "init" \notin Counts /\ "pop" \notin Counts
      BY <1>3 DEF Ended, Counts
    <3> QED BY <2>3, <2>4, <3>1, <3>2
  <2> QED BY <1>5, <2>5, <2>6, <2>7, <2>8, <2>9
<1>6. ASSUME NEW w \in W, StoreFailures(w)
      PROVE  Counted'
  <2>1. Move(w, "store", "unlock", worker[w].value) /\ worker[w].value \in Nat
    BY <1>1, <1>6, MovesAre
  <2>2. UNCHANGED <<main, hashed>> /\ failures' = worker[w].value + 1 /\ worker[w].pc = "store"
    BY <1>6 DEF StoreFailures, hashVars, Step
  <2>3. worker[w].value = failures
    BY <2>2 DEF IInv, Semaphores, At
  <2>4. One("unlock" \in Counts) = 0 /\ One("store" \in Counts) = 1
    BY DEF One, Counts
  <2>5. failures' + One("unlock" \in Counts) = failures + One("store" \in Counts) /\ failures' \in Nat
    BY <1>1, <2>2, <2>3, <2>4
  <2>6. "store" \notin Ended /\ "unlock" \notin Ended /\ "unlock" \in WorkerSteps
    BY <1>3 DEF Ended
  <2> QED BY <1>1, <2>1, <2>2, <2>5, <2>6, CountedMovesFree
<1>7. CASE EndAlone
  <2>1. setup.program \in Alone /\ EndsFile(Main) /\ main'.failures = main.failures + One(hashing[Main] \in bad)
    BY <1>7, HashIs, MainIs DEF EndAlone, RoundOfMain, One
  <2>2. Cardinality(FailedFiles') = Cardinality(FailedFiles) + One(hashing[Main] \in bad)
    BY <1>1, <2>1, FailedFilesGrow
  <2>3. W = {}
    BY <1>1, <2>1, WIs DEF SetupTyped
  <2>4. \A S : At(S)' = {}
    BY <1>1, <2>3 DEF At
  <2>5. main.failures = Cardinality(FailedFiles)
    BY <2>1 DEF IInv, Counted
  <2>6. Cardinality(FailedFiles)' = Cardinality(FailedFiles')
    OBVIOUS
  <2>7. setup.program \notin {"reading03", "reading04", "reading05", "reading06", "exam02"}
    BY <2>1 DEF Alone
  <2> QED BY <1>1, <2>1, <2>2, <2>4, <2>5, <2>6, <2>7 DEF Counted, Is
<1>8. CASE Rests
  BY <1>2, <1>8 DEF Rests, hashVars, semVars
<1>9. CASE MainMoves
  <2>1. CASE GivesUp \/ AllCreated \/ DoneAlone \/ Pushed \/ SentinelsPushed \/ Exit
    <3>1. main'.failures = main.failures
      BY <2>1, MainIs DEF LoopOfMain, EndOfMain
    <3> QED BY <1>2, <2>1, <3>1 DEF GivesUp, ExitFailure, AllCreated, DoneAlone, Pushed, SentinelsPushed, Exit,
           LoopEnds, hashVars, semVars
  <2>2. CASE PushOneFile \/ PushOneSentinel
    <3>1. main'.failures = main.failures + 0
      BY <2>2, MainIs DEF RoundOfMain
    <3>2. main'.failures = main.failures
      BY <1>1, <3>1
    <3> QED BY <1>2, <2>2, <3>2 DEF PushOneFile, PushOneSentinel, PushOne, hashVars, semVars
  <2>3. CASE \E f \in File : BeginAlone(f)
    BY <1>2, <2>3 DEF BeginAlone, Begin, semVars
  <2> QED BY <1>4, <1>7, <1>9, <2>1, <2>2, <2>3, CountedJoins DEF MainMoves
<1> QED BY <1>5, <1>6, <1>8, <1>9, CountedEnds DEF Moves, WorkerMoves

-----------------------------------------------------------------------------
(* Which files are done, where each worker has its own.                    *)

LEMMA OwnFilesStay ==
  ASSUME IInv, Moves
  PROVE  OwnFiles'
<1> SUFFICES ASSUME setup.program \in PerFile
             PROVE  \A w \in W : /\ hashing'[w] \in {w, NULL}
                                 /\ w \in hashed' <=> worker'[w].pc \in Behind
  BY SetupStays DEF OwnFiles
<1>1. /\ setup' = setup /\ W' = W /\ WorkerTyped /\ W \in SUBSET Worker /\ W = File /\ NULL \notin File
      /\ Worker \in SUBSET Thread
      /\ failures \in Nat
  BY WIs, FileIs, SetupStays DEF IInv, Typed, SetupTyped, SemTyped, Thread
<1>2. \A w \in W : /\ hashing[w] \in {w, NULL}
                   /\ w \in hashed <=> worker[w].pc \in Behind
  BY DEF IInv, OwnFiles
<1>3. WorkerSteps = {"none", "init", "begin", "throttle", "pop", "end", "lock", "load", "store", "unlock",
                     "post", "returned", "joined"}
  BY DEF WorkerSteps
<1> DEFINE Goal == \A w \in W : /\ hashing'[w] \in {w, NULL}
                                /\ w \in hashed' <=> worker'[w].pc \in Behind
<1> SUFFICES Goal
  OBVIOUS
<1>4. ASSUME HashStays, NEW w \in W, NEW from, NEW to \in WorkerSteps, NEW v \in Nat,
             Move(w, from, to, v), from \in Behind <=> to \in Behind
      PROVE  Goal
  <2>1. /\ worker[w].pc = from /\ worker'[w].pc = to
        /\ \A u \in Worker : u # w => worker'[u] = worker[u]
    BY <1>1, <1>4, MoveIs
  <2>2. \A u \in W : worker'[u].pc \in Behind <=> worker[u].pc \in Behind
    BY <1>1, <1>4, <2>1
  <2> QED BY <1>2, <1>4, <2>2 DEF HashStays
<1>5. CASE HashStays /\ worker' = worker
  BY <1>2, <1>5 DEF HashStays
<1>6. ASSUME NEW w \in W, BeginOwn(w) \/ Throttle(w)
      PROVE  Goal
  <2>1. StartsFile(w, w) /\ worker[w].value \in Nat /\ w \in Worker
    BY <1>1, <1>6, HashIs, MovesAre
  <2>2. PICK from \in {"begin", "throttle"} : Move(w, from, "end", worker[w].value)
    BY <1>1, <1>6, MovesAre
  <2>3. "end" \in WorkerSteps
    BY <1>3
  <2>4. WorkerTyped
    BY <1>1
  <2>5. /\ worker[w].pc = from /\ worker'[w].pc = "end"
        /\ \A u \in Worker : u # w => worker'[u] = worker[u]
    BY <2>1, <2>2, <2>3, <2>4, MoveIs
  <2>6. from \notin Behind /\ "end" \notin Behind
    BY DEF Behind
  <2>7. hashing'[w] = w /\ hashed' = hashed /\ \A u \in Thread \ {w} : hashing'[u] = hashing[u]
    BY <2>1 DEF StartsFile
  <2> QED BY <1>1, <1>2, <2>5, <2>6, <2>7
<1>7. ASSUME NEW w \in W, EndAndReturn(w) \/ EndAndPop(w) \/ EndThrottled(w)
      PROVE  Goal
  <2>1. EndsFile(w) /\ worker[w].value \in Nat /\ w \in Worker
    BY <1>1, <1>7, HashIs, MovesAre
  <2>2. ~ EndAndPop(w)
    BY DEF EndAndPop, Is, PerFile
  <2>3. PICK to \in {"returned", "lock", "post"}, v \in Nat : Move(w, "end", to, v)
    BY <1>1, <1>7, <2>1, <2>2, MovesAre
  <2>4. /\ worker[w].pc = "end" /\ worker'[w].pc = to
        /\ \A u \in Worker : u # w => worker'[u] = worker[u]
    <3>1. WorkerTyped /\ to \in WorkerSteps
      BY <1>1, <1>3
    <3> QED BY <2>1, <2>3, <3>1, MoveIs
  <2>5. to \in Behind
    BY DEF Behind
  <2>6. /\ hashing[w] \in File /\ hashing'[w] = NULL /\ hashed' = hashed \cup {hashing[w]}
        /\ \A u \in Thread \ {w} : hashing'[u] = hashing[u]
    BY <2>1 DEF EndsFile
  <2>7. hashing[w] = w
    BY <1>1, <1>2, <2>6
  <2> QED BY <1>1, <1>2, <2>4, <2>5, <2>6, <2>7
<1>8. CASE Create
  <2>1. HashStays /\ FirstStep \notin Behind /\ "none" \notin Behind
    BY <1>8, HashKept DEF FirstStep, Behind
  <2> HIDE DEF Goal
  <2> QED BY <1>4, <1>8, <2>1, CreateMoves
<1>9. ASSUME NEW w \in W, Join(w)
      PROVE  Goal
  <2>1. HashStays /\ "returned" \in Behind /\ "joined" \in Behind
    BY <1>9, HashKept DEF Behind
  <2> HIDE DEF Goal
  <2> QED BY <1>4, <1>9, <2>1, JoinIs
<1>10. ASSUME NEW w \in W, CurlInit(w) \/ PopOne(w) \/ PopEnd(w)
       PROVE  FALSE
  BY <1>10, ProgramIs DEF CurlInit, PopOne, PopEnd, Step, Returns, PerFile, Pooled
<1>11. ASSUME NEW w \in W, TakeLock(w) \/ LoadFailures(w) \/ StoreFailures(w)
                           \/ ReleaseLock(w) \/ PostRunning(w)
       PROVE  Goal
  <2>1. HashStays /\ worker[w].value \in Nat /\ w \in Worker
    BY <1>1, <1>11, HashKept, MovesAre
  <2>2. \E from \in {"lock", "load", "store", "unlock", "post"},
           to \in {"load", "store", "unlock", "post", "returned"}, v \in Nat : Move(w, from, to, v)
    BY <1>1, <1>11, <2>1, MovesAre
  <2>3. /\ {"lock", "load", "store", "unlock", "post"} \subseteq Behind
        /\ {"load", "store", "unlock", "post", "returned"} \subseteq Behind
        /\ {"load", "store", "unlock", "post", "returned"} \subseteq WorkerSteps
    BY <1>3 DEF Behind
  <2> HIDE DEF Goal
  <2> QED BY <1>4, <2>1, <2>2, <2>3
<1>12. ~ EndAlone /\ \A f \in File : ~ BeginAlone(f)
  BY DEF EndAlone, BeginAlone, Alone, PerFile
<1>13. Goal
  <2> HIDE DEF Goal
  <2>1. CASE MainMoves
    <3>1. CASE Create \/ \E w \in W : Join(w)
      BY <1>8, <1>9, <3>1
    <3>2. CASE ~ Create /\ ~ \E w \in W : Join(w)
      BY <1>5, <1>12, <2>1, <3>2, HashKept, WorkersKept DEF MainMoves
    <3> QED BY <3>1, <3>2
  <2>2. CASE Rests
    BY <1>5, <2>2, HashKept, WorkersKept
  <2>3. ASSUME NEW w \in W, WorkerMoves(w)
        PROVE  Goal
    BY <1>6, <1>7, <1>10, <1>11, <2>3 DEF WorkerMoves
  <2> QED BY <2>1, <2>2, <2>3 DEF Moves
<1> QED BY <1>13

-----------------------------------------------------------------------------
(* Which files are done, where there are no workers.                       *)

LEMMA AloneMoves ==
  ASSUME IInv, Moves, setup.program \in Alone
  PROVE  \/ \E f \in File : BeginAlone(f)
         \/ EndAlone \/ DoneAlone \/ Exit \/ Rests
<1>1. W = {} /\ Workforce = 0 /\ main.i \in Nat \ {0} /\ setup.program \notin Pooled
  BY WIs DEF IInv, Typed, SetupTyped, MainTyped, MainType, Alone, Pooled
<1>2. main.pc \notin {"push", "sentinels"}
  BY <1>1 DEF IInv, Located
<1>3. ~ Create /\ ~ GivesUp /\ ~ AllCreated
  BY <1>1 DEF Create, GivesUp, InLoop, AllCreated
<1>4. ~ Pushed /\ ~ SentinelsPushed /\ ~ PushOneFile /\ ~ PushOneSentinel
  BY <1>2 DEF Pushed, SentinelsPushed, LoopEnds, PushOneFile, PushOneSentinel, InLoop
<1> QED BY <1>1, <1>3, <1>4 DEF Moves, MainMoves

LEMMA LoopFilesStay ==
  ASSUME IInv, Moves
  PROVE  LoopFiles'
<1> SUFFICES ASSUME setup.program \in Alone
             PROVE  /\ main'.pc = "create" => Cardinality(hashed') = main'.i - 1
                    /\ main'.pc # "create" => hashed' = File
                    /\ Is("reading02") /\ main'.pc = "create" =>
                         hashed' = 1 .. main'.i - 1 /\ hashing'[Main] \in {main'.i, NULL}
  BY SetupStays DEF LoopFiles, Is
<1>1. /\ main.pc = "create" => Cardinality(hashed) = main.i - 1
      /\ main.pc # "create" => hashed = File
      /\ Is("reading02") /\ main.pc = "create" =>
           hashed = 1 .. main.i - 1 /\ hashing[Main] \in {main.i, NULL}
  BY DEF IInv, LoopFiles
<1>2. /\ main.i \in Nat \ {0} /\ setup.files \in Nat /\ hashed \in SUBSET File
      /\ IsFiniteSet(File) /\ Cardinality(File) = setup.files /\ NULL \notin File
  BY SetupIs, FileIs DEF IInv, Typed, SetupTyped, MainTyped, MainType, HashTyped
<1>3. CASE main' = main /\ HashStays
  BY <1>1, <1>3 DEF HashStays
<1>4. CASE \E f \in File : BeginAlone(f)
  <2>1. PICK f \in File : BeginAlone(f)
    BY <1>4
  <2>2. main' = main /\ StartsFile(Main, f) /\ (Is("reading02") => f = main.i)
    BY <2>1, MainKept, HashIs DEF BeginAlone
  <2>3. hashed' = hashed /\ hashing'[Main] = f
    BY <2>2 DEF StartsFile
  <2> QED BY <1>1, <2>2, <2>3
<1>5. CASE EndAlone
  <2>1. /\ EndsFile(Main) /\ main'.pc = main.pc /\ main'.i = main.i + 1
    BY <1>5, HashIs, MainIs DEF RoundOfMain
  <2>2. /\ hashing[Main] \in File /\ hashing[Main] \notin hashed /\ hashing'[Main] = NULL
        /\ hashed' = hashed \cup {hashing[Main]}
    BY <2>1 DEF EndsFile
  <2>3. main.pc = "create"
    BY <1>2, <2>2 DEF IInv, Exclusive
  <2>4. Cardinality(hashed') = Cardinality(hashed) + 1
    <3>1. IsFiniteSet(hashed)
      BY <1>2, FS_Subset
    <3> QED BY <2>2, <3>1, FS_AddElement
  <2>5. Cardinality(hashed') = main'.i - 1
    BY <1>1, <1>2, <2>1, <2>3, <2>4
  <2>6. Is("reading02") => hashed' = 1 .. main'.i - 1
    <3> SUFFICES ASSUME Is("reading02") PROVE hashed' = 1 .. main'.i - 1
      OBVIOUS
    <3>1. hashing[Main] = main.i
      BY <1>1, <1>2, <2>2, <2>3
    <3>2. hashed = 1 .. main.i - 1
      BY <1>1, <2>3
    <3> QED BY <1>2, <2>1, <2>2, <3>1, <3>2
  <2> QED BY <2>1, <2>2, <2>3, <2>5, <2>6
<1>6. CASE DoneAlone
  <2>1. /\ main.pc = "create" /\ main.i > setup.files /\ main'.pc = "join" /\ hashed' = hashed
    BY <1>6, MainIs DEF LoopOfMain
  <2>2. Cardinality(hashed) <= setup.files /\ (Cardinality(hashed) = setup.files => hashed = File)
    BY <1>2, FS_Subset
  <2>3. Cardinality(hashed) = setup.files
    BY <1>1, <1>2, <2>1, <2>2
  <2> QED BY <2>1, <2>2, <2>3
<1>7. CASE Exit
  <2>1. main.pc = "join" /\ main'.pc = "exited" /\ hashed' = hashed
    BY <1>7, MainIs DEF EndOfMain, Exit
  <2> QED BY <1>1, <2>1
<1>8. CASE Rests
  BY <1>3, <1>8, MainKept, HashKept
<1> QED BY <1>4, <1>5, <1>6, <1>7, <1>8, AloneMoves

-----------------------------------------------------------------------------
(* Which files are done, where a queue feeds the workers.                  *)

\* The first k files have been taken: what that says of the files, of the queue, of main
\* and of the workers.
TakenFiles(k)   == \A f \in File : f <= k <=> f \in hashed \/ \E w \in W : hashing[w] = f
TakenQueue(k)   == \A j \in 0 .. queue.size - 1 :
                     queue.data[(queue.reader + j) % queue.capacity] = Ahead(k, j)
TakenMain(k)    == /\ main.pc # "exited" => k + queue.size = Pushes
                   /\ main.pc = "push" => main.i <= setup.files + 1
                   /\ main.pc = "sentinels" => main.i <= setup.threads + 1
TakenWorkers(k) == \A w \in At(Ended) : worker[w].value = 0 => k = setup.files

LEMMA TakenParts ==
  ASSUME NEW k
  PROVE  /\ Taken(k) <=> TakenFiles(k) /\ TakenQueue(k) /\ TakenMain(k) /\ TakenWorkers(k)
         /\ Taken(k)' <=> TakenFiles(k)' /\ TakenQueue(k)' /\ TakenMain(k)' /\ TakenWorkers(k)'
  BY DEF Taken, TakenFiles, TakenQueue, TakenMain, TakenWorkers

\* What each part needs to stay.
LEMMA TakenFilesKept ==
  ASSUME Moves, HashStays, NEW k, TakenFiles(k)
  PROVE  TakenFiles(k)'
  BY SetupStays DEF HashStays, TakenFiles

LEMMA TakenQueueKept ==
  ASSUME Moves, queue' = queue, NEW k, TakenQueue(k)
  PROVE  TakenQueue(k)'
  BY SetupStays DEF TakenQueue, Ahead

LEMMA TakenMainKept ==
  ASSUME Moves, queue' = queue, main' = main, NEW k, TakenMain(k)
  PROVE  TakenMain(k)'
  BY SetupStays DEF TakenMain, Pushes

LEMMA TakenWorkersKept ==
  ASSUME IInv, Moves, NEW k, TakenWorkers(k),
         \A w \in W : worker'[w].pc \in Ended /\ worker'[w].value = 0 =>
                        worker[w].pc \in Ended /\ worker[w].value = 0
  PROVE  TakenWorkers(k)'
  BY SetupStays DEF TakenWorkers, At

\* One more file in the queue, or one more sentinel.
LEMMA TakenQueuePut ==
  ASSUME IInv, Moves, NEW k, TakenQueue(k), NEW v, Put(v), v = Ahead(k, queue.size)
  PROVE  TakenQueue(k)'
<1> DEFINE c == queue.capacity
           r == queue.reader
           n == queue.size
<1>1. /\ c \in Nat \ {0} /\ n \in 0 .. c - 1 /\ r \in 0 .. c - 1 /\ queue.writer = (r + n) % c
      /\ queue.data \in [0 .. c - 1 -> File \cup {NULL}] /\ queue.writer \in 0 .. c - 1
      /\ queue'.capacity = c /\ queue'.size = n + 1 /\ queue'.reader = r
      /\ queue'.data = [queue.data EXCEPT ![queue.writer] = v]
  BY QueueIs DEF IInv, Typed, Put
<1>2. setup' = setup
  BY SetupStays
<1> SUFFICES ASSUME NEW j \in 0 .. n
             PROVE  queue'.data[(r + j) % c] = Ahead(k, j)
  BY <1>1, <1>2 DEF TakenQueue, Ahead
<1>3. (r + j) % c \in 0 .. c - 1
  <2>1. j \in 0 .. c
    BY <1>1
  <2> HIDE DEF c, r, n
  <2> QED BY <1>1, <2>1, RingIndex
<1>4. CASE j = n
  BY <1>1, <1>4
<1>5. CASE j # n
  <2>1. j \in 0 .. n - 1
    BY <1>1, <1>5
  <2>2. (r + j) % c # queue.writer
    <3>1. (r + j) % c # (r + n) % c
      <4> HIDE DEF c, r, n
      <4> QED BY <1>1, <2>1, RingApart
    <3> QED BY <1>1, <3>1
  <2>3. queue.data[(r + j) % c] = Ahead(k, j)
    BY <2>1 DEF TakenQueue
  <2> QED BY <1>1, <1>3, <2>2, <2>3
<1> QED BY <1>4, <1>5

\* One file less.
LEMMA TakenQueueGot ==
  ASSUME IInv, Moves, NEW k \in Nat, TakenQueue(k), Got
  PROVE  TakenQueue(k + 1)'
<1> DEFINE c == queue.capacity
           r == queue.reader
           n == queue.size
<1>1. /\ c \in Nat \ {0} /\ n \in 1 .. c /\ r \in 0 .. c - 1
      /\ queue'.capacity = c /\ queue'.size = n - 1 /\ queue'.reader = (r + 1) % c
      /\ queue'.data = queue.data
  BY QueueIs DEF IInv, Typed, Got, After
<1>2. setup' = setup /\ setup.files \in Nat
  BY SetupStays, SetupIs DEF IInv, Typed, SetupTyped
<1>3. TakenQueue(k + 1)'
  <2> SUFFICES ASSUME NEW j \in 0 .. n - 2
               PROVE  queue.data[(((r + 1) % c) + j) % c] = Ahead(k + 1, j)
    BY <1>1, <1>2 DEF TakenQueue, Ahead
  <2>1. j \in 0 .. c - 1 /\ j + 1 \in 0 .. n - 1
    BY <1>1
  <2>2. (((r + 1) % c) + j) % c = (r + (j + 1)) % c
    <3> HIDE DEF c, r, n
    <3> QED BY <1>1, <2>1, RingNext
  <2>3. queue.data[(r + (j + 1)) % c] = Ahead(k, j + 1)
    BY <2>1 DEF TakenQueue
  <2>4. Ahead(k, j + 1) = Ahead(k + 1, j)
    BY DEF Ahead
  <2> QED BY <2>2, <2>3, <2>4
<1> QED BY <1>3

\* A file or a sentinel is pushed.
LEMMA TakenPush ==
  ASSUME IInv, Moves, NEW k \in 0 .. setup.files, Taken(k), PushOneFile \/ PushOneSentinel
  PROVE  Taken(k)'
<1>1. /\ setup' = setup /\ setup.files \in Nat /\ setup.threads \in Nat /\ k \in Nat
      /\ queue.size \in Nat /\ main.i \in Nat /\ worker' = worker /\ HashStays
      /\ main'.pc = main.pc /\ main'.i = main.i + 1
  <2>1. setup' = setup /\ setup.files \in Nat /\ setup.threads \in Nat /\ k \in Nat
    BY SetupStays, SetupIs DEF IInv, Typed, SetupTyped
  <2>2. queue.size \in Nat /\ main.i \in Nat
    BY QueueIs DEF IInv, Typed, MainTyped, MainType
  <2>3. main'.pc = main.pc /\ main'.i = main.i + 1
    BY MainIs DEF RoundOfMain
  <2> QED BY <2>1, <2>2, <2>3, WorkersKept, HashKept
<1>2. TakenFiles(k) /\ TakenQueue(k) /\ TakenMain(k) /\ TakenWorkers(k)
  BY TakenParts
<1>3. TakenFiles(k)'
  BY <1>1, <1>2, TakenFilesKept
<1>4. TakenWorkers(k)'
  BY <1>1, <1>2, TakenWorkersKept
<1>5. CASE PushOneFile
  <2>1. main.pc = "push" /\ main.i <= setup.files /\ Put(main.i)
    BY <1>5, RingIs DEF PushOneFile, InLoop
  <2>2. k + queue.size = main.i - 1
    BY <1>2, <2>1 DEF TakenMain, Pushes
  <2>3. main.i = Ahead(k, queue.size)
    BY <1>1, <2>1, <2>2 DEF Ahead
  <2>4. TakenQueue(k)'
    BY <1>2, <2>1, <2>3, TakenQueuePut
  <2>5. TakenMain(k)'
    BY <1>1, <2>1, <2>2 DEF TakenMain, Pushes, Put
  <2> QED BY <1>3, <1>4, <2>4, <2>5, TakenParts
<1>6. CASE PushOneSentinel
  <2>1. main.pc = "sentinels" /\ main.i <= setup.threads /\ Put(NULL)
    BY <1>6, RingIs DEF PushOneSentinel, InLoop
  <2>2. k + queue.size = setup.files + main.i - 1 /\ main.i # 0
    BY <1>2, <2>1 DEF TakenMain, Pushes, IInv, Typed, MainTyped, MainType
  <2>3. NULL = Ahead(k, queue.size)
    BY <1>1, <2>2 DEF Ahead
  <2>4. TakenQueue(k)'
    BY <1>2, <2>1, <2>3, TakenQueuePut
  <2>5. TakenMain(k)'
    BY <1>1, <2>1, <2>2 DEF TakenMain, Pushes, Put
  <2> QED BY <1>3, <1>4, <2>4, <2>5, TakenParts
<1> QED BY <1>5, <1>6

\* A worker takes a file.
LEMMA TakenPop ==
  ASSUME IInv, Moves, NEW k \in 0 .. setup.files, Taken(k), NEW w \in W, PopOne(w)
  PROVE  k + 1 \in 0 .. setup.files /\ Taken(k + 1)'
<1>1. /\ setup' = setup /\ setup.files \in Nat /\ k \in Nat /\ W' = W /\ W \in SUBSET Worker
      /\ queue.size \in Nat /\ main' = main /\ Got /\ WorkerTyped /\ worker[w].value \in Nat
      /\ File' = File /\ Worker \in SUBSET Thread
  BY WIs, SetupStays, SetupIs, QueueIs, MainKept, RingIs, MovesAre
  DEF IInv, Typed, SetupTyped, WorkerMoves, Thread
<1>2. TakenFiles(k) /\ TakenQueue(k) /\ TakenMain(k) /\ TakenWorkers(k)
  BY TakenParts
<1>3. First = k + 1 /\ k + 1 <= setup.files
  <2>1. queue.size > 0 /\ First # NULL
    BY <1>1 DEF Got
  <2> QED BY <1>1, <2>1, FirstIs
<1>4. TakenFiles(k + 1)'
  <2>1. /\ hashing[w] = NULL /\ hashing'[w] = k + 1 /\ hashed' = hashed /\ k + 1 \in File
        /\ \A u \in Thread \ {w} : hashing'[u] = hashing[u]
    BY <1>3, HashIs DEF StartsFile
  <2>2. \A u \in W : u # w => hashing'[u] = hashing[u]
    BY <1>1, <2>1
  <2>3. \A f \in File : f \in Nat /\ f # NULL
    BY FileIs DEF IInv, Typed, SetupTyped
  <2>4. ASSUME NEW f \in File
        PROVE  f <= k + 1 <=> f \in hashed' \/ \E u \in W : hashing'[u] = f
    <3>1. f \in Nat /\ (f <= k <=> f \in hashed \/ \E u \in W : hashing[u] = f)
      BY <1>2, <2>3 DEF TakenFiles
    <3>2. CASE f = k + 1
      BY <1>1, <2>1, <3>2
    <3>3. CASE f # k + 1
      <4>1. f <= k + 1 <=> f <= k
        BY <1>1, <3>1, <3>3
      <4>2. (\E u \in W : hashing'[u] = f) <=> (\E u \in W : hashing[u] = f)
        BY <2>1, <2>2, <2>3, <3>3
      <4> QED BY <2>1, <3>1, <4>1, <4>2
    <3> QED BY <3>2, <3>3
  <2> QED BY <1>1, <2>4 DEF TakenFiles
<1>5. TakenQueue(k + 1)'
  BY <1>1, <1>2, TakenQueueGot
<1>6. TakenMain(k + 1)'
  <2>1. queue'.size = queue.size - 1
    BY <1>1 DEF Got
  <2>2. main.pc # "exited" => k + queue.size = Pushes
    BY <1>2 DEF TakenMain
  <2>3. (k + 1) + queue'.size = k + queue.size
    BY <1>1, <2>1
  <2> QED BY <1>1, <1>2, <2>2, <2>3 DEF TakenMain, Pushes
<1>7. TakenWorkers(k + 1)'
  <2>1. /\ worker'[w].pc = "end" /\ \A u \in Worker : u # w => worker'[u] = worker[u]
    <3>1. w \in Worker /\ WorkerTyped /\ "end" \in WorkerSteps /\ worker[w].value \in Nat
      BY <1>1 DEF WorkerSteps
    <3>2. Move(w, "pop", "end", worker[w].value)
      BY <3>1, MovesAre
    <3>3. PICK v \in Nat : Move(w, "pop", "end", v)
      BY <3>1, <3>2
    <3> QED BY <3>1, <3>3, MoveIs
  <2>2. \A u \in At(Ended) : worker[u].value # 0
    BY <1>1, <1>2, <1>3 DEF TakenWorkers
  <2> QED BY <1>1, <2>1, <2>2 DEF TakenWorkers, At, Ended
<1> QED BY <1>1, <1>3, <1>4, <1>5, <1>6, <1>7, TakenParts

\* A worker is at the end of a file, or finds the sentinel, or is joined.
LEMMA TakenWorker ==
  ASSUME IInv, Moves, setup.program \in Pooled, NEW k \in 0 .. setup.files, Taken(k), NEW w \in W,
         CurlInit(w) \/ PopEnd(w) \/ EndAndReturn(w) \/ EndAndPop(w) \/ Join(w)
  PROVE  Taken(k)'
<1>1. /\ setup' = setup /\ setup.files \in Nat /\ k \in Nat /\ W' = W /\ File' = File
      /\ W \in SUBSET Worker /\ w \in Worker /\ WorkerTyped /\ worker[w].value \in Nat
      /\ queue' = queue /\ Worker \in SUBSET Thread
  <2>1. setup' = setup /\ setup.files \in Nat /\ k \in Nat /\ W' = W /\ File' = File
    BY SetupStays, SetupIs DEF IInv, Typed, SetupTyped
  <2>2. W \in SUBSET Worker /\ w \in Worker /\ WorkerTyped /\ Worker \in SUBSET Thread
    BY WIs DEF IInv, Typed, SetupTyped, Thread
  <2>3. queue' = queue
    BY DEF CurlInit, PopEnd, PopSentinel, EndAndReturn, EndAndPop, Join, queueVars
  <2> QED BY <2>1, <2>2, <2>3, MovesAre
<1>2. TakenFiles(k) /\ TakenQueue(k) /\ TakenMain(k) /\ TakenWorkers(k)
  BY TakenParts
<1>3. TakenQueue(k)'
  BY <1>1, <1>2, TakenQueueKept
<1>4. TakenMain(k)'
  <2>1. CASE main' = main
    BY <1>1, <1>2, <2>1, TakenMainKept
  <2>2. CASE Join(w)
    <3>1. main'.pc = main.pc /\ main.pc = "join"
      BY <2>2, MainIs, JoinIs DEF RoundOfMain
    <3> QED BY <1>1, <1>2, <3>1 DEF TakenMain, Pushes
  <2> QED BY <2>1, <2>2, MainKept DEF WorkerMoves
<1>5. CASE EndAndReturn(w) \/ EndAndPop(w)
  <2>1. /\ hashing[w] \in File /\ hashing'[w] = NULL /\ hashed' = hashed \cup {hashing[w]}
        /\ \A u \in Thread \ {w} : hashing'[u] = hashing[u]
    BY <1>5, HashIs DEF EndsFile
  <2>2. \A f \in File : f # NULL
    BY FileIs DEF IInv, Typed, SetupTyped
  <2>3. \A u \in W : u # w => hashing'[u] = hashing[u]
    BY <1>1, <2>1
  <2>4. \A f \in File : (f \in hashed \/ \E u \in W : hashing[u] = f)
                          <=> (f \in hashed' \/ \E u \in W : hashing'[u] = f)
    BY <2>1, <2>2, <2>3
  <2>5. TakenFiles(k)'
    BY <1>1, <1>2, <2>4 DEF TakenFiles
  <2>6. PICK to \in {"returned", "pop"}, v \in Nat : Move(w, "end", to, v) /\ (to = "returned" => v = 1)
    <3>1. CASE EndAndReturn(w)
      <4>1. Failed(w)
        BY <3>1 DEF EndAndReturn, Is, Pooled
      <4>2. Move(w, "end", "returned", 1)
        BY <1>1, <3>1, <4>1, MovesAre
      <4> QED BY <4>2
    <3>2. CASE EndAndPop(w)
      <4>1. Move(w, "end", "pop", worker[w].value)
        BY <1>1, <3>2, MovesAre
      <4> QED BY <1>1, <4>1
    <3> QED BY <1>5, <3>1, <3>2
  <2>7. /\ worker'[w].pc = to /\ worker'[w].value = v
        /\ \A u \in Worker : u # w => worker'[u] = worker[u]
    <3>1. to \in WorkerSteps
      BY DEF WorkerSteps
    <3>2. WorkerTyped /\ w \in Worker
      BY <1>1
    <3>3. v \in Nat /\ Move(w, "end", to, v)
      BY <2>6
    <3> QED BY <3>1, <3>2, <3>3, MoveIs
  <2>8. \A u \in W : worker'[u].pc \in Ended /\ worker'[u].value = 0 =>
                       worker[u].pc \in Ended /\ worker[u].value = 0
    BY <1>1, <2>6, <2>7 DEF Ended
  <2>9. TakenWorkers(k)'
    BY <1>2, <2>8, TakenWorkersKept
  <2> QED BY <1>3, <1>4, <2>5, <2>9, TakenParts
<1>6. CASE PopEnd(w)
  <2>1. HashStays
    BY <1>6, HashKept
  <2>2. queue.size > 0 /\ First = NULL
    BY <1>6 DEF PopEnd, PopSentinel
  <2>3. k = setup.files
    <3>1. k + 1 # NULL
      BY <1>1, NullAssumption
    <3> QED BY <1>1, <2>2, <3>1, FirstIs
  <2>4. TakenWorkers(k)'
    BY <1>1, <2>3 DEF TakenWorkers
  <2>5. TakenFiles(k)'
    BY <1>2, <2>1, TakenFilesKept
  <2> QED BY <1>3, <1>4, <2>4, <2>5, TakenParts
<1>7. CASE Join(w)
  <2>1. HashStays
    BY <1>7, HashKept
  <2>2. TakenFiles(k)'
    BY <1>2, <2>1, TakenFilesKept
  <2>3. /\ worker[w].pc = "returned" /\ worker'[w].value = worker[w].value
        /\ \A u \in Worker : u # w => worker'[u] = worker[u]
    <3>1. PICK v \in Nat : Move(w, "returned", "joined", v) /\ v = worker[w].value
      BY <1>1, <1>7, MovesAre
    <3>2. "joined" \in WorkerSteps
      BY DEF WorkerSteps
    <3>3. /\ worker[w].pc = "returned" /\ worker'[w].value = v
          /\ \A u \in Worker : u # w => worker'[u] = worker[u]
      BY <1>1, <3>1, <3>2, MoveIs
    <3> QED BY <3>1, <3>3
  <2>4. \A u \in W : worker'[u].pc \in Ended /\ worker'[u].value = 0 =>
                       worker[u].pc \in Ended /\ worker[u].value = 0
    BY <1>1, <2>3 DEF Ended
  <2>5. TakenWorkers(k)'
    BY <1>2, <2>4, TakenWorkersKept
  <2> QED BY <1>3, <1>4, <2>2, <2>5, TakenParts
<1>8. CASE CurlInit(w)
  <2>1. HashStays
    BY <1>8, HashKept
  <2>2. TakenFiles(k)'
    BY <1>2, <2>1, TakenFilesKept
  <2>3. /\ worker'[w].pc = "pop" /\ \A u \in Worker : u # w => worker'[u] = worker[u]
    <3>1. PICK v \in Nat : Move(w, "init", "pop", v)
      BY <1>1, <1>8, MovesAre
    <3>2. "pop" \in WorkerSteps
      BY DEF WorkerSteps
    <3> QED BY <1>1, <3>1, <3>2, MoveIs
  <2>4. \A u \in W : worker'[u].pc \in Ended /\ worker'[u].value = 0 =>
                       worker[u].pc \in Ended /\ worker[u].value = 0
    BY <1>1, <2>3 DEF Ended
  <2>5. TakenWorkers(k)'
    BY <1>2, <2>4, TakenWorkersKept
  <2> QED BY <1>3, <1>4, <2>2, <2>5, TakenParts
<1> QED BY <1>5, <1>6, <1>7, <1>8

\* Main leaves one of its loops, or ends, or creates a worker.
LEMMA TakenMainSteps ==
  ASSUME IInv, Moves, setup.program \in Pooled, NEW k \in 0 .. setup.files, Taken(k),
         \/ Create \/ GivesUp \/ AllCreated \/ Pushed \/ SentinelsPushed \/ Exit
  PROVE  Taken(k)'
<1>1. /\ setup' = setup /\ setup.files \in Nat /\ setup.threads \in Nat /\ k \in Nat /\ W' = W
      /\ main.i \in Nat \ {0} /\ W \in SUBSET Worker /\ WorkerTyped /\ queue.size \in Nat
  <2>1. setup' = setup /\ setup.files \in Nat /\ setup.threads \in Nat /\ k \in Nat /\ W' = W
    BY SetupStays, SetupIs DEF IInv, Typed, SetupTyped
  <2>2. W \in SUBSET Worker /\ WorkerTyped
    BY WIs DEF IInv, Typed, SetupTyped
  <2>3. main.i \in Nat \ {0} /\ queue.size \in Nat
    BY QueueIs DEF IInv, Typed, MainTyped, MainType
  <2> QED BY <2>1, <2>2, <2>3
<1>2. TakenFiles(k) /\ TakenQueue(k) /\ TakenMain(k) /\ TakenWorkers(k)
  BY TakenParts
<1>3. HashStays /\ queue' = queue
  BY HashKept DEF Create, GivesUp, ExitFailure, AllCreated, Pushed, SentinelsPushed, Exit, LoopEnds, queueVars
<1>4. TakenFiles(k)' /\ TakenQueue(k)'
  BY <1>2, <1>3, TakenFilesKept, TakenQueueKept
<1>5. \A u \in W : worker'[u].pc \in Ended /\ worker'[u].value = 0 =>
                     worker[u].pc \in Ended /\ worker[u].value = 0
  <2>1. CASE worker' = worker
    BY <2>1
  <2>2. CASE Create
    <3>1. /\ main.i \in W /\ Move(main.i, "none", FirstStep, worker[main.i].value)
          /\ FirstStep \in WorkerSteps /\ FirstStep # "none" /\ worker[main.i].value \in Nat
      BY <2>2, CreateMoves
    <3>2. FirstStep \notin Ended
      BY DEF FirstStep, Ended
    <3>3. /\ worker'[main.i].pc = FirstStep
          /\ \A u \in Worker : u # main.i => worker'[u] = worker[u]
      <4>1. main.i \in Worker /\ WorkerTyped
        BY <1>1, <3>1
      <4>2. PICK v \in Nat : Move(main.i, "none", FirstStep, v)
        BY <3>1
      <4> QED BY <4>1, <4>2 DEF Move, WorkerTyped
    <3> QED BY <1>1, <3>2, <3>3
  <2> QED BY <2>1, <2>2, WorkersKept
<1>6. TakenWorkers(k)'
  BY <1>2, <1>5, TakenWorkersKept
<1>7. TakenMain(k)'
  <2>1. CASE Create
    <3>1. main'.pc = main.pc /\ main.pc = "create"
      BY <2>1, MainIs DEF RoundOfMain, Create, InLoop
    <3> QED BY <1>1, <1>2, <1>3, <3>1 DEF TakenMain, Pushes
  <2>2. CASE GivesUp \/ Exit
    <3>1. main'.pc = "exited"
      BY <2>2, MainIs DEF EndOfMain
    <3> QED BY <3>1 DEF TakenMain
  <2>3. CASE AllCreated
    <3>1. main.pc = "create" /\ main'.pc = "push" /\ main'.i = 1
      BY <2>3, MainIs DEF LoopOfMain
    <3> QED BY <1>1, <1>2, <1>3, <3>1 DEF TakenMain, Pushes
  <2>4. CASE Pushed
    <3>1. main.pc = "push" /\ main'.pc = "sentinels" /\ main'.i = 1 /\ main.i > setup.files
      BY <2>4, MainIs DEF LoopOfMain
    <3>2. main.i = setup.files + 1
      BY <1>1, <1>2, <3>1 DEF TakenMain
    <3> QED BY <1>1, <1>2, <1>3, <3>1, <3>2 DEF TakenMain, Pushes
  <2>5. CASE SentinelsPushed
    <3>1. main.pc = "sentinels" /\ main'.pc = "join" /\ main.i > setup.threads
      BY <2>5, MainIs DEF LoopOfMain
    <3>2. main.i = setup.threads + 1
      BY <1>1, <1>2, <3>1 DEF TakenMain
    <3> QED BY <1>1, <1>2, <1>3, <3>1, <3>2 DEF TakenMain, Pushes
  <2> QED BY <2>1, <2>2, <2>3, <2>4, <2>5
<1> QED BY <1>4, <1>6, <1>7, TakenParts

LEMMA PoolFilesStay ==
  ASSUME IInv, Moves
  PROVE  PoolFiles'
<1> SUFFICES ASSUME setup.program \in Pooled
             PROVE  \E k \in 0 .. setup.files : Taken(k)'
  BY SetupStays DEF PoolFiles
<1>1. PICK k \in 0 .. setup.files : Taken(k)
  BY DEF IInv, PoolFiles
<1>2. CASE MainMoves
  <2>1. CASE Create \/ GivesUp \/ AllCreated \/ Pushed \/ SentinelsPushed \/ Exit
    BY <1>1, <2>1, TakenMainSteps
  <2>2. CASE PushOneFile \/ PushOneSentinel
    BY <1>1, <2>2, TakenPush
  <2>3. CASE \E w \in W : Join(w)
    BY <1>1, <2>3, TakenWorker
  <2>4. ~ EndAlone /\ ~ DoneAlone /\ \A f \in File : ~ BeginAlone(f)
    BY DEF EndAlone, DoneAlone, BeginAlone, Alone, Pooled
  <2> QED BY <1>2, <2>1, <2>2, <2>3, <2>4 DEF MainMoves
<1>3. ASSUME NEW w \in W, WorkerMoves(w)
      PROVE  \E m \in 0 .. setup.files : Taken(m)'
  <2>1. CASE PopOne(w)
    BY <1>1, <2>1, TakenPop
  <2>2. CASE CurlInit(w) \/ PopEnd(w) \/ EndAndReturn(w) \/ EndAndPop(w)
    BY <1>1, <2>2, TakenWorker
  <2>3. CASE BeginOwn(w) \/ Throttle(w) \/ TakeLock(w) \/ LoadFailures(w) \/ StoreFailures(w)
             \/ ReleaseLock(w) \/ PostRunning(w)
    <3>1. worker[w].pc \in {"begin", "throttle", "lock", "load", "store", "unlock", "post"}
      BY <2>3 DEF BeginOwn, Throttle, TakeLock, LoadFailures, StoreFailures, ReleaseLock,
         PostRunning, Step, Returns
    <3> QED BY <3>1, ProgramIs DEF Pooled
  <2>4. CASE EndThrottled(w)
    BY <2>4 DEF EndThrottled, Is, Pooled
  <2> QED BY <1>3, <2>1, <2>2, <2>3, <2>4 DEF WorkerMoves
<1>4. CASE Rests
  <2>1. TakenFiles(k) /\ TakenQueue(k) /\ TakenMain(k) /\ TakenWorkers(k)
    BY <1>1, TakenParts
  <2>2. HashStays /\ queue' = queue /\ main' = main /\ worker' = worker
    BY <1>4, HashKept DEF Rests
  <2>3. TakenFiles(k)' /\ TakenQueue(k)' /\ TakenMain(k)'
    BY <2>1, <2>2, TakenFilesKept, TakenQueueKept, TakenMainKept
  <2>4. TakenWorkers(k)'
    BY <2>1, <2>2, TakenWorkersKept
  <2> QED BY <2>3, <2>4, TakenParts
<1> QED BY <1>2, <1>3, <1>4 DEF Moves

-----------------------------------------------------------------------------
(* The invariant.                                                          *)

LEMMA InvStays ==
  IInv /\ [Next]_vars => IInv'
<1> SUFFICES ASSUME IInv, [Next]_vars PROVE IInv'
  OBVIOUS
<1>1. Moves
  BY StepsAre
<1>2. Typed' /\ Located' /\ Progress' /\ Exclusive'
  BY <1>1, TypedStays, LocatedStays, ProgressStays, ExclusiveStays
<1>3. Semaphores' /\ Counted' /\ OwnFiles' /\ LoopFiles' /\ PoolFiles'
  BY <1>1, SemaphoresStay, CountedStays, OwnFilesStay, LoopFilesStay, PoolFilesStay
<1> QED BY <1>2, <1>3 DEF IInv

LEMMA InvStarts ==
  Init => IInv
<1> SUFFICES ASSUME Init PROVE IInv
  OBVIOUS
<1>1. /\ setup \in Setups /\ bad \in SUBSET File /\ Cardinality(bad) <= setup.failing
      /\ setup.program \in PerFile \cup Pooled \cup Alone
      /\ setup.files \in Nat /\ setup.threads \in Nat /\ setup.capacity \in Nat \ {0}
      /\ W \in SUBSET Worker
  BY SetupIs, WIs DEF Init
<1>2. /\ main = [pc |-> "create", i |-> 1, failures |-> 0, status |-> NULL]
      /\ \A w \in Worker : worker[w].pc = "none"
      /\ \A t \in Thread : hashing[t] = NULL
      /\ hashed = {} /\ running = setup.threads /\ lock = 1 /\ failures = 0
      /\ queue = Created(setup.capacity) /\ asleep = [c \in Conditions |-> {}]
  BY DEF Init
<1>3. \A S : "none" \notin S => At(S) = {} /\ Failing(S) = {}
  BY <1>1, <1>2 DEF At, Failing
<1>4. "none" \notin Locked /\ "none" \notin Slot /\ "none" \notin Ended /\ "none" \notin Counts
      /\ "none" \notin Behind /\ "none" \notin {"store"} /\ "none" \notin {"joined"} /\ "none" \in WorkerSteps
  BY DEF Locked, Slot, Ended, Counts, Behind, WorkerSteps
<1>5. Cardinality({}) = 0 /\ FailedFiles = {} /\ NULL \notin File
  BY <1>1, <1>2, FS_EmptySet, FileIs DEF FailedFiles
<1>6. Typed
  <2>1. SetupTyped /\ MainTyped /\ SemTyped
    BY <1>1, <1>2 DEF SetupTyped, MainTyped, MainType, MainSteps, SemTyped
  <2>2. WorkerTyped
    BY <1>4 DEF Init, WorkerTyped
  <2>3. HashTyped
    BY DEF Init, HashTyped
  <2>4. QueueTyped
    <3>1. queue \in QueueType
      BY <1>1, <1>2 DEF Created, QueueType
    <3>2. queue.writer = 0 /\ queue.reader + queue.size = 0 /\ queue.capacity = setup.capacity
      BY <1>2 DEF Created
    <3>3. 0 % setup.capacity = 0
      <4>1. 0 \in 0 .. setup.capacity - 1
        BY <1>1
      <4> QED BY <1>1, <4>1, ModSmall
    <3> QED BY <3>1, <3>2, <3>3 DEF QueueTyped
  <2>5. SleepTyped
    BY <1>2 DEF SleepTyped, Conditions
  <2> QED BY <2>1, <2>2, <2>3, <2>4, <2>5 DEF Typed
<1>7. Located
  <2>1. "none" \in Places
    BY DEF Places
  <2> QED BY <1>2, <2>1 DEF Located
<1>8. Progress
  <2>1. \A w \in W : w >= 1
    <3>1. Worker \in SUBSET (Nat \ {0})
      BY WorkerIs
    <3> QED BY <1>1, <3>1
  <2> QED BY <1>1, <1>2, <1>3, <1>4, <2>1 DEF Progress
<1>9. Exclusive
  BY <1>2, WorkerIs DEF Exclusive, Thread
<1>10. Semaphores
  <2>1. At(Locked) = {} /\ At(Slot) = {} /\ At({"store"}) = {}
    BY <1>3, <1>4
  <2>2. lock + Cardinality(At(Locked)) = 1
    BY <1>2, <1>5, <2>1
  <2>3. running + (IF Is("reading06") THEN Cardinality(At(Slot)) ELSE 0) = setup.threads
    BY <1>1, <1>2, <1>5, <2>1
  <2> QED BY <2>1, <2>2, <2>3 DEF Semaphores
<1>11. Counted
  <2>1. At(Ended) = {} /\ Failing(Ended) = {} /\ Failing({"joined"}) = {} /\ At(Counts) = {}
    BY <1>3, <1>4
  <2> QED BY <1>2, <1>5, <2>1 DEF Counted
<1>12. OwnFiles
  BY <1>1, <1>2, <1>4 DEF OwnFiles, Thread
<1>13. LoopFiles
  BY <1>2, <1>5, WorkerIs DEF LoopFiles
<1>14. PoolFiles
  <2>1. 0 \in 0 .. setup.files
    BY <1>1
  <2>2. TakenFiles(0)
    <3>1. \A f \in File : ~ (f <= 0)
      BY <1>1 DEF File
    <3>2. \A w \in W : hashing[w] = NULL
      BY <1>1, <1>2 DEF Thread
    <3> QED BY <1>2, <1>5, <3>1, <3>2 DEF TakenFiles
  <2>3. TakenQueue(0) /\ TakenMain(0)
    BY <1>1, <1>2 DEF TakenQueue, TakenMain, Created, Pushes
  <2>4. TakenWorkers(0)
    BY <1>3, <1>4 DEF TakenWorkers
  <2> QED BY <2>1, <2>2, <2>3, <2>4, TakenParts DEF PoolFiles
<1> QED BY <1>6, <1>7, <1>8, <1>9, <1>10, <1>11, <1>12, <1>13, <1>14 DEF IInv

LEMMA Invariance == Spec => []IInv
  BY InvStarts, InvStays, PTL DEF Spec

\* The indices of the ring stay in the array and agree with its size, only files and
\* sentinels are in it, and the semaphores are within their bounds.
THEOREM TypeCorrect == Spec => []TypeOK
<1>1. IInv => TypeOK
  <2> SUFFICES ASSUME IInv PROVE TypeOK
    OBVIOUS
  <2>1. /\ SetupTyped /\ MainTyped /\ WorkerTyped /\ HashTyped /\ SemTyped /\ QueueTyped /\ SleepTyped
    BY DEF IInv, Typed
  <2>2. /\ main.pc \in {"create", "push", "sentinels", "join", "exited"}
        /\ main.i \in Nat /\ main.failures \in Nat
        /\ main.status \in {NULL} \cup 0 .. ExitCodes - 1
    BY <2>1 DEF MainTyped, MainType, MainSteps
  <2>3. running \in 0 .. setup.threads /\ lock \in {0, 1} /\ failures \in Nat
    <3>1. IsFiniteSet(W) /\ \A S : At(S) \in SUBSET W
      BY <2>1, WIs DEF SetupTyped, At
    <3>2. Cardinality(At(Locked)) \in Nat /\ Cardinality(At(Slot)) \in Nat
      BY <3>1, FS_Subset, FS_CardinalityType
    <3>3. setup.threads \in Nat
      BY <2>1, SetupIs DEF SetupTyped
    <3> QED BY <2>1, <3>2, <3>3 DEF IInv, Semaphores, SemTyped
  <2>4. /\ queue.data \in [0 .. queue.capacity - 1 -> File \cup {NULL}]
        /\ {queue.reader, queue.writer} \subseteq 0 .. queue.capacity - 1
        /\ queue.size \in 0 .. queue.capacity
        /\ queue.writer = (queue.reader + queue.size) % queue.capacity
    BY <2>1, QueueIs
  <2> QED BY <2>1, <2>2, <2>3, <2>4 DEF TypeOK, WorkerTyped, HashTyped, SleepTyped
<1> QED BY <1>1, Invariance, PTL

-----------------------------------------------------------------------------
(* The files as the user sees them.                                        *)

Seen == [f \in File |-> StateOf(f)]
Held == {f \in File : \E t \in Thread : hashing[t] = f}

LEMMA StateIs ==
  ASSUME NEW f \in File
  PROVE  /\ Seen[f] = "hashing" <=> f \in Held
         /\ Seen[f] = "waiting" <=> f \notin Held /\ f \notin hashed
         /\ Seen[f] = "failed" <=> f \notin Held /\ f \in hashed /\ f \in bad
         /\ f \in Held => Seen[f] = "hashing"
         /\ f \notin Held /\ f \in hashed =>
              Seen[f] = IF f \in bad THEN "failed" ELSE "hashed"
  BY DEF Seen, StateOf, Held

\* The same of the next state.
LEMMA StateNext ==
  ASSUME File' = File, bad' = bad, NEW f \in File
  PROVE  /\ f \in Held' => Seen'[f] = "hashing"
         /\ f \notin Held' /\ f \notin hashed' => Seen'[f] = "waiting"
         /\ f \notin Held' /\ f \in hashed' =>
              Seen'[f] = IF f \in bad THEN "failed" ELSE "hashed"
  BY DEF Seen, StateOf, Held

\* A file whose hashing and hashed stay is in the same state.
LEMMA StateSame ==
  ASSUME File' = File, bad' = bad, NEW f \in File, f \in Held' <=> f \in Held,
         f \in hashed' <=> f \in hashed
  PROVE  Seen'[f] = Seen[f]
  BY StateIs, StateNext

\* What f = Seen is in terms of functions.
LEMMA SeenIs ==
  /\ DOMAIN Seen = File /\ Seen = [f \in File |-> Seen[f]]
  /\ File' = File => DOMAIN Seen' = File /\ Seen' = [f \in File |-> Seen'[f]]
  BY DEF Seen

LEMMA HeldIs ==
  ASSUME IInv
  PROVE  /\ Held \in SUBSET File /\ IsFiniteSet(Held) /\ Cardinality(Held) \in Nat
         /\ setup.program \notin Alone => \A f \in Held : \E w \in At({"end"}) : hashing[w] = f
<1>1. Held \in SUBSET File
  BY DEF Held
<1>2. IsFiniteSet(Held) /\ Cardinality(Held) \in Nat
  BY <1>1, FileIs DEF IInv, Typed, SetupTyped
<1>3. ASSUME setup.program \notin Alone, NEW f \in Held
      PROVE  \E w \in At({"end"}) : hashing[w] = f
  <2>1. PICK t \in Thread : hashing[t] = f
    BY DEF Held
  <2>2. f # NULL
    BY <1>1, FileIs DEF IInv, Typed, SetupTyped
  <2>3. t \in W /\ worker[t].pc = "end"
    BY <1>3, <2>1, <2>2, WhoHashes
  <2> QED BY <2>1, <2>3 DEF At
<1> QED BY <1>1, <1>2, <1>3

\* Not more files are being hashed than there are workers that do it.
LEMMA HeldByWorkers ==
  ASSUME IInv, setup.program \notin Alone
  PROVE  Cardinality(Held) <= Cardinality(At({"end"})) /\ Cardinality(At({"end"})) \in Nat
<1> DEFINE E == At({"end"})
           by == [f \in Held |-> CHOOSE w \in E : hashing[w] = f]
<1>1. IsFiniteSet(E) /\ Cardinality(E) \in Nat
  <2>1. IsFiniteSet(W) /\ E \in SUBSET W
    BY WIs DEF IInv, Typed, SetupTyped, At
  <2> QED BY <2>1, FS_Subset, FS_CardinalityType
<1>2. IsFiniteSet(Held) /\ Cardinality(Held) \in Nat /\ \A f \in Held : \E w \in E : hashing[w] = f
  BY HeldIs
<1>3. \A f \in Held : by[f] \in E /\ hashing[by[f]] = f
  BY <1>2
<1>4. by \in [Held -> E]
  BY <1>3
<1>5. ~ (Cardinality(E) < Cardinality(Held))
  <2> SUFFICES ASSUME Cardinality(E) < Cardinality(Held) PROVE FALSE
    OBVIOUS
  <2> HIDE DEF E, by
  <2>1. \E x, y \in Held : x # y /\ by[x] = by[y]
    BY <1>1, <1>2, <1>4, FS_PigeonHole
  <2> QED BY <1>3, <2>1
<1> HIDE DEF E
<1> QED BY <1>1, <1>2, <1>5 DEF E

-----------------------------------------------------------------------------
(* The mapping of steps.                                                   *)

\* The terms of a program never change.
LEMMA TermsStay ==
  ASSUME setup' = setup
  PROVE  Terms' = Terms
  BY DEF Terms, Is

LEMMA TermsAre ==
  /\ Terms.files = setup.files
  /\ Terms.limit = CASE setup.program \in Alone -> 1
                     [] Is("reading03") \/ Is("reading04") -> setup.files
                     [] OTHER -> setup.threads
  /\ Terms.inOrder <=> setup.program \in Pooled \cup {"reading02"}
  /\ Terms.counts <=> ~ Is("exam02")
  /\ Terms.givesUp = setup.givesUp
  BY DEF Terms

\* One more file may be hashed.
LEMMA BelowLimit ==
  ASSUME IInv, NEW t \in Thread, NEW f, StartsFile(t, f),
         \/ t = Main /\ setup.program \in Alone
         \/ t \in W /\ (BeginOwn(t) \/ Throttle(t) \/ PopOne(t))
  PROVE  Cardinality(Held) < Terms.limit
<1>1. /\ setup.files \in Nat \ {0} /\ setup.threads \in Nat \ {0}
      /\ setup.program \in PerFile \cup Pooled \cup Alone
  BY SetupIs DEF IInv, Typed, SetupTyped
<1>2. f \in File /\ f \notin Held /\ hashing[t] = NULL
  BY DEF StartsFile, Held
<1>3. CASE t = Main /\ setup.program \in Alone
  <2>1. Held = {}
    <3> SUFFICES ASSUME NEW g \in File, NEW u \in Thread, hashing[u] = g PROVE FALSE
      BY DEF Held
    <3>1. g # NULL
      BY FileIs DEF IInv, Typed, SetupTyped
    <3>2. W = {}
      BY <1>3, WIs DEF IInv, Typed, SetupTyped
    <3>3. u = Main
      BY <3>1, <3>2, WhoHashes
    <3> QED BY <1>2, <1>3, <3>1, <3>3
  <2>2. Terms.limit = 1
    BY <1>3, TermsAre DEF Is, Alone
  <2>3. Cardinality(Held) = 0
    BY <2>1, FS_EmptySet
  <2> QED BY <2>2, <2>3
<1>4. CASE t \in W /\ (BeginOwn(t) \/ Throttle(t) \/ PopOne(t))
  <2>1. setup.program \notin Alone
    BY <1>4, ProgramIs
  <2>2. CASE BeginOwn(t)
    <3>1. setup.program \in {"reading03", "reading04"}
      BY <1>4, <2>2, ProgramIs DEF BeginOwn, Step
    <3>2. Terms.limit = setup.files
      BY <2>1, <3>1, TermsAre DEF Is
    <3>3. IsFiniteSet(File) /\ Cardinality(File) = setup.files
      BY FileIs DEF IInv, Typed, SetupTyped
    <3>4. Held \in SUBSET File /\ Cardinality(Held) \in Nat
      BY HeldIs
    <3>5. Cardinality(Held) <= setup.files /\ Cardinality(Held) # setup.files
      BY <1>2, <3>3, <3>4, FS_Subset
    <3> QED BY <1>1, <3>2, <3>4, <3>5
  <2>3. Cardinality(Held) <= Cardinality(At({"end"})) /\ Cardinality(At({"end"})) \in Nat
        /\ Cardinality(Held) \in Nat
    BY <2>1, HeldByWorkers, HeldIs
  <2>4. CASE PopOne(t)
    <3>1. setup.program \in Pooled /\ worker[t].pc = "pop"
      BY <1>4, <2>4, ProgramIs DEF PopOne, Step
    <3>2. Terms.limit = setup.threads
      BY <2>1, <3>1, TermsAre DEF Is, Pooled
    <3>3. IsFiniteSet(W) /\ Cardinality(W) = setup.threads
      BY <3>1, WIs DEF IInv, Typed, SetupTyped
    <3>4. At({"end"}) \in SUBSET W /\ t \notin At({"end"})
      BY <3>1 DEF At
    <3>5. Cardinality(At({"end"})) <= setup.threads /\ Cardinality(At({"end"})) # setup.threads
      BY <1>4, <3>3, <3>4, FS_Subset
    <3> QED BY <1>1, <2>3, <3>2, <3>5
  <2>5. CASE Throttle(t)
    <3>1. setup.program = "reading06" /\ running > 0 /\ running \in Nat
      BY <1>4, <2>5, ProgramIs DEF Throttle, Step, IInv, Typed, SemTyped
    <3>2. Terms.limit = setup.threads
      BY <2>1, <3>1, TermsAre DEF Is
    <3>3. running + Cardinality(At(Slot)) = setup.threads
      BY <3>1 DEF IInv, Semaphores, Is
    <3>4. IsFiniteSet(At(Slot)) /\ At({"end"}) \in SUBSET At(Slot)
      <4>1. IsFiniteSet(W) /\ At(Slot) \in SUBSET W
        BY WIs DEF IInv, Typed, SetupTyped, At
      <4> QED BY <4>1, FS_Subset DEF At, Slot
    <3>5. Cardinality(At({"end"})) <= Cardinality(At(Slot)) /\ Cardinality(At(Slot)) \in Nat
      BY <3>4, FS_Subset, FS_CardinalityType
    <3> QED BY <1>1, <2>3, <3>1, <3>2, <3>3, <3>5
  <2> QED BY <1>4, <2>2, <2>4, <2>5
<1> QED BY <1>3, <1>4

\* The files before this one have been taken, where there is an order.
LEMMA InOrder ==
  ASSUME IInv, setup.program \in Pooled \cup {"reading02"}, NEW t, NEW f, StartsFile(t, f),
         \/ BeginAlone(f)
         \/ t \in W /\ (BeginOwn(t) \/ Throttle(t) \/ (PopOne(t) /\ f = First))
  PROVE  \A g \in 1 .. f - 1 : g \in File /\ (g \in Held \/ g \in hashed)
<1>1. f \in File /\ File \in SUBSET Nat /\ setup.files \in Nat /\ main.i \in Nat
  BY FileIs, SetupIs DEF StartsFile, IInv, Typed, SetupTyped, MainTyped, MainType
<1>2. \A g \in 1 .. f - 1 : g \in File
  BY <1>1 DEF File
<1>3. CASE BeginAlone(f)
  <2>1. Is("reading02") /\ main.pc = "create" /\ f = main.i /\ setup.program \in Alone
    BY <1>3 DEF BeginAlone, InLoop, Is, Pooled, Alone
  <2>2. hashed = 1 .. main.i - 1
    BY <2>1 DEF IInv, LoopFiles
  <2> QED BY <1>2, <2>1, <2>2
<1>4. CASE t \in W /\ (BeginOwn(t) \/ Throttle(t) \/ (PopOne(t) /\ f = First))
  <2>1. setup.program \in Pooled
    BY <1>4, ProgramIs DEF Alone
  <2>2. PopOne(t) /\ f = First
    BY <1>4, <2>1, ProgramIs DEF BeginOwn, Throttle, Step, Pooled
  <2>3. PICK k \in 0 .. setup.files : Taken(k)
    BY <2>1 DEF IInv, PoolFiles
  <2>4. queue.size > 0 /\ First # NULL /\ k \in Nat
    BY <1>1, <2>2 DEF PopOne, PopTakes
  <2>5. f = k + 1
    BY <2>2, <2>3, <2>4, FirstIs
  <2>6. W \in SUBSET Thread
    BY WIs DEF IInv, Typed, SetupTyped, Thread
  <2> SUFFICES ASSUME NEW g \in 1 .. f - 1 PROVE g \in Held \/ g \in hashed
    BY <1>2
  <2>7. g \in File /\ g <= k
    BY <1>2, <2>4, <2>5
  <2>8. g \in hashed \/ \E w \in W : hashing[w] = g
    BY <2>3, <2>7 DEF Taken
  <2> QED BY <2>6, <2>7, <2>8 DEF Held
<1> QED BY <1>3, <1>4

\* Both modules count in the same way.
LEMMA SameCardinality == \A S : Abstract!Cardinality(S) = Cardinality(S)
  BY DEF Abstract!Cardinality, Cardinality

\* What starts a file is the abstract Start.
LEMMA StartStep ==
  ASSUME IInv, Moves, NEW t \in Thread, NEW f, StartsFile(t, f), main' = main,
         \/ t = Main /\ BeginAlone(f)
         \/ t \in W /\ (BeginOwn(t) \/ Throttle(t) \/ (PopOne(t) /\ f = First))
  PROVE  Abstract!Start(f) /\ f \in File
<1>1. /\ f \in File /\ f \notin hashed /\ f \notin Held /\ hashing'[t] = f /\ hashing[t] = NULL
      /\ \A u \in Thread \ {t} : hashing'[u] = hashing[u]
      /\ hashed' = hashed
  BY DEF StartsFile, Held
<1>2. /\ setup' = setup /\ bad' = bad /\ File' = File /\ NULL \notin File /\ Terms' = Terms
  BY SetupStays, FileIs, TermsStay DEF IInv, Typed, SetupTyped
<1>3. Held' = Held \cup {f}
  <2>1. Held' = {g \in File : \E u \in Thread : hashing'[u] = g}
    BY <1>2 DEF Held
  <2>2. \A g \in File : (\E u \in Thread : hashing'[u] = g) <=>
                          (\E u \in Thread : hashing[u] = g) \/ g = f
    BY <1>1, <1>2
  <2>3. \A g : g \in Held' <=> g \in Held \cup {f}
    BY <1>1, <2>1, <2>2 DEF Held
  <2> QED BY <2>3
<1>4. Seen[f] = "waiting"
  BY <1>1, StateIs
<1>5. Cardinality(Held) < Terms.limit
  BY BelowLimit DEF BeginAlone
<1>6. Held = {g \in DOMAIN Seen : Seen[g] = "hashing"}
  <2>1. \A g \in File : Seen[g] = "hashing" <=> g \in Held
    BY StateIs
  <2> QED BY <2>1, SeenIs DEF Held
<1>7. Terms.inOrder => \A g \in 1 .. f - 1 : Seen[g] # "waiting"
  <2> SUFFICES ASSUME setup.program \in Pooled \cup {"reading02"}, NEW g \in 1 .. f - 1
               PROVE  Seen[g] # "waiting"
    BY TermsAre
  <2>1. g \in File /\ (g \in Held \/ g \in hashed)
    BY InOrder
  <2> QED BY <2>1, StateIs
<1>8. Seen' = [Seen EXCEPT ![f] = "hashing"]
  <2>1. \A g \in File : Seen'[g] = IF g = f THEN "hashing" ELSE Seen[g]
    <3> SUFFICES ASSUME NEW g \in File PROVE Seen'[g] = IF g = f THEN "hashing" ELSE Seen[g]
      OBVIOUS
    <3>1. CASE g = f
      BY <1>2, <1>3, <3>1, StateNext
    <3>2. CASE g # f
      BY <1>1, <1>2, <1>3, <3>2, StateSame
    <3> QED BY <3>1, <3>2
  <2> QED BY <1>1, <1>2, <2>1, SeenIs
<1>9. DOMAIN Seen = File /\ main'.status = main.status
  BY SeenIs
<1>10. Abstract!In("hashing") = Held
  BY <1>6 DEF Abstract!In, Seen
<1>11. Abstract!Start(f)
  BY <1>2, <1>4, <1>5, <1>7, <1>8, <1>9, <1>10, SameCardinality DEF Abstract!Start, Seen
<1> QED BY <1>1, <1>11

\* What ends one is Finish.
LEMMA FinishStep ==
  ASSUME IInv, Moves, NEW t \in Thread, EndsFile(t), main'.status = main.status
  PROVE  Abstract!Finish(hashing[t]) /\ hashing[t] \in File
<1> DEFINE f == hashing[t]
<1>1. /\ f \in File /\ f \notin hashed /\ hashing'[t] = NULL /\ hashed' = hashed \cup {f}
      /\ \A u \in Thread \ {t} : hashing'[u] = hashing[u]
  BY DEF EndsFile
<1>2. /\ setup' = setup /\ bad' = bad /\ File' = File /\ NULL \notin File /\ Terms' = Terms
  BY SetupStays, FileIs, TermsStay DEF IInv, Typed, SetupTyped
<1>3. \A u \in Thread : hashing[u] = f => u = t
  BY <1>1, <1>2 DEF IInv, Exclusive
<1>4. Held' = Held \ {f} /\ f \in Held
  <2>1. Held' = {g \in File : \E u \in Thread : hashing'[u] = g}
    BY <1>2 DEF Held
  <2>2. \A g \in File : (\E u \in Thread : hashing'[u] = g) <=>
                          (\E u \in Thread : hashing[u] = g) /\ g # f
    <3> HIDE DEF f
    <3>1. hashing[t] = f
      BY DEF f
    <3> QED BY <1>1, <1>2, <1>3, <3>1
  <2>3. f \in Held
    BY <1>1 DEF Held
  <2>4. \A g : g \in Held' <=> g \in Held \ {f}
    BY <2>1, <2>2 DEF Held
  <2> QED BY <2>3, <2>4
<1>5. Seen[f] = "hashing"
  BY <1>1, <1>4, StateIs
<1>6. Seen' = [Seen EXCEPT ![f] = IF f \in bad THEN "failed" ELSE "hashed"]
  <2> DEFINE s == IF f \in bad THEN "failed" ELSE "hashed"
  <2>1. \A g \in File : Seen'[g] = IF g = f THEN s ELSE Seen[g]
    <3> SUFFICES ASSUME NEW g \in File PROVE Seen'[g] = IF g = f THEN s ELSE Seen[g]
      OBVIOUS
    <3>1. CASE g = f
      BY <1>1, <1>2, <1>4, <3>1, StateNext
    <3>2. CASE g # f
      BY <1>1, <1>2, <1>4, <3>2, StateSame
    <3> QED BY <3>1, <3>2
  <2> HIDE DEF s, f
  <2> QED BY <1>1, <1>2, <2>1, SeenIs DEF s
<1> HIDE DEF f
<1>7. Abstract!Finish(f)
  BY <1>2, <1>5, <1>6 DEF Abstract!Finish, Seen
<1> QED BY <1>1, <1>7 DEF f

\* Where no file is begun or ended, all of them stay in their states.
LEMMA SeenStays ==
  ASSUME Moves, HashStays
  PROVE  Seen' = Seen /\ Terms' = Terms /\ bad' = bad /\ setup' = setup
<1>1. setup' = setup /\ bad' = bad /\ File' = File /\ Terms' = Terms
  BY SetupStays, TermsStay
<1>2. \A f \in File : Seen'[f] = Seen[f]
  <2> SUFFICES ASSUME NEW f \in File PROVE Seen'[f] = Seen[f]
    OBVIOUS
  <2>1. (f \in Held' <=> f \in Held) /\ (f \in hashed' <=> f \in hashed)
    BY <1>1 DEF HashStays, Held
  <2> QED BY <1>1, <2>1, StateSame
<1> QED BY <1>1, <1>2, SeenIs

-----------------------------------------------------------------------------
(* The exit.                                                               *)

\* When main has joined every worker, everybody is idle.
LEMMA AllJoined ==
  ASSUME IInv, main.pc = "join", main.i > Workforce
  PROVE  /\ \A w \in W : worker[w].pc = "joined"
         /\ \A S : At(S) = IF "joined" \in S THEN W ELSE {}
         /\ \A t \in Thread : hashing[t] = NULL
         /\ Held = {}
<1>1. IsFiniteSet(W) /\ Cardinality(W) = Workforce /\ Workforce \in Nat
  BY WIs DEF IInv, Typed, SetupTyped
<1>2. At({"joined"}) \in SUBSET W /\ Cardinality(At({"joined"})) = main.i - 1
  BY DEF At, IInv, Progress
<1>3. main.i \in Nat
  BY DEF IInv, Typed, MainTyped, MainType
<1>4. Cardinality(At({"joined"})) <= Workforce
  BY <1>1, <1>2, FS_Subset
<1>5. Cardinality(At({"joined"})) = Workforce
  BY <1>1, <1>2, <1>3, <1>4
<1>6. At({"joined"}) = W
  BY <1>1, <1>2, <1>5, FS_Subset
<1>7. \A w \in W : worker[w].pc = "joined"
  BY <1>6 DEF At
<1>8. \A S : At(S) = IF "joined" \in S THEN W ELSE {}
  BY <1>7 DEF At
<1>9. ASSUME NEW t \in Thread, hashing[t] # NULL
      PROVE  FALSE
  <2>1. t = Main /\ setup.program \in Alone
    BY <1>7, <1>9, WhoHashes
  <2> QED BY <1>9, <2>1 DEF IInv, Exclusive
<1>10. Held = {}
  <2>1. NULL \notin File
    BY FileIs DEF IInv, Typed, SetupTyped
  <2> QED BY <1>9, <2>1 DEF Held
<1> QED BY <1>7, <1>8, <1>9, <1>10

\* A pool has not been lost as a whole: some worker got to the sentinel.
LEMMA SomeoneSawTheEnd ==
  ASSUME IInv, SomeoneIsLeft, setup.program \in Pooled, main.pc = "join", main.i > Workforce
  PROVE  \E w \in At(Ended) : worker[w].value = 0
<1>1. At(Ended) = W
  BY AllJoined DEF Ended
<1>2. /\ IsFiniteSet(W) /\ Cardinality(W) = setup.threads
      /\ setup.threads \in Nat \ {0} /\ setup.failing \in Nat
  BY WIs, SetupIs DEF IInv, Typed, SetupTyped
<1> SUFFICES ASSUME \A w \in W : worker[w].value # 0
             PROVE  FALSE
  BY <1>1
<1>3. \A w \in W : worker[w].value = 1
  BY <1>1 DEF IInv, Counted
<1>4. Failing(Ended) = W
  BY <1>1, <1>3 DEF Failing
<1>5. CASE setup.program = "exam02"
  <2>1. W = {}
    BY <1>4, <1>5 DEF IInv, Counted
  <2> QED BY <1>2, <2>1, FS_EmptySet
<1>6. CASE setup.program = "reading05"
  <2>1. Cardinality(FailedFiles) = setup.threads
    BY <1>2, <1>4, <1>6 DEF IInv, Counted
  <2>2. IsFiniteSet(bad) /\ Cardinality(bad) \in Nat /\ Cardinality(bad) <= setup.failing
    BY FileIs DEF IInv, Typed, SetupTyped
  <2>3. Cardinality(FailedFiles) <= Cardinality(bad)
    BY <2>2, FS_Subset DEF FailedFiles
  <2>4. setup.failing < setup.threads
    BY <1>6 DEF SomeoneIsLeft, IInv, Typed, SetupTyped
  <2> QED BY <1>2, <2>1, <2>2, <2>3, <2>4
<1> QED BY <1>5, <1>6 DEF Pooled

\* And every file has been hashed, or has failed.
LEMMA AllHashed ==
  ASSUME IInv, SomeoneIsLeft, main.pc = "join", main.i > Workforce
  PROVE  hashed = File
<1>1. /\ setup.program \in PerFile \cup Pooled \cup Alone /\ setup.files \in Nat
      /\ hashed \in SUBSET File
  BY SetupIs DEF IInv, Typed, SetupTyped, HashTyped
<1>2. CASE setup.program \in Alone
  BY <1>2 DEF IInv, LoopFiles
<1>3. CASE setup.program \in PerFile
  <2>1. W = File
    BY <1>3, WIs DEF IInv, Typed, SetupTyped
  <2>2. \A w \in W : w \in hashed
    BY <1>3, AllJoined DEF IInv, OwnFiles, Behind
  <2> QED BY <1>1, <2>1, <2>2
<1>4. CASE setup.program \in Pooled
  <2>1. PICK w \in At(Ended) : worker[w].value = 0
    BY <1>4, SomeoneSawTheEnd
  <2>2. PICK k \in 0 .. setup.files : Taken(k)
    BY <1>4 DEF IInv, PoolFiles
  <2>3. k = setup.files
    BY <2>1, <2>2 DEF Taken
  <2>4. \A f \in File : f <= setup.files
    BY <1>1 DEF File
  <2>5. \A f \in File : f \in hashed \/ \E u \in W : hashing[u] = f
    BY <2>2, <2>3, <2>4 DEF Taken
  <2>6. W \in SUBSET Thread /\ NULL \notin File
    BY WIs, FileIs DEF IInv, Typed, SetupTyped, Thread
  <2>7. \A f \in File : f \in hashed
    BY <2>5, <2>6, AllJoined
  <2> QED BY <1>1, <2>7
<1> QED BY <1>1, <1>2, <1>3, <1>4

\* What main returns is the number of files that failed; in exam02 it is 0.
LEMMA AllCounted ==
  ASSUME IInv, main.pc = "join", main.i > Workforce
  PROVE  (IF Is("reading06") THEN failures ELSE main.failures)
           = IF Is("exam02") THEN 0 ELSE Cardinality(FailedFiles)
<1>1. setup.program \in PerFile \cup Pooled \cup Alone /\ main.failures \in Nat /\ failures \in Nat
  BY SetupIs DEF IInv, Typed, SetupTyped, MainTyped, MainType, SemTyped
<1>2. Counted
  BY DEF IInv
<1>3. At({"joined"}) = At(Ended) /\ At(Counts) = {}
  BY AllJoined DEF Ended, Counts
<1>4. Failing({"joined"}) = Failing(Ended)
  BY <1>3 DEF Failing
<1>5. CASE setup.program \in Alone
  BY <1>2, <1>5 DEF Counted, Alone, Is
<1>6. CASE setup.program \in {"reading03", "reading04", "reading05"}
  <2>1. setup.program \notin Alone /\ ~ Is("reading06") /\ ~ Is("exam02")
    BY <1>6 DEF Alone, Is
  <2>2. main.failures = Cardinality(Failing(Ended))
    BY <1>2, <1>4, <2>1 DEF Counted
  <2> QED BY <1>2, <1>6, <2>1, <2>2 DEF Counted
<1>7. CASE setup.program = "reading06"
  <2>1. failures + Cardinality(At(Counts)) = Cardinality(FailedFiles)
    BY <1>2, <1>7 DEF Counted, Is
  <2>2. Cardinality(At(Counts)) = 0
    BY <1>3, FS_EmptySet
  <2> QED BY <1>1, <1>7, <2>1, <2>2 DEF Is
<1>8. CASE setup.program = "exam02"
  <2>1. setup.program \notin Alone /\ ~ Is("reading06")
    BY <1>8 DEF Alone, Is
  <2>2. main.failures = Cardinality(Failing(Ended)) /\ Failing(Ended) = {}
    BY <1>2, <1>4, <1>8, <2>1 DEF Counted
  <2>3. main.failures = 0
    BY <2>2, FS_EmptySet
  <2> QED BY <1>8, <2>1, <2>3 DEF Is
<1> QED BY <1>1, <1>5, <1>6, <1>7, <1>8 DEF PerFile, Pooled

\* The exit of the program is the abstract one.
LEMMA ExitStep ==
  ASSUME IInv, SomeoneIsLeft, Moves, Exit
  PROVE  Abstract!Exit
<1>1. main.pc = "join" /\ main.i > Workforce /\ HashStays
  BY HashKept DEF Exit
<1>2. Held = {} /\ hashed = File
  BY <1>1, AllJoined, AllHashed
<1>3. Seen' = Seen /\ Terms' = Terms /\ bad' = bad
  BY <1>1, SeenStays
<1>4. DOMAIN Seen = File
  BY SeenIs
<1>5. /\ Abstract!In("waiting") = {} /\ Abstract!In("hashing") = {}
      /\ Abstract!In("failed") = FailedFiles
  <2>1. \A f \in File : /\ Seen[f] # "waiting" /\ Seen[f] # "hashing"
                        /\ Seen[f] = "failed" <=> f \in bad
    BY <1>2, StateIs
  <2>2. \A s : Abstract!In(s) = {f \in File : Seen[f] = s}
    BY <1>4 DEF Abstract!In, Seen
  <2>3. FailedFiles = {f \in File : f \in bad}
    BY <1>2 DEF FailedFiles
  <2> QED BY <2>1, <2>2, <2>3
<1>6. main.status = NULL
  BY <1>1 DEF IInv, Located
<1>7. main'.status = (IF Is("exam02") THEN 0 ELSE Cardinality(FailedFiles)) % ExitCodes
  BY <1>1, AllCounted, MainIs DEF EndOfMain
<1>8. main'.status \in 0 .. ExitCodes - 1
  BY <1>1, MainIs DEF EndOfMain
<1>9. Terms.counts => main'.status = Cardinality(FailedFiles) % ExitCodes
  BY <1>7, TermsAre
<1> QED BY <1>3, <1>5, <1>6, <1>8, <1>9, SameCardinality DEF Abstract!Exit, Seen

\* And so is the end of one that cannot set up a worker.
LEMMA GiveUpStep ==
  ASSUME IInv, Moves, GivesUp
  PROVE  Abstract!GiveUp
<1>1. HashStays /\ main.pc # "exited" /\ setup.givesUp
  BY HashKept DEF GivesUp
<1>2. Seen' = Seen /\ Terms' = Terms /\ bad' = bad
  BY <1>1, SeenStays
<1>3. main.status = NULL
  BY <1>1 DEF IInv, Located
<1>4. main'.status = 1 % ExitCodes
  BY MainIs DEF EndOfMain
<1>5. Terms.givesUp
  BY <1>1, TermsAre
<1> QED BY <1>2, <1>3, <1>4, <1>5 DEF Abstract!GiveUp, Seen

-----------------------------------------------------------------------------
(* The refinement.                                                         *)

\* Nothing that the user sees happens.
LEMMA Stutter ==
  ASSUME Moves, HashStays, main'.status = main.status
  PROVE  UNCHANGED Abstract!hvars
  BY SeenStays DEF Abstract!hvars, Seen

\* A step of any kind maps to a step of HashFiles, or to none.
LEMMA NextAbstract ==
  ASSUME IInv, SomeoneIsLeft, [Next]_vars
  PROVE  [Abstract!HNext]_Abstract!hvars
<1>1. Moves
  BY StepsAre
<1>2. DOMAIN [f \in File |-> StateOf(f)] = File
  OBVIOUS
<1>3. \A f \in File : Abstract!Start(f) \/ Abstract!Finish(f) => Abstract!HNext
  BY <1>2 DEF Abstract!HNext
<1>4. W \in SUBSET Thread /\ Main \in Thread
  BY WIs, WorkerIs DEF IInv, Typed, SetupTyped, Thread
<1>5. CASE MainMoves
  <2>1. ASSUME NEW f \in File, BeginAlone(f)
        PROVE  Abstract!HNext
    <3>1. StartsFile(Main, f) /\ main' = main
      BY <2>1, HashIs, MainKept
    <3> QED BY <1>1, <1>3, <1>4, <2>1, <3>1, StartStep
  <2>2. CASE EndAlone
    <3>1. EndsFile(Main) /\ main'.status = main.status
      BY <2>2, HashIs, MainIs DEF RoundOfMain
    <3> QED BY <1>1, <1>3, <1>4, <3>1, FinishStep
  <2>3. CASE Exit
    BY <1>1, <2>3, ExitStep DEF Abstract!HNext
  <2>4. CASE GivesUp
    BY <1>1, <2>4, GiveUpStep DEF Abstract!HNext
  <2>5. CASE \E w \in W : Join(w)
    BY <1>1, <2>5, HashKept, MainIs, Stutter DEF RoundOfMain
  <2>6. CASE Create \/ PushOneFile \/ PushOneSentinel
    BY <1>1, <2>6, HashKept, MainIs, Stutter DEF RoundOfMain
  <2>7. CASE AllCreated \/ DoneAlone \/ Pushed \/ SentinelsPushed
    BY <1>1, <2>7, HashKept, MainIs, Stutter DEF LoopOfMain
  <2> QED BY <1>5, <2>1, <2>2, <2>3, <2>4, <2>5, <2>6, <2>7 DEF MainMoves
<1>6. ASSUME NEW w \in W, WorkerMoves(w)
      PROVE  [Abstract!HNext]_Abstract!hvars
  <2>1. main' = main
    BY <1>6, MainKept
  <2>2. CASE BeginOwn(w) \/ Throttle(w)
    <3>1. StartsFile(w, w)
      BY <2>2, HashIs
    <3> QED BY <1>1, <1>3, <1>4, <2>1, <2>2, <3>1, StartStep
  <2>3. CASE PopOne(w)
    <3>1. StartsFile(w, First)
      BY <2>3, HashIs
    <3> QED BY <1>1, <1>3, <1>4, <2>1, <2>3, <3>1, StartStep
  <2>4. CASE EndAndReturn(w) \/ EndAndPop(w) \/ EndThrottled(w)
    <3>1. EndsFile(w)
      BY <2>4, HashIs
    <3> QED BY <1>1, <1>3, <1>4, <2>1, <3>1, FinishStep
  <2>5. CASE \/ CurlInit(w) \/ PopEnd(w) \/ TakeLock(w) \/ LoadFailures(w) \/ StoreFailures(w)
             \/ ReleaseLock(w) \/ PostRunning(w)
    BY <1>1, <2>1, <2>5, HashKept, Stutter
  <2> QED BY <1>6, <2>2, <2>3, <2>4, <2>5 DEF WorkerMoves
<1>7. CASE Rests
  BY <1>1, <1>7, HashKept, MainKept, Stutter
<1> QED BY <1>1, <1>5, <1>6, <1>7 DEF Moves

LEMMA InitAbstract ==
  ASSUME Init
  PROVE  Abstract!HInit
<1>1. IInv
  BY InvStarts
<1>2. NULL \notin File
  BY <1>1, FileIs DEF IInv, Typed, SetupTyped
<1>3. Held = {} /\ hashed = {} /\ main.status = NULL /\ bad \in SUBSET File
  BY <1>2 DEF Init, Held
<1>4. Seen = [f \in File |-> "waiting"]
  <2>1. \A f \in File : Seen[f] = "waiting"
    BY <1>3, StateIs
  <2> QED BY <2>1, SeenIs
<1>5. File = 1 .. Terms.files
  BY TermsAre DEF File
<1> QED BY <1>3, <1>4, <1>5 DEF Abstract!HInit, Seen

\* Whatever processes, threads or queue a program uses, it begins each file once, within
\* its limit and in its order, and exits after the last of them, unless a worker cannot be
\* set up; and each program but exam02, of whose status nothing is said, exits with the number
\* of failures.  In reading05 this takes more workers than files that fail.
THEOREM FilesHashed == ASSUME SomeoneIsLeft PROVE Spec => ImplementsHashFiles
<1>1. Init => Abstract!HInit
  BY InitAbstract
<1>2. IInv /\ [Next]_vars => [Abstract!HNext]_Abstract!hvars
  BY NextAbstract
<1> QED BY <1>1, <1>2, Invariance, PTL DEF Spec, ImplementsHashFiles, Abstract!HSpec
=============================================================================
