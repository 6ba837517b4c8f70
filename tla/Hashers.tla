------------------------------ MODULE Hashers ------------------------------
(***************************************************************************)
(* One exercise in seven versions: hash (or, in exam02, download) the files  *)
(* named on the command line and count the failures.                       *)
(*   reading02  in a loop                                                  *)
(*   reading03  a process per file; the parent adds up their statuses      *)
(*   reading04  a thread per file; main adds up what they return           *)
(*   reading05  a pool of threads on a bounded queue                       *)
(*   reading06  a thread per file, throttled by the semaphore Running;     *)
(*              a counter under the semaphore Lock                         *)
(*   exam02     a pool on a bounded queue that goes on after a failure     *)
(*   reading11  in a loop that walks through directories; what stat or     *)
(*              opendir refuses counts as a file that fails                *)
(* What sha1sum_file does with its own data is left out: it hashes one     *)
(* file or fails.  A process and a thread are both a worker here.          *)
(***************************************************************************)
EXTENDS BoundedQueue, FiniteSets, FiniteSetsExt

CONSTANTS Setups,     \* bound: programs and their command lines
          ExitCodes   \* the number of values of an exit status

PerFile == {"reading03", "reading04", "reading06"}
Pooled  == {"reading05", "exam02"}
Alone   == {"reading02", "reading11"}

ASSUME HashersAssumption ==
  /\ ExitCodes \in Nat \ {0}
  /\ \A s \in Setups :
       /\ s.program \in PerFile \cup Pooled \cup Alone
       /\ {s.files, s.threads, s.capacity} \subseteq Nat \ {0} /\ s.failing \in Nat
       /\ s.givesUp \in BOOLEAN

VARIABLES setup,     \* the program of this run: threads is MAX_THREADS or Concurrency,
                     \* capacity QSIZE; givesUp: it may fail to set up a worker
          bad,       \* the files that cannot be hashed
          main,      \* the main thread
          worker,    \* the other threads, or the children
          hashing,   \* the file each of them is hashing
          hashed,    \* the files that have been hashed, or could not be
          running,   \* sem_t Running
          lock,      \* sem_t Lock
          failures   \* Failures, reading06's global counter

vars == <<setup, bad, main, worker, hashing, hashed, running, lock, failures, queue, asleep>>

Main == 0
Workers(s) == CASE s.program \in PerFile -> 1 .. s.files
                [] s.program \in Pooled  -> 1 .. s.threads
                [] OTHER                 -> {}
Worker == UNION {Workers(s) : s \in Setups}
Thread == {Main} \cup Worker
File   == 1 .. setup.files

Is(program) == setup.program = program

Init == /\ setup \in Setups
        /\ bad \in {B \in SUBSET File : Cardinality(B) <= setup.failing}
        /\ main = [pc |-> "create", i |-> 1, failures |-> 0, status |-> NULL]
        /\ worker = [w \in Worker |-> [pc |-> "none", value |-> 0]]
        /\ hashing = [t \in Thread |-> NULL]
        /\ hashed = {}
        /\ running = setup.threads
        /\ lock = 1
        /\ failures = 0
        /\ queue = Created(setup.capacity)
        /\ asleep = [c \in Conditions |-> {}]

queueVars == <<queue, asleep>>
semVars   == <<running, lock, failures>>
hashVars  == <<hashing, hashed>>

\* sha1sum_file, in exam02 the download of a file, is called and returns.
Begin(t, f) == /\ hashing' = [hashing EXCEPT ![t] = f]
               /\ UNCHANGED hashed
End(t) == /\ hashing' = [hashing EXCEPT ![t] = NULL]
          /\ hashed' = hashed \cup {hashing[t]}

-----------------------------------------------------------------------------
(* main                                                                    *)

\* main is in the loop pc, whose variable i has not reached its end.
InLoop(pc, last) == main.pc = pc /\ main.i <= last

LoopEnds(pc, last, next) ==
  /\ main.pc = pc /\ main.i > last
  /\ main' = [main EXCEPT !.pc = next, !.i = 1]
  /\ UNCHANGED <<setup, bad, worker, hashVars, semVars, queueVars>>

Workforce == Cardinality(Workers(setup))
FirstStep == CASE Is("exam02")    -> "init"
               [] Is("reading05") -> "pop"
               [] Is("reading06") -> "throttle"
               [] OTHER           -> "begin"

\* fork, or pthread_create.
Create == /\ InLoop("create", Workforce)
          /\ worker' = [worker EXCEPT ![main.i].pc = FirstStep]
          /\ main' = [main EXCEPT !.i = @ + 1]
          /\ UNCHANGED <<setup, bad, hashVars, semVars, queueVars>>

ExitFailure == /\ main' = [main EXCEPT !.pc = "exited", !.status = 1 % ExitCodes]
               /\ UNCHANGED <<setup, bad, worker, hashVars, semVars, queueVars>>

\* It fails.  (reading06 tries again then.)
ForkFails == /\ setup.givesUp /\ ~Is("reading06") /\ InLoop("create", Workforce)
             /\ ExitFailure

AllCreated == /\ setup.program \notin Alone
              /\ LoopEnds("create", Workforce, IF setup.program \in Pooled THEN "push" ELSE "join")

\* reading02 and reading11 have no workers.  reading11 gets to the files of a directory
\* in the order in which readdir lists them: here, in any order.
BeginAlone(f) == /\ setup.program \in Alone /\ InLoop("create", setup.files)
                 /\ hashing[Main] = NULL /\ f \notin hashed
                 /\ Is("reading02") => f = main.i
                 /\ Begin(Main, f)
                 /\ UNCHANGED <<setup, bad, main, worker, semVars, queueVars>>

EndAlone == /\ setup.program \in Alone /\ hashing[Main] # NULL
            /\ End(Main)
            /\ main' = [main EXCEPT !.i = @ + 1,
                                    !.failures = @ + IF hashing[Main] \in bad THEN 1 ELSE 0]
            /\ UNCHANGED <<setup, bad, worker, semVars, queueVars>>

DoneAlone == setup.program \in Alone /\ LoopEnds("create", setup.files, "join")

PushFile == /\ InLoop("push", setup.files)
            /\ \/ PushWaits(Main) /\ UNCHANGED main
               \/ PushPuts(Main, main.i) /\ main' = [main EXCEPT !.i = @ + 1]
            /\ UNCHANGED <<setup, bad, worker, hashVars, semVars>>

Pushed == LoopEnds("push", setup.files, "sentinels")

PushSentinel == /\ InLoop("sentinels", setup.threads)
                /\ \/ PushWaits(Main) /\ UNCHANGED main
                   \/ PushPuts(Main, NULL) /\ main' = [main EXCEPT !.i = @ + 1]
                /\ UNCHANGED <<setup, bad, worker, hashVars, semVars>>

SentinelsPushed == LoopEnds("sentinels", setup.threads, "join")

\* wait takes any child that has ended, pthread_join the next thread.
Join(w) == /\ InLoop("join", Workforce)
           /\ Is("reading03") \/ w = main.i
           /\ worker[w].pc = "returned"
           /\ worker' = [worker EXCEPT ![w].pc = "joined"]
           /\ main' = [main EXCEPT !.i = @ + 1, !.failures = @ + worker[w].value]
           /\ UNCHANGED <<setup, bad, hashVars, semVars, queueVars>>

\* The kernel keeps the low bits of what main returns.
Exit == /\ main.pc = "join" /\ main.i > Workforce
        /\ main' = [main EXCEPT !.pc = "exited",
                      !.status = (IF Is("reading06") THEN failures ELSE main.failures) % ExitCodes]
        /\ UNCHANGED <<setup, bad, worker, hashVars, semVars, queueVars>>

MainStep == \/ Create \/ ForkFails \/ AllCreated
            \/ (\E f \in File : BeginAlone(f)) \/ EndAlone \/ DoneAlone
            \/ PushFile \/ Pushed \/ PushSentinel \/ SentinelsPushed
            \/ (\E w \in Worker : Join(w)) \/ Exit

-----------------------------------------------------------------------------
(* the workers                                                             *)

Step(w, from, to) == /\ worker[w].pc = from
                     /\ worker' = [worker EXCEPT ![w].pc = to]

Returns(w, from, v) == /\ worker[w].pc = from
                       /\ worker' = [worker EXCEPT ![w] = [pc |-> "returned", value |-> v]]

\* Threads end with the program; the children go on without their parent.
Alive == Is("reading03") \/ main.pc # "exited"

\* curl_easy_init; if it fails, the thread ends the program.
CurlInit(w) == /\ Step(w, "init", "pop")
               /\ UNCHANGED <<setup, bad, main, hashVars, semVars, queueVars>>

CurlInitFails(w) == /\ setup.givesUp /\ worker[w].pc = "init"
                    /\ ExitFailure

\* A child, or a thread of reading04, starts on the file it was created for.
BeginOwn(w) == /\ Step(w, "begin", "end")
               /\ Begin(w, w)
               /\ UNCHANGED <<setup, bad, main, semVars, queueVars>>

\* sem_wait(&Running)
Throttle(w) == /\ Step(w, "throttle", "end")
               /\ running > 0 /\ running' = running - 1
               /\ Begin(w, w)
               /\ UNCHANGED <<setup, bad, main, lock, failures, queueVars>>

PopFile(w) == /\ UNCHANGED <<setup, bad, main, semVars>>
              /\ \/ /\ PopTakes(w)
                    /\ Step(w, "pop", "end")
                    /\ Begin(w, First)
                 \/ /\ worker[w].pc = "pop"
                    /\ PopWaits(w)
                    /\ UNCHANGED <<worker, hashVars>>

\* The loop over the queue ends at the sentinel.
PopEnd(w) == /\ PopSentinel(w)
             /\ Returns(w, "pop", 0)
             /\ UNCHANGED <<setup, bad, main, hashVars, semVars>>

Failed(w) == hashing[w] \in bad

\* reading03 and reading04 return the failure, and so does reading05, in which the
\* worker does not take the next file then.
EndAndReturn(w) == /\ Is("reading03") \/ Is("reading04") \/ (Is("reading05") /\ Failed(w))
                   /\ Returns(w, "end", IF Failed(w) THEN 1 ELSE 0)
                   /\ End(w)
                   /\ UNCHANGED <<setup, bad, main, semVars, queueVars>>

\* exam02 goes on in any case, and keeps no count.
EndAndPop(w) == /\ Is("exam02") \/ (Is("reading05") /\ ~Failed(w))
                /\ Step(w, "end", "pop")
                /\ End(w)
                /\ UNCHANGED <<setup, bad, main, semVars, queueVars>>

EndThrottled(w) == /\ Is("reading06")
                   /\ Step(w, "end", IF Failed(w) THEN "lock" ELSE "post")
                   /\ End(w)
                   /\ UNCHANGED <<setup, bad, main, semVars, queueVars>>

\* Slip: the semaphore is looked at, not taken.
TakeLockLooks(w) == /\ Step(w, "lock", "load")
                    /\ lock > 0
                    /\ UNCHANGED <<setup, bad, main, hashVars, semVars, queueVars>>

\* sem_wait(&Lock)
TakeLock(w) == /\ Step(w, "lock", "load")
               /\ lock > 0 /\ lock' = lock - 1
               /\ UNCHANGED <<setup, bad, main, hashVars, running, failures, queueVars>>

\* Failures++ is a load and a store.
LoadFailures(w) == /\ worker[w].pc = "load"
                   /\ worker' = [worker EXCEPT ![w] = [pc |-> "store", value |-> failures]]
                   /\ UNCHANGED <<setup, bad, main, hashVars, semVars, queueVars>>

StoreFailures(w) == /\ Step(w, "store", "unlock")
                    /\ failures' = worker[w].value + 1
                    /\ UNCHANGED <<setup, bad, main, hashVars, running, lock, queueVars>>

\* sem_post(&Lock)
ReleaseLock(w) == /\ Step(w, "unlock", "post")
                  /\ lock' = lock + 1
                  /\ UNCHANGED <<setup, bad, main, hashVars, running, failures, queueVars>>

\* sem_post(&Running)
PostRunning(w) == /\ Returns(w, "post", 0)
                  /\ running' = running + 1
                  /\ UNCHANGED <<setup, bad, main, hashVars, lock, failures, queueVars>>

WorkerStep(w) == /\ Alive
                 /\ \/ CurlInit(w) \/ CurlInitFails(w)
                    \/ BeginOwn(w) \/ Throttle(w) \/ PopFile(w) \/ PopEnd(w)
                    \/ EndAndReturn(w) \/ EndAndPop(w) \/ EndThrottled(w)
                    \/ TakeLock(w) \/ LoadFailures(w) \/ StoreFailures(w)
                    \/ ReleaseLock(w) \/ PostRunning(w)

Wakeup == /\ \E t \in Thread : SpuriousWakeup(t)
          /\ UNCHANGED <<setup, bad, main, worker, hashVars, semVars>>

-----------------------------------------------------------------------------

Next == MainStep \/ (\E w \in Worker : WorkerStep(w)) \/ Wakeup

\* Every thread runs, and every file is hashed or fails in finite time.  Weak fairness
\* is enough for the semaphores, since each worker posts once.
Spec == /\ Init /\ [][Next]_vars
        /\ WF_vars(MainStep)
        /\ \A w \in Worker : WF_vars(WorkerStep(w))

-----------------------------------------------------------------------------
(* Properties                                                              *)

WorkerSteps == {"none", "init", "begin", "throttle", "pop", "end", "lock", "load", "store",
                "unlock", "post", "returned", "joined"}

\* Types; the indices stay in the array and agree with the size, only files and sentinels
\* are in it, and a sleeping thread is one that waits for the other side.
TypeOK ==
  /\ main.pc \in {"create", "push", "sentinels", "join", "exited"}
  /\ main.i \in Nat /\ main.failures \in Nat
  /\ main.status \in {NULL} \cup 0 .. ExitCodes - 1
  /\ worker \in [Worker -> [pc : WorkerSteps, value : Nat]]
  /\ hashing \in [Thread -> File \cup {NULL}] /\ hashed \subseteq File
  /\ running \in 0 .. setup.threads /\ lock \in {0, 1} /\ failures \in Nat
  /\ queue.data \in [0 .. queue.capacity - 1 -> File \cup {NULL}]
  /\ {queue.reader, queue.writer} \subseteq 0 .. queue.capacity - 1
  /\ queue.size \in 0 .. queue.capacity
  /\ queue.writer = (queue.reader + queue.size) % queue.capacity
  /\ asleep["consumed"] \subseteq {Main} /\ asleep["produced"] \subseteq Worker

\* The state of a file as the user sees it.
StateOf(f) == IF \E t \in Thread : hashing[t] = f THEN "hashing"
              ELSE IF f \notin hashed THEN "waiting"
              ELSE IF f \in bad THEN "failed" ELSE "hashed"

\* What each program promises: reading05, reading06 and exam02 limit how many files are
\* hashed at a time, and reading02 and the queues keep the order.  All but exam02 count
\* their failures.  The threads of exam02 return NULL, so that it exits with success whatever
\* failed, where exam02/README.md:29 asks for a failure: no status is promised here.
Terms == [files   |-> setup.files,
          limit   |-> CASE setup.program \in Alone -> 1
                        [] Is("reading03") \/ Is("reading04") -> setup.files
                        [] OTHER -> setup.threads,
          inOrder |-> setup.program \in Pooled \cup {"reading02"},
          counts  |-> ~Is("exam02"),
          givesUp |-> setup.givesUp]

Abstract == INSTANCE HashFiles WITH terms <- Terms, file <- [f \in File |-> StateOf(f)],
                                    status <- main.status

\* Every program hashes every file once, within its limit and in its order, before it
\* exits, unless it fails to set up a worker; and the exit status of each but exam02 is the
\* number of failures of all workers together.
ImplementsHashFiles == Abstract!HSpec

\* The program ends: main is not left in queue_push, pthread_join or wait, whoever sleeps
\* on the queue's conditions at the time of the last pushes.
ProgramEnds == <>(main.status # NULL)
=============================================================================
