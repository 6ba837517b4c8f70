-------------------------------- MODULE PQSH --------------------------------
(***************************************************************************)
(* Project 01, the process queue shell: the main loop of src/pqsh.c, the   *)
(* scheduler (src/scheduler.c, scheduler_fifo.c, scheduler_rdrn.c), the    *)
(* process functions (src/process.c), its child processes, and the signals *)
(* that the timer and the children send.  A signal handler can run between *)
(* any two steps of the main loop.  Structures are in one of the scheduler's *)
(* three queues (ProcessQueue); processes are in the kernel's tables (os). *)
(***************************************************************************)
EXTENDS ProcessQueue

CONSTANT Options  \* the command lines: what they make Scheduler.policy and .cores

ASSUME OptionsAssumption == Options \subseteq [policy : {"fifo", "rdrn"}, cores : Nat]

VARIABLES options,  \* the command line of this run of the shell
          running, waiting, finished,  \* the queues of the Scheduler
          next,      \* Process.next
          event,     \* Scheduler.event, without the EVENT_INPUT nobody reads
          pc,        \* where the main loop is
          os,        \* each child as the kernel sees it; "none" while pid is 0
          pending,   \* signals sent to the shell and not yet delivered
          added,     \* history: the processes in the order of scheduler_add
          counted,   \* history: those in total_turnaround_time
          children,  \* history: how often each process was forked
          astray     \* history: whether a process was pushed behind a tail that had
                     \* been removed from the running queue

queues  == <<running, waiting, finished, next>>
history == <<added, counted, children, astray>>
vars    == <<options, queues, event, pc, os, pending, history>>

Init == /\ options \in Options
        /\ running = EmptyQueue /\ waiting = EmptyQueue /\ finished = EmptyQueue
        /\ next = [p \in Process |-> NULL]
        /\ event = {}
        /\ pc = "enter"
        /\ os = [p \in Process |-> "none"]
        /\ pending = {}
        /\ added = << >>
        /\ counted = {}
        /\ children = [p \in Process |-> 0]
        /\ astray = FALSE

Goto(from, to) == pc = from /\ pc' = to

-----------------------------------------------------------------------------
(* The world: children exit, the timer ticks, signals arrive.              *)

\* A child that is not stopped exits (or its exec fails): SIGCHLD.
ChildExits(p) == /\ os[p] = "run"
                 /\ os' = [os EXCEPT ![p] = "zombie"]
                 /\ pending' = pending \cup {"child"}
                 /\ UNCHANGED <<queues, event, pc, history, options>>

TimerTicks == /\ pending' = pending \cup {"timer"}
              /\ UNCHANGED <<queues, event, pc, os, history, options>>

\* scheduler_handle_sigalrm and scheduler_handle_sigchld.  Without SA_RESTART a
\* signal also makes a blocked fgets return; one that comes just before fgets
\* blocks does not.
Deliver(s) == /\ s \in pending
              /\ pending' = pending \ {s}
              /\ event' = event \cup {s}
              /\ pc' = IF pc = "blocked" THEN "check_child" ELSE pc
              /\ UNCHANGED <<queues, os, history, options>>

-----------------------------------------------------------------------------
(* The main loop.                                                          *)

\* fgets blocks for input.
EnterFgets == /\ Goto("enter", "blocked")
              /\ UNCHANGED <<queues, event, os, pending, history, options>>

\* The command "add": scheduler_add.  The events are not looked at after a command.
Add(p) == /\ Goto("blocked", "enter")
          /\ p \notin {added[i] : i \in DOMAIN added}
          /\ LET r == Push(waiting, next, p)
             IN  waiting' = r.queue /\ next' = r.next
          /\ added' = Append(added, p)
          /\ UNCHANGED <<running, finished, event, os, pending, counted, children, astray, options>>

\* Any other line (help, status, an empty one): nothing changes but that the
\* events that came in since the last checks wait for the next interrupted fgets.
OtherCommand == /\ Goto("blocked", "enter")
                /\ UNCHANGED <<queues, event, os, pending, history, options>>

\* "quit", or the end of the input: the shell exits and leaves its children.
Quit == /\ Goto("blocked", "quit")
        /\ UNCHANGED <<queues, event, os, pending, history, options>>

CheckChild == /\ Goto("check_child", IF "child" \in event THEN "wait" ELSE "check_timer")
              /\ UNCHANGED <<queues, event, os, pending, history, options>>

\* One turn of the loop in scheduler_wait.  A child that is not in the running
\* queue is reaped all the same and its structure is left where it is.
WaitChild(p) == /\ Goto("wait", "wait")
                /\ os[p] = "zombie"
                /\ os' = [os EXCEPT ![p] = "reaped"]
                /\ \/ /\ p \notin Members(running, next)
                      /\ UNCHANGED <<queues, counted>>
                   \/ /\ p \in Members(running, next)
                      /\ LET r == Remove(running, next, p)
                             f == Push(finished, r.next, p)
                         IN  running' = r.queue /\ finished' = f.queue /\ next' = f.next
                      /\ counted' = counted \cup {p}
                      /\ UNCHANGED waiting
                /\ UNCHANGED <<event, pending, added, children, astray, options>>

WaitDone == /\ Goto("wait", "check_timer")
            /\ \A p \in Process : os[p] # "zombie"
            /\ UNCHANGED <<queues, event, os, pending, history, options>>

\* scheduler_next picks the policy.
CheckTimer == /\ Goto("check_timer", IF "timer" \notin event THEN "reset"
                                     ELSE IF options.policy = "fifo" THEN "fifo" ELSE "pause")
              /\ UNCHANGED <<queues, event, os, pending, history, options>>

\* s->event = EVENT_INPUT, whatever the handlers have added since the checks.
Reset == /\ Goto("reset", "enter")
         /\ event' = {}
         /\ UNCHANGED <<queues, os, pending, history, options>>

-----------------------------------------------------------------------------
(* process_start, process_pause, process_resume: what they do in the kernel. *)

Fork(p) == /\ os' = [os EXCEPT ![p] = "run"]
           /\ children' = [children EXCEPT ![p] = @ + 1]
           /\ UNCHANGED pending
\* SIGSTOP and SIGCONT change nothing about a zombie; a child that stops or
\* continues sends SIGCHLD too, for the handler is not set with SA_NOCLDSTOP.
SigStop(p) == IF os[p] = "run" THEN /\ os' = [os EXCEPT ![p] = "stop"]
                                    /\ pending' = pending \cup {"child"}
                               ELSE UNCHANGED <<os, pending>>
SigCont(p) == IF os[p] = "stop" THEN /\ os' = [os EXCEPT ![p] = "run"]
                                     /\ pending' = pending \cup {"child"}
                                ELSE UNCHANGED <<os, pending>>
\* process_pause and process_resume fail on a structure without a pid, and on a
\* child that has been reaped (ESRCH).
KillFails(p) == os[p] \in {"none", "reaped"}

\* The error exit of both policies: the process p just popped, if there is one, is
\* moved to the finished queue, and the round ends.
MoveToFinished(p, nextAfterPop) ==
  IF p = NULL THEN finished' = finished /\ next' = nextAfterPop
              ELSE LET f == Push(finished, nextAfterPop, p)
                   IN  finished' = f.queue /\ next' = f.next

-----------------------------------------------------------------------------
(* scheduler_fifo, one turn of its loop per step.                          *)

\* Slip: one core is left idle.
FifoMoreButOne == running.size + 1 < options.cores /\ waiting.size > 0
FifoMore == running.size < options.cores /\ waiting.size > 0

\* The next push goes behind a process that is no longer in the queue: its size
\* will count one that cannot be reached from its head.
TailRemoved(q) == q.head # NULL /\ q.tail # NULL /\ q.tail \notin Members(q, next)

\* Slip: the process started is not put into the running queue.
FifoStartUnlisted == /\ Goto("fifo", "fifo")
                     /\ FifoMore /\ waiting.head # NULL
                     /\ LET w == Pop(waiting, next)
                        IN  waiting' = w.queue /\ next' = w.next /\ Fork(waiting.head)
                     /\ UNCHANGED <<running, finished, event, added, counted, astray, options>>

FifoStart == /\ Goto("fifo", "fifo")
             /\ FifoMore /\ waiting.head # NULL
             /\ LET p == waiting.head
                    w == Pop(waiting, next)
                    r == Push(running, w.next, p)
                IN  /\ waiting' = w.queue /\ running' = r.queue /\ next' = r.next
                    /\ Fork(p)
             /\ astray' = (astray \/ TailRemoved(running))
             /\ UNCHANGED <<finished, event, added, counted, options>>

FifoForkFails == /\ Goto("fifo", "reset")
                 /\ FifoMore /\ waiting.head # NULL
                 /\ LET w == Pop(waiting, next)
                    IN  waiting' = w.queue /\ MoveToFinished(waiting.head, w.next)
                 /\ UNCHANGED <<running, event, os, pending, history, options>>

FifoDone == /\ Goto("fifo", "reset")
            /\ ~FifoMore \/ waiting.head = NULL
            /\ UNCHANGED <<queues, event, os, pending, history, options>>

-----------------------------------------------------------------------------
(* scheduler_rdrn: pause everything that runs, then fill the cores.        *)

\* One turn of the first loop.  The error exit leaves the rest running.
RdrnPause == /\ pc = "pause" /\ running.size > 0
             /\ LET p == running.head
                    r == Pop(running, next)
                    w == Push(waiting, r.next, p)
                IN  /\ running' = r.queue
                    /\ IF p # NULL /\ ~KillFails(p)
                         THEN /\ waiting' = w.queue /\ next' = w.next
                              /\ SigStop(p)
                              /\ UNCHANGED <<finished, pc>>
                         ELSE /\ MoveToFinished(p, r.next)
                              /\ pc' = "reset"
                              /\ UNCHANGED <<waiting, os, pending>>
             /\ UNCHANGED <<event, history, options>>

RdrnPaused == /\ Goto("pause", "fill")
              /\ running.size = 0
              /\ UNCHANGED <<queues, event, os, pending, history, options>>

\* Slip: one process too many.
RdrnMoreAndOne == waiting.size > 0 /\ running.size <= options.cores

RdrnMore == waiting.size > 0 /\ running.size < options.cores

\* Slips: a process that has a pid is not resumed; it is started again.
RdrnFillWith(kernel(_)) == /\ Goto("fill", "fill")
                           /\ RdrnMore /\ waiting.head # NULL
                           /\ LET w == Pop(waiting, next)
                                  r == Push(running, w.next, waiting.head)
                              IN  /\ kernel(waiting.head)
                                  /\ waiting' = w.queue /\ running' = r.queue /\ next' = r.next
                           /\ UNCHANGED <<finished, event, added, counted, astray, options>>
RdrnFillNoResume ==
  RdrnFillWith(LAMBDA p : IF os[p] = "none" THEN Fork(p)
                                            ELSE UNCHANGED <<os, pending, children>>)
RdrnFillRestarts == RdrnFillWith(Fork)

RdrnFill == /\ Goto("fill", "fill")
            /\ RdrnMore /\ waiting.head # NULL
            /\ LET p == waiting.head
                   w == Pop(waiting, next)
                   r == Push(running, w.next, p)
               IN  /\ \/ os[p] = "none" /\ Fork(p)
                      \/ ~KillFails(p) /\ SigCont(p) /\ UNCHANGED children
                   /\ waiting' = w.queue /\ running' = r.queue /\ next' = r.next
            /\ UNCHANGED <<finished, event, added, counted, astray, options>>

\* The structure has no pid and fork fails, or its child was reaped while it was
\* waiting and resuming it fails.
RdrnFillFails == /\ Goto("fill", "reset")
                 /\ RdrnMore
                 /\ waiting.head # NULL => KillFails(waiting.head)
                 /\ LET w == Pop(waiting, next)
                    IN  waiting' = w.queue /\ MoveToFinished(waiting.head, w.next)
                 /\ UNCHANGED <<running, event, os, pending, history, options>>

RdrnDone == /\ Goto("fill", "reset")
            /\ ~RdrnMore
            /\ UNCHANGED <<queues, event, os, pending, history, options>>

-----------------------------------------------------------------------------
Loop == \/ EnterFgets \/ CheckChild \/ WaitDone \/ CheckTimer \/ Reset
        \/ \E p \in Process : WaitChild(p)
        \/ FifoStart \/ FifoForkFails \/ FifoDone
        \/ RdrnPause \/ RdrnPaused
        \/ RdrnFill \/ RdrnFillFails \/ RdrnDone

Next == \/ Loop \/ OtherCommand \/ Quit \/ TimerTicks
        \/ \E p \in Process : Add(p) \/ ChildExits(p)
        \/ \E s \in {"timer", "child"} : Deliver(s)

(* The loop runs on and signals are delivered.  The timer's period is long   *)
(* against one pass of the loop, which sits in fgets nearly all the time: it *)
(* is there that some ticks come and interrupt it, however often the user    *)
(* types (SF).  Children need not exit and the user need not type.           *)
Fairness == /\ WF_vars(Loop) /\ WF_vars(Deliver("child"))
            /\ SF_vars(pc = "blocked" /\ TimerTicks)
            /\ SF_vars(pc = "blocked" /\ Deliver("timer"))

SafeSpec == Init /\ [][Next]_vars
Spec     == SafeSpec /\ Fairness

-----------------------------------------------------------------------------
(* Properties.                                                             *)

QueueType == [head : Pointer, tail : Pointer, size : 0 .. Cardinality(Process)]

\* Every variable holds a value of its type; no size_t counter wraps below 0 or
\* outgrows the processes there are.
TypeOK ==
  /\ options \in Options
  /\ running \in QueueType /\ waiting \in QueueType /\ finished \in QueueType
  /\ next \in [Process -> Pointer]
  /\ event \subseteq {"timer", "child"} /\ pending \subseteq {"timer", "child"}
  /\ pc \in {"enter", "blocked", "check_child", "wait", "check_timer", "fifo", "pause",
             "fill", "reset", "quit"}
  /\ os \in [Process -> {"none", "run", "stop", "zombie", "reaped"}]
  /\ added \in Seq(Process)
  /\ counted \subseteq Process
  /\ children \in [Process -> Nat] /\ astray \in BOOLEAN

Added == {added[i] : i \in DOMAIN added}

QueueList == <<running, waiting, finished>>

\* Each process that was added is in exactly one queue, reached from its head, and the
\* size of a queue is the number of processes in it: always under round robin and on one
\* core, and under FIFO on more of them until a process is pushed behind a removed tail.
QueuesOK ==
  /\ astray => options.policy = "fifo" /\ options.cores > 1
  /\ ~astray =>
       /\ UNION {Members(QueueList[i], next) : i \in 1 .. 3} = Added
       /\ \A i, j \in 1 .. 3 :
            i # j => Members(QueueList[i], next) \cap Members(QueueList[j], next) = {}
       /\ \A i \in 1 .. 3 : QueueList[i].size = Cardinality(Members(QueueList[i], next))

\* No more children execute at the same time than there are cores, in the middle
\* of a round too.
CoresBound == Cardinality({p \in Process : os[p] = "run"}) <= options.cores

\* A child that is stopped has its structure in the waiting queue, from where it will be
\* resumed, and no structure waits whose child executes.
StoppedWait == \A p \in Process : /\ os[p] = "stop" => p \in Members(waiting, next)
                                  /\ p \in Members(waiting, next) => os[p] # "run"

\* Processes are started in the order in which they were added: until a push goes
\* astray, one whose predecessor has not been started (or failed to start) is not started.
StartOrder ==
  ~astray =>
    \A i, j \in DOMAIN added :
      i < j /\ os[added[j]] # "none" =>
        os[added[i]] # "none" \/ added[i] \in Members(finished, next)

\* A process has one child: it is forked at most once, whatever the child does, and a
\* child that ended or was reaped does not execute again.
OneChild == [][\A p \in Process : /\ os[p] # "none" => os'[p] # "none"
                                  /\ os[p] = "zombie" => os'[p] \in {"zombie", "reaped"}
                                  /\ os[p] = "reaped" => os'[p] = "reaped"
                                  /\ children'[p] <= 1]_vars

\* Pausing the running processes never takes its error exit: the running queue is
\* never empty when its size is positive, and whoever is in it has a child that
\* was not reaped.
PauseSucceeds ==
  pc = "pause" /\ running.size > 0 => running.head # NULL /\ ~KillFails(running.head)

\* The comment on scheduler_fifo: when it returns without an error, either
\* nothing waits or every core has a child that was not reaped yet.
AllCoresTaken == \/ waiting.size = 0
                 \/ Cardinality({p \in Process : os[p] \in {"run", "zombie"}}) >= options.cores
FifoFillsCores == [][FifoDone => AllCoresTaken]_vars

\* What holds of it: with any number of cores, up to the first push behind a removed tail.
FifoFillsCoresAtFirst == [][FifoDone /\ ~astray => AllCoresTaken]_vars

\* The comment on scheduler_wait, under FIFO, where a child that ends is in the running
\* queue until a push goes astray: whatever child it reaped is in the finished queue and in
\* the metrics.  (Under round robin a child that ends just before its pause is in neither.)
FifoReapedCounted ==
  options.policy = "fifo" /\ ~astray =>
    \A p \in Process : os[p] = "reaped" => p \in Members(finished, next) \cap counted

\* The README's answer on scheduler_wait: a child that terminates is moved to the
\* finished queue.
TerminatedFinished ==
  \A p \in Process : os[p] = "zombie" ~> (p \in Members(finished, next) \/ pc = "quit")

\* Round robin: whatever the other children do, each process that waits gets its
\* first or its next turn.
EveryProcessGetsATurn ==
  \A p \in Process :
    (options.policy = "rdrn" /\ p \in Members(waiting, next)) ~>
      (p \in Members(running, next) \cup Members(finished, next) \/ pc = "quit")
=============================================================================
