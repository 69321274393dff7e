----------------------------- MODULE ThreadPool -----------------------------
(***************************************************************************)
(* ctpl::thread_pool (include/ctpl_stl.h), which runs one task per client  *)
(* connection of the server: a queue with a mutex of its own, worker       *)
(* threads that sleep on a condition variable when the queue is empty, and *)
(* an owner that changes the number of threads or stops the pool.          *)
(*                                                                         *)
(* Each operation on the queue, on an atomic flag or on the condition      *)
(* variable is a step of its own.  The pool's mutex is held across steps   *)
(* only by a worker that evaluates the predicate it waits for; a notifier  *)
(* takes it, notifies and lets it go in one step.  Every task is pushed    *)
(* once; nWaiting is only read by n_idle() and is left out.                *)
(***************************************************************************)
EXTENDS Naturals, Sequences, FiniteSets

CONSTANTS
    Threads,     \* the threads the pool may start
    Pushers,     \* the threads that push tasks: the accept loop of the server
    Tasks,
    NoTask,
    Sizes        \* the numbers of threads resize is called with

ASSUME PoolAssumption ==
    /\ IsFiniteSet(Threads)
    /\ IsFiniteSet(Pushers)
    /\ NoTask \notin Tasks
    /\ Sizes \subseteq Nat

VARIABLES
    queue,       \* q
    isDone, isStop,
    flag,        \* the flag each thread was started with
    slots,       \* threads: those of the pool that are not detached, in order
    pc,          \* where each thread is in the loop of set_thread
    task,        \* the task each thread runs
    pushing,     \* the task a pusher has queued but not notified anyone of
    pushed,      \* the tasks that were pushed
    opc, want,   \* where the owner is in resize or stop; the size asked for
    promised     \* what was in the queue when stop(true) was called

vars == <<queue, isDone, isStop, flag, slots, pc, task, pushing, pushed, opc,
          want, promised>>

workerVars == <<flag, pc, task>>
ownerVars == <<isDone, isStop, slots, opc, want, promised>>
pushVars == <<pushing, pushed>>

Asleep == {t \in Threads : pc[t] = "sleep"}

\* The threads between lock and unlock of the pool's mutex.
Testing == {t \in Threads : pc[t] \in {"test_queue", "test_done", "test_flag"}}

MutexFree == Testing = {}

Queued == {queue[i] : i \in DOMAIN queue}

Attached == {slots[i] : i \in DOMAIN slots}

Notifying == {p \in Pushers : pushing[p] # NoTask}

-----------------------------------------------------------------------------

Init ==
    /\ queue = << >>
    /\ isDone = FALSE /\ isStop = FALSE
    /\ flag = [t \in Threads |-> FALSE]
    /\ slots = << >>
    /\ pc = [t \in Threads |-> "absent"]
    /\ task = [t \in Threads |-> NoTask]
    /\ pushing = [p \in Pushers |-> NoTask]
    /\ pushed = {}
    /\ opc = "ready" /\ want = 0
    /\ promised = {}

(***************************************************************************)
(* push: the task is queued first; the waiting threads are notified under  *)
(* the pool's mutex.                                                       *)
(***************************************************************************)
Enqueue(p, x) ==
    /\ pushing[p] = NoTask
    /\ x \notin pushed
    /\ queue' = Append(queue, x)
    /\ pushing' = [pushing EXCEPT ![p] = x]
    /\ pushed' = pushed \cup {x}
    /\ UNCHANGED <<workerVars, ownerVars>>

Notified(p) ==
    /\ \/ /\ Asleep = {}
          /\ UNCHANGED pc
       \/ \E t \in Asleep : pc' = [pc EXCEPT ![t] = "lock"]
    /\ pushing' = [pushing EXCEPT ![p] = NoTask]
    /\ UNCHANGED <<queue, flag, task, ownerVars, pushed>>

\* Mutant: notify_one is called without the mutex.
NotifyUnlocked(p) == pushing[p] # NoTask /\ Notified(p)

NotifyOne(p) == pushing[p] # NoTask /\ MutexFree /\ Notified(p)

(***************************************************************************)
(* The loop of set_thread.                                                 *)
(***************************************************************************)
Goto(t, l) ==
    /\ pc' = [pc EXCEPT ![t] = l]
    /\ UNCHANGED <<queue, flag, task, ownerVars, pushVars>>

TakeTask(t) ==
    /\ queue # << >>
    /\ task' = [task EXCEPT ![t] = Head(queue)]
    /\ queue' = Tail(queue)
    /\ pc' = [pc EXCEPT ![t] = "run"]
    /\ UNCHANGED <<flag, ownerVars, pushVars>>

\* q.pop outside the mutex: at the start and after every task.
Pop(t) ==
    /\ pc[t] = "pop"
    /\ TakeTask(t) \/ (queue = << >> /\ Goto(t, "lock"))

\* Mutant: the thread keeps the task it has run.
FinishKeepsTask(t) == pc[t] = "run" /\ Goto(t, "check_flag")

Finish(t) ==
    /\ pc[t] = "run"
    /\ task' = [task EXCEPT ![t] = NoTask]
    /\ pc' = [pc EXCEPT ![t] = "check_flag"]
    /\ UNCHANGED <<queue, flag, ownerVars, pushVars>>

CheckFlag(t) ==
    /\ pc[t] = "check_flag"
    /\ Goto(t, IF flag[t] THEN "exited" ELSE "pop")

\* Taking the mutex, to wait or to return from waiting.
Lock(t) ==
    /\ pc[t] = "lock"
    /\ MutexFree
    /\ Goto(t, "test_queue")

\* Mutant: the predicate of wait looks at isDone before it looks at the queue.
TestQueueLast(t) ==
    /\ pc[t] = "test_queue"
    /\ IF isDone THEN Goto(t, "exited")
       ELSE TakeTask(t) \/ (queue = << >> /\ Goto(t, "test_done"))

\* The predicate of wait: isPop || isDone || _flag.
TestQueue(t) ==
    /\ pc[t] = "test_queue"
    /\ TakeTask(t) \/ (queue = << >> /\ Goto(t, "test_done"))

TestDone(t) ==
    /\ pc[t] = "test_done"
    /\ Goto(t, IF isDone THEN "exited" ELSE "test_flag")

TestFlag(t) ==
    /\ pc[t] = "test_flag"
    /\ Goto(t, IF flag[t] THEN "exited" ELSE "sleep")

SpuriousWakeup(t) ==
    /\ pc[t] = "sleep"
    /\ Goto(t, "lock")

(***************************************************************************)
(* The owner.  notify_all is called under the pool's mutex.                *)
(***************************************************************************)
\* Mutant: notify_all is called without the mutex.
NotifyAllUnlocked ==
    pc' = [t \in Threads |-> IF pc[t] = "sleep" THEN "lock" ELSE pc[t]]

NotifyAll ==
    /\ MutexFree
    /\ pc' = [t \in Threads |-> IF pc[t] = "sleep" THEN "lock" ELSE pc[t]]

OwnerGoto(l) ==
    /\ opc' = l
    /\ UNCHANGED <<isDone, isStop, slots, want, promised, pushVars>>

(***************************************************************************)
(* resize                                                                  *)
(***************************************************************************)
Absent == {t \in Threads : pc[t] = "absent"}

Resize(n) ==
    /\ opc = "ready" /\ ~isStop /\ ~isDone
    /\ n <= Len(slots) + Cardinality(Absent)   \* bound: Threads suffice
    /\ want' = n
    /\ opc' = IF Len(slots) <= n THEN "grow" ELSE "shrink"
    /\ UNCHANGED <<queue, workerVars, isDone, isStop, slots, promised, pushVars>>

\* The constructor is a resize of an empty pool.
Grow ==
    /\ opc = "grow"
    /\ \/ /\ Len(slots) = want
          /\ OwnerGoto("ready")
          /\ UNCHANGED <<queue, workerVars>>
       \/ \E t \in Absent :
             /\ Len(slots) < want
             /\ pc' = [pc EXCEPT ![t] = "pop"]
             /\ slots' = Append(slots, t)
             /\ UNCHANGED <<queue, flag, task, isDone, isStop, opc, want, promised,
                            pushVars>>

\* The last threads are told to finish and are detached.
Shrink ==
    /\ opc = "shrink"
    /\ \/ /\ Len(slots) = want
          /\ OwnerGoto("shrink_notify")
          /\ UNCHANGED <<queue, workerVars>>
       \/ /\ Len(slots) > want
          /\ flag' = [flag EXCEPT ![slots[Len(slots)]] = TRUE]
          /\ slots' = SubSeq(slots, 1, Len(slots) - 1)
          /\ UNCHANGED <<queue, pc, task, isDone, isStop, opc, want, promised, pushVars>>

ShrinkNotify ==
    /\ opc = "shrink_notify"
    /\ NotifyAll
    /\ OwnerGoto("ready")
    /\ UNCHANGED <<queue, flag, task>>

(***************************************************************************)
(* stop(false): the threads are told to finish and the queue is emptied;   *)
(* stop(true): they finish when they find the queue empty.                 *)
(***************************************************************************)
StopNow ==
    /\ opc = "ready" /\ ~isStop
    /\ isStop' = TRUE
    /\ opc' = "set_flags"
    /\ UNCHANGED <<queue, workerVars, isDone, slots, want, promised, pushVars>>

SetFlags ==
    /\ opc = "set_flags"
    /\ \/ \E i \in DOMAIN slots :
             /\ \A j \in 1..(i - 1) : flag[slots[j]]
             /\ ~flag[slots[i]]
             /\ flag' = [flag EXCEPT ![slots[i]] = TRUE]
             /\ UNCHANGED <<queue, pc, task, ownerVars, pushVars>>
       \/ /\ \A t \in Attached : flag[t]
          /\ OwnerGoto("clear")
          /\ UNCHANGED <<queue, workerVars>>

StopWait ==
    /\ opc = "ready" /\ ~isStop /\ ~isDone
    /\ isDone' = TRUE
    /\ promised' = IF slots = << >> THEN {}
                   ELSE Queued \ {pushing[p] : p \in Pushers}
    /\ opc' = "stop_notify"
    /\ UNCHANGED <<queue, workerVars, isStop, slots, want, pushVars>>

\* clear_queue, before the threads are woken and after they have ended.
Clear ==
    /\ opc \in {"clear", "clear_rest"}
    /\ \/ /\ queue # << >>
          /\ queue' = Tail(queue)
          /\ UNCHANGED <<ownerVars, pushVars>>
       \/ /\ queue = << >> /\ opc = "clear"
          /\ OwnerGoto("stop_notify")
          /\ UNCHANGED queue
       \/ /\ queue = << >> /\ opc = "clear_rest"
          /\ opc' = "ready"
          /\ slots' = << >>
          /\ UNCHANGED <<queue, isDone, isStop, want, promised, pushVars>>
    /\ UNCHANGED workerVars

StopNotify ==
    /\ opc = "stop_notify"
    /\ NotifyAll
    /\ OwnerGoto("join")
    /\ UNCHANGED <<queue, flag, task>>

Join ==
    /\ opc = "join"
    /\ \A t \in Attached : pc[t] = "exited"
    /\ OwnerGoto("clear_rest")
    /\ UNCHANGED <<queue, workerVars>>

-----------------------------------------------------------------------------

Push(p) == NotifyOne(p) \/ \E x \in Tasks : Enqueue(p, x)

Work(t) ==
    \/ Pop(t) \/ Finish(t) \/ CheckFlag(t)
    \/ Lock(t) \/ TestQueue(t) \/ TestDone(t) \/ TestFlag(t)

Owner ==
    \/ Grow
    \/ Shrink \/ ShrinkNotify
    \/ SetFlags \/ Clear \/ StopNotify \/ Join

Ask == (\E n \in Sizes : Resize(n)) \/ StopNow \/ StopWait

Wake == \E t \in Threads : SpuriousWakeup(t)

Next ==
    \/ \E p \in Pushers : Push(p)
    \/ \E t \in Threads : Work(t)
    \/ Owner
    \/ Ask
    \/ Wake

Spec == Init /\ [][Next]_vars

(***************************************************************************)
(* Every thread that can run does run, a task ends (a client leaves some   *)
(* day), and condition variables stop waking threads for no reason.  What  *)
(* the pool is asked to do is up to its users.                             *)
(***************************************************************************)
FairSpec ==
    /\ Spec
    /\ \A p \in Pushers : WF_vars(NotifyOne(p))
    /\ \A t \in Threads : WF_vars(Work(t))
    /\ WF_vars(Owner)
    /\ <>[][~Wake]_vars

-----------------------------------------------------------------------------

\* Where everybody may be, and that threads run tasks exactly while in run.
TypeOK ==
    /\ queue \in Seq(Tasks)
    /\ isDone \in BOOLEAN /\ isStop \in BOOLEAN
    /\ flag \in [Threads -> BOOLEAN]
    /\ slots \in Seq(Threads)
    /\ pc \in [Threads -> {"absent", "pop", "run", "check_flag", "lock", "test_queue",
                           "test_done", "test_flag", "sleep", "exited"}]
    /\ task \in [Threads -> Tasks \cup {NoTask}]
    /\ \A t \in Threads : task[t] # NoTask <=> pc[t] = "run"
    /\ pushing \in [Pushers -> Tasks \cup {NoTask}]
    /\ pushed \subseteq Tasks
    /\ opc \in {"ready", "grow", "shrink", "shrink_notify", "set_flags", "clear",
                "stop_notify", "join", "clear_rest"}
    /\ want \in Nat
    /\ promised \subseteq Tasks

\* The threads that will look at the queue before they sleep or end.
Looking == {t \in Threads : pc[t] \in {"pop", "lock", "test_queue"}}

\* No wake-up is lost: while a thread sleeps, every task in the queue has a
\* thread on its way to it or a push still to notify.  push queues the task
\* before it takes the pool's mutex, so a worker can find the queue empty just
\* before; it is the mutex that keeps the notification from coming before the
\* worker sleeps (ctpl_stl.h:188-190, 233-235).
NoLostWakeup ==
    Asleep # {} => Len(queue) <= Cardinality(Notifying) + Cardinality(Looking)

\* stop(true) keeps the promise of its comment, "all the functions in the queue
\* are run": what was pushed before stop(true) is not thrown away with the rest
\* of the queue, though a thread may end while a push is adding to it.
PromiseKept == opc = "clear_rest" => promised \cap Queued = {}

\* A task that is pushed to a pool that has a thread is started or the pool is
\* being stopped: an accepted connection is served in the end, however the
\* threads find the queue empty, sleep and are told to go.
Served(x) ==
    (x \in Queued /\ slots # << >>) ~> (x \notin Queued \/ slots = << >> \/ isDone \/ isStop)

EveryTaskServed == \A x \in Tasks : Served(x)

\* stop comes to an end: no thread sleeps through the call that ends it.
StopReturns == (isDone \/ isStop) ~> opc = "ready"

=============================================================================
