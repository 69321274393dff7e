-------------------------- MODULE ThreadPoolProofs --------------------------
(***************************************************************************)
(* Proofs about ThreadPool, for any threads, pushers, tasks and sizes.     *)
(*                                                                         *)
(* NoLostWakeup is inductive once it also speaks of a thread that has      *)
(* found the queue empty and still holds the mutex (WakeInv).  PromiseKept *)
(* rests on what such a thread knows (SettledQueue) and on the fact that a *)
(* thread of the pool ends before a stop only when it is detached.         *)
(***************************************************************************)
EXTENDS ThreadPool, FiniteSetTheorems, TLAPS

\* The threads that have found the queue empty and hold the mutex.
Settling == {t \in Threads : pc[t] \in {"test_done", "test_flag"}}

WakeInv ==
    Asleep # {} \/ Settling # {} =>
        Len(queue) <= Cardinality(Notifying) + Cardinality(Looking)

InFlight == {pushing[p] : p \in Pushers}

SettledQueue == Settling # {} => Queued \subseteq InFlight

PushedOnce == Queued \subseteq pushed /\ promised \subseteq pushed

SlotsDistinct == \A i, j \in DOMAIN slots : slots[i] = slots[j] => i = j

\* Threads that are attached have not been told to finish, unless by stop.
AttachedRun ==
    /\ \A t \in Threads : pc[t] = "absent" => ~flag[t] /\ t \notin Attached
    /\ ~isStop => \A t \in Attached : ~flag[t]
    /\ ~isStop /\ ~isDone => \A t \in Attached : pc[t] # "exited"

Draining == isDone /\ ~isStop /\ opc \in {"stop_notify", "join"}

Drained == promised \cap Queued = {}

\* The promise is kept by the time the first attached thread ends, and there
\* is an attached thread.
PromiseInv ==
    /\ ~Draining => Drained
    /\ Draining /\ ~Drained => Attached # {}
    /\ isDone /\ (\E t \in Attached : pc[t] \in {"exited", "test_done", "test_flag"})
          => Drained
    /\ opc \in {"grow", "shrink", "shrink_notify"} => ~isDone /\ ~isStop
    /\ opc \in {"set_flags", "clear"} => isStop

PoolInv ==
    /\ TypeOK
    /\ WakeInv
    /\ SettledQueue
    /\ PushedOnce
    /\ SlotsDistinct
    /\ AttachedRun
    /\ PromiseInv

-----------------------------------------------------------------------------
(***************************************************************************)
(* The queue.                                                              *)
(***************************************************************************)
LEMMA QueueAppend ==
    ASSUME queue \in Seq(Tasks), NEW x \in Tasks, queue' = Append(queue, x)
    PROVE  /\ queue' \in Seq(Tasks)
           /\ Len(queue') = Len(queue) + 1
           /\ Queued' = Queued \cup {x}
<1>1. queue' \in Seq(Tasks) /\ Len(queue') = Len(queue) + 1
  OBVIOUS
<1>2. Queued' = Queued \cup {x}
  <2>1. DOMAIN queue = 1..Len(queue) /\ DOMAIN queue' = 1..(Len(queue) + 1)
    BY <1>1
  <2>2. \A i \in 1..Len(queue) : queue'[i] = queue[i]
    OBVIOUS
  <2>3. queue'[Len(queue) + 1] = x
    OBVIOUS
  <2>4. Len(queue) \in Nat
    OBVIOUS
  <2> QED
    BY <2>1, <2>2, <2>3, <2>4 DEF Queued
<1> QED
  BY <1>1, <1>2

LEMMA QueueTail ==
    ASSUME queue \in Seq(Tasks), queue # << >>, queue' = Tail(queue)
    PROVE  /\ queue' \in Seq(Tasks)
           /\ Len(queue') = Len(queue) - 1
           /\ Queued' \subseteq Queued
           /\ Head(queue) \in Tasks
<1>1. /\ queue' \in Seq(Tasks) /\ Len(queue') = Len(queue) - 1
      /\ Head(queue) \in Tasks
  OBVIOUS
<1>2. Queued' \subseteq Queued
  <2>1. \A i \in DOMAIN queue' : i + 1 \in DOMAIN queue /\ queue'[i] = queue[i + 1]
    OBVIOUS
  <2> QED
    BY <2>1 DEF Queued
<1> QED
  BY <1>1, <1>2

LEMMA QueueEmpty ==
    ASSUME queue = << >>
    PROVE  Len(queue) = 0 /\ Queued = {}
BY DEF Queued

LEMMA QueueLength ==
    ASSUME TypeOK
    PROVE  Len(queue) \in Nat
BY DEF TypeOK

(***************************************************************************)
(* How many threads look at the queue and how many pushers will notify.    *)
(***************************************************************************)
LEMMA Counts ==
    /\ IsFiniteSet(Looking) /\ Cardinality(Looking) \in Nat
    /\ IsFiniteSet(Notifying) /\ Cardinality(Notifying) \in Nat
<1>1. Looking \subseteq Threads /\ Notifying \subseteq Pushers
  BY DEF Looking, Notifying
<1>2. IsFiniteSet(Looking) /\ IsFiniteSet(Notifying)
  BY <1>1, FS_Subset, PoolAssumption
<1> QED
  BY <1>2, FS_CardinalityType

LEMMA LookingMoves ==
    ASSUME TypeOK, NEW t \in Threads, NEW l, pc' = [pc EXCEPT ![t] = l]
    PROVE  /\ Cardinality(Looking)' \in Nat
           /\ t \in Looking =>
                 Cardinality(Looking)' = IF l \in {"pop", "lock", "test_queue"}
                                         THEN Cardinality(Looking)
                                         ELSE Cardinality(Looking) - 1
           /\ t \notin Looking =>
                 Cardinality(Looking)' = IF l \in {"pop", "lock", "test_queue"}
                                         THEN Cardinality(Looking) + 1
                                         ELSE Cardinality(Looking)
<1> DEFINE looks == l \in {"pop", "lock", "test_queue"}
<1>1. IsFiniteSet(Looking) /\ Cardinality(Looking) \in Nat
  BY Counts
<1>2. Looking' = IF looks THEN Looking \cup {t} ELSE Looking \ {t}
  BY DEF TypeOK, Looking
<1>3. /\ Cardinality(Looking \cup {t}) = IF t \in Looking THEN Cardinality(Looking)
                                         ELSE Cardinality(Looking) + 1
      /\ Cardinality(Looking \ {t}) = IF t \in Looking THEN Cardinality(Looking) - 1
                                       ELSE Cardinality(Looking)
  BY <1>1, FS_AddElement, FS_RemoveElement
<1>4. Cardinality(Looking \ {t}) \in Nat
  <2>1. IsFiniteSet(Looking \ {t})
    BY <1>1, FS_RemoveElement
  <2> QED
    BY <2>1, FS_CardinalityType
<1> QED
  BY <1>1, <1>2, <1>3, <1>4

\* Threads that join those that look at the queue only add to them.
LEMMA LookingGrows ==
    ASSUME Looking \subseteq Looking'
    PROVE  Cardinality(Looking)' \in Nat /\ Cardinality(Looking) <= Cardinality(Looking)'
<1>1. Looking' \subseteq Threads
  BY DEF Looking
<1>2. IsFiniteSet(Looking')
  BY <1>1, FS_Subset, PoolAssumption
<1> QED
  BY <1>2, FS_Subset, FS_CardinalityType

-----------------------------------------------------------------------------
(***************************************************************************)
(* Steps of a worker.                                                      *)
(***************************************************************************)

\* A worker moves and touches nothing: it may turn from the queue, settle or
\* sleep only when the queue is empty, and end only when it has been told to.
LEMMA GotoKeeps ==
    ASSUME PoolInv, NEW t \in Threads, pc[t] \notin {"absent", "run"},
           NEW l \in {"pop", "check_flag", "lock", "test_queue", "test_done",
                      "test_flag", "sleep", "exited"},
           Goto(t, l),
           t \in Looking /\ l \notin {"pop", "lock", "test_queue"} => queue = << >>,
           l \in {"test_done", "test_flag", "sleep"} =>
               queue = << >> \/ t \in Settling,
           l = "exited" => isDone \/ flag[t],
           isDone /\ l \in {"exited", "test_done", "test_flag"} /\ t \in Attached
               => Drained
    PROVE  PoolInv'
<1>1. pc' = [pc EXCEPT ![t] = l]
        /\ UNCHANGED <<queue, flag, task, isDone, isStop, slots, opc, want, promised,
                       pushing, pushed>>
  BY DEF Goto, ownerVars, pushVars
<1>2. pc'[t] = l /\ \A u \in Threads : u # t => pc'[u] = pc[u]
  BY <1>1 DEF PoolInv, TypeOK
<1>3. UNCHANGED <<Queued, Attached, Notifying, InFlight, Drained>>
  BY <1>1 DEF Queued, Attached, Notifying, InFlight, Drained
<1>4. TypeOK'
  BY <1>1, <1>2 DEF PoolInv, TypeOK
<1>5. WakeInv'
  <2>0. Cardinality(Looking)' \in Nat
    BY <1>1, LookingMoves DEF PoolInv
  <2>1. CASE queue = << >>
    <3>1. Len(queue') = 0
      BY <1>1, <2>1, QueueEmpty
    <3> QED
      BY <1>3, <2>0, <3>1, Counts DEF WakeInv
  <2>2. CASE queue # << >>
    <3>1. Cardinality(Looking) <= Cardinality(Looking)' /\ Cardinality(Looking)' \in Nat
      <4>1. CASE t \in Looking
        <5>1. l \in {"pop", "lock", "test_queue"}
          BY <2>2, <4>1
        <5>2. Cardinality(Looking)' = Cardinality(Looking)
          BY <1>1, <4>1, <5>1, LookingMoves DEF PoolInv
        <5> QED
          BY <5>2, Counts
      <4>2. CASE t \notin Looking
        <5>1. \/ Cardinality(Looking)' = Cardinality(Looking) + 1
              \/ Cardinality(Looking)' = Cardinality(Looking)
          BY <1>1, <4>2, LookingMoves DEF PoolInv
        <5> QED
          BY <5>1, Counts
      <4> QED
        BY <4>1, <4>2
    <3>2. (Asleep # {} \/ Settling # {})' => Asleep # {} \/ Settling # {}
      BY <1>2, <2>2 DEF Asleep, Settling
    <3> QED
      BY <1>1, <1>3, <3>1, <3>2, Counts, QueueLength DEF WakeInv, PoolInv
  <2> QED
    BY <2>1, <2>2
<1>6. SettledQueue'
  <2>1. CASE queue = << >>
    BY <1>3, <2>1, QueueEmpty DEF SettledQueue
  <2>2. CASE queue # << >>
    <3>1. Settling' # {} => Settling # {}
      BY <1>2, <2>2 DEF Settling
    <3> QED
      BY <1>3, <3>1 DEF PoolInv, SettledQueue
  <2> QED
    BY <2>1, <2>2
<1>7. PushedOnce' /\ SlotsDistinct'
  BY <1>1, <1>3 DEF PoolInv, PushedOnce, SlotsDistinct
<1>8. AttachedRun'
  <2>1. \A u \in Attached : u \in Threads
    BY DEF PoolInv, TypeOK, Attached
  <2> QED
    BY <1>1, <1>2, <1>3, <2>1 DEF PoolInv, AttachedRun
<1>9. PromiseInv'
  <2>1. \A u \in Attached : u \in Threads
    BY DEF PoolInv, TypeOK, Attached
  <2> QED
    BY <1>1, <1>2, <1>3, <2>1 DEF PoolInv, PromiseInv, Draining
<1> QED
  BY <1>4, <1>5, <1>6, <1>7, <1>8, <1>9 DEF PoolInv

LEMMA TakeTaskKeeps ==
    ASSUME PoolInv, NEW t \in Threads, pc[t] \in {"pop", "test_queue"}, TakeTask(t)
    PROVE  PoolInv'
<1>1. /\ queue # << >> /\ queue' = Tail(queue)
      /\ pc' = [pc EXCEPT ![t] = "run"] /\ task' = [task EXCEPT ![t] = Head(queue)]
      /\ UNCHANGED <<flag, isDone, isStop, slots, opc, want, promised, pushing, pushed>>
  BY DEF TakeTask, ownerVars, pushVars
<1>2. pc'[t] = "run" /\ \A u \in Threads : u # t => pc'[u] = pc[u]
  BY <1>1 DEF PoolInv, TypeOK
<1>3. /\ queue' \in Seq(Tasks) /\ Len(queue') = Len(queue) - 1
      /\ Queued' \subseteq Queued /\ Head(queue) \in Tasks
  BY <1>1, QueueTail DEF PoolInv, TypeOK
<1>4. UNCHANGED <<Attached, Notifying, InFlight>>
  BY <1>1 DEF Attached, Notifying, InFlight
<1>5. Drained => Drained'
  BY <1>1, <1>3 DEF Drained
<1>6. TypeOK'
  <2>1. \A u \in Threads : task'[u] # NoTask <=> pc'[u] = "run"
    BY <1>1, <1>2, <1>3, PoolAssumption DEF PoolInv, TypeOK
  <2>2. task' \in [Threads -> Tasks \cup {NoTask}]
    BY <1>1, <1>3 DEF PoolInv, TypeOK
  <2> QED
    BY <1>1, <1>3, <2>1, <2>2 DEF PoolInv, TypeOK
<1>7. WakeInv'
  <2>0. t \in Looking
    BY DEF Looking
  <2>1. Cardinality(Looking)' = Cardinality(Looking) - 1
    <3>1. TypeOK /\ pc' = [pc EXCEPT ![t] = "run"]
      BY <1>1 DEF PoolInv
    <3>2. "run" \notin {"pop", "lock", "test_queue"}
      OBVIOUS
    <3> QED
      BY <2>0, <3>1, <3>2, LookingMoves
  <2>2. (Asleep # {} \/ Settling # {})' => Asleep # {} \/ Settling # {}
    BY <1>2 DEF Asleep, Settling
  <2> QED
    BY <1>3, <1>4, <2>1, <2>2, Counts, QueueLength DEF WakeInv, PoolInv
<1>8. SettledQueue'
  <2>1. Settling' # {} => Settling # {}
    BY <1>2 DEF Settling
  <2> QED
    BY <1>3, <1>4, <2>1 DEF PoolInv, SettledQueue
<1>9. PushedOnce' /\ SlotsDistinct'
  BY <1>1, <1>3 DEF PoolInv, PushedOnce, SlotsDistinct
<1>10. \A u \in Attached : u \in Threads
  BY DEF PoolInv, TypeOK, Attached
<1>11. AttachedRun'
  BY <1>1, <1>2, <1>4, <1>10 DEF PoolInv, AttachedRun
<1>12. PromiseInv'
  BY <1>1, <1>2, <1>4, <1>5, <1>10 DEF PoolInv, PromiseInv, Draining
<1> QED
  BY <1>6, <1>7, <1>8, <1>9, <1>11, <1>12 DEF PoolInv

LEMMA FinishKeeps ==
    ASSUME PoolInv, NEW t \in Threads, Finish(t)
    PROVE  PoolInv'
<1>1. /\ pc[t] = "run"
      /\ pc' = [pc EXCEPT ![t] = "check_flag"] /\ task' = [task EXCEPT ![t] = NoTask]
      /\ UNCHANGED <<queue, flag, isDone, isStop, slots, opc, want, promised,
                     pushing, pushed>>
  BY DEF Finish, ownerVars, pushVars
<1>2. pc'[t] = "check_flag" /\ \A u \in Threads : u # t => pc'[u] = pc[u]
  BY <1>1 DEF PoolInv, TypeOK
<1>3. UNCHANGED <<Queued, Attached, Notifying, InFlight, Drained, Asleep, Settling, Looking>>
  BY <1>1, <1>2 DEF Queued, Attached, Notifying, InFlight, Drained, Asleep, Settling, Looking
<1>4. TypeOK'
  BY <1>1, <1>2 DEF PoolInv, TypeOK
<1>5. WakeInv' /\ SettledQueue' /\ PushedOnce' /\ SlotsDistinct'
  BY <1>1, <1>3 DEF PoolInv, WakeInv, SettledQueue, PushedOnce, SlotsDistinct
<1>6. \A u \in Attached : u \in Threads
  BY DEF PoolInv, TypeOK, Attached
<1>7. AttachedRun' /\ PromiseInv'
  BY <1>1, <1>2, <1>3, <1>6 DEF PoolInv, AttachedRun, PromiseInv, Draining
<1> QED
  BY <1>4, <1>5, <1>7 DEF PoolInv

LEMMA WorkKeeps ==
    ASSUME PoolInv, NEW t \in Threads, Work(t) \/ SpuriousWakeup(t)
    PROVE  PoolInv'
<1>1. \A u \in Attached : u \in Threads
  BY DEF PoolInv, TypeOK, Attached
<1>2. queue = << >> => Drained
  BY QueueEmpty DEF Drained
<1>3. CASE Pop(t)
  <2>1. pc[t] = "pop"
    BY <1>3 DEF Pop
  <2>2. CASE TakeTask(t)
    BY <2>1, <2>2, TakeTaskKeeps
  <2>3. CASE Goto(t, "lock")
    BY <2>1, <2>3, GotoKeeps
  <2> QED
    BY <1>3, <2>2, <2>3 DEF Pop
<1>4. CASE TestQueue(t)
  <2>1. pc[t] = "test_queue"
    BY <1>4 DEF TestQueue
  <2>2. CASE TakeTask(t)
    BY <2>1, <2>2, TakeTaskKeeps
  <2>3. CASE queue = << >> /\ Goto(t, "test_done")
    BY <1>2, <2>1, <2>3, GotoKeeps
  <2> QED
    BY <1>4, <2>2, <2>3 DEF TestQueue
<1>5. CASE TestDone(t)
  <2>1. pc[t] = "test_done" /\ t \in Settling /\ t \notin Looking
    BY <1>5 DEF TestDone, Settling, Looking
  <2>2. isDone /\ t \in Attached => Drained
    BY <2>1 DEF PoolInv, PromiseInv
  <2>3. CASE isDone /\ Goto(t, "exited")
    BY <2>1, <2>2, <2>3, GotoKeeps
  <2>4. CASE Goto(t, "test_flag")
    BY <2>1, <2>2, <2>4, GotoKeeps
  <2> QED
    BY <1>5, <2>3, <2>4 DEF TestDone
<1>6. CASE TestFlag(t)
  <2>1. pc[t] = "test_flag" /\ t \in Settling /\ t \notin Looking
    BY <1>6 DEF TestFlag, Settling, Looking
  <2>2. isDone /\ t \in Attached => Drained
    BY <2>1 DEF PoolInv, PromiseInv
  <2>3. CASE flag[t] /\ Goto(t, "exited")
    BY <2>1, <2>2, <2>3, GotoKeeps
  <2>4. CASE Goto(t, "sleep")
    BY <2>1, <2>2, <2>4, GotoKeeps
  <2> QED
    BY <1>6, <2>3, <2>4 DEF TestFlag
<1>7. CASE CheckFlag(t)
  <2>1. pc[t] = "check_flag" /\ t \notin Looking
    BY <1>7 DEF CheckFlag, Looking
  <2>2. CASE flag[t] /\ Goto(t, "exited")
    <3>1. isDone /\ t \in Attached => Drained
      BY <2>2 DEF PoolInv, AttachedRun, PromiseInv, Draining
    <3> QED
      BY <2>1, <2>2, <3>1, GotoKeeps
  <2>3. CASE Goto(t, "pop")
    BY <2>1, <2>3, GotoKeeps
  <2> QED
    BY <1>7, <2>2, <2>3 DEF CheckFlag
<1>8. CASE Lock(t)
  BY <1>8, GotoKeeps DEF Lock
<1>9. CASE SpuriousWakeup(t)
  BY <1>9, GotoKeeps DEF SpuriousWakeup
<1> QED
  BY <1>3, <1>4, <1>5, <1>6, <1>7, <1>8, <1>9, FinishKeeps DEF Work

-----------------------------------------------------------------------------
(***************************************************************************)
(* Steps of a pusher.                                                      *)
(***************************************************************************)
LEMMA EnqueueKeeps ==
    ASSUME PoolInv, NEW p \in Pushers, NEW x \in Tasks, Enqueue(p, x)
    PROVE  PoolInv'
<1>1. /\ pushing[p] = NoTask /\ x \notin pushed
      /\ queue' = Append(queue, x)
      /\ pushing' = [pushing EXCEPT ![p] = x]
      /\ pushed' = pushed \cup {x}
      /\ UNCHANGED <<flag, pc, task, isDone, isStop, slots, opc, want, promised>>
  BY DEF Enqueue, workerVars, ownerVars
<1>2. /\ queue' \in Seq(Tasks) /\ Len(queue') = Len(queue) + 1
      /\ Queued' = Queued \cup {x}
  BY <1>1, QueueAppend DEF PoolInv, TypeOK
<1>3. UNCHANGED <<Attached, Asleep, Settling, Looking>>
  BY <1>1 DEF Attached, Asleep, Settling, Looking
<1>4. TypeOK'
  BY <1>1, <1>2 DEF PoolInv, TypeOK
<1>5. pushing'[p] = x /\ x # NoTask /\ \A q \in Pushers : q # p => pushing'[q] = pushing[q]
  BY <1>1, PoolAssumption DEF PoolInv, TypeOK
<1>6. WakeInv'
  <2>1. p \notin Notifying /\ Notifying' = Notifying \cup {p}
    BY <1>1, <1>5 DEF Notifying
  <2>2. Cardinality(Notifying)' = Cardinality(Notifying) + 1
    BY <2>1, Counts, FS_AddElement
  <2> QED
    BY <1>2, <1>3, <2>2, Counts, QueueLength DEF PoolInv, WakeInv
<1>7. SettledQueue'
  <2>1. InFlight \subseteq InFlight' \cup {NoTask} /\ x \in InFlight'
    BY <1>1, <1>5 DEF InFlight
  <2>2. Queued \subseteq Tasks
    BY DEF PoolInv, TypeOK, Queued
  <2> QED
    BY <1>2, <1>3, <2>1, <2>2, PoolAssumption DEF PoolInv, SettledQueue
<1>8. PushedOnce' /\ SlotsDistinct' /\ AttachedRun'
  BY <1>1, <1>2, <1>3 DEF PoolInv, PushedOnce, SlotsDistinct, AttachedRun
<1>9. Drained => Drained'
  BY <1>1, <1>2 DEF PoolInv, PushedOnce, Drained
<1>10. PromiseInv'
  BY <1>1, <1>3, <1>9 DEF PoolInv, PromiseInv, Draining
<1> QED
  BY <1>4, <1>6, <1>7, <1>8, <1>10 DEF PoolInv

LEMMA NotifyOneKeeps ==
    ASSUME PoolInv, NEW p \in Pushers, NotifyOne(p)
    PROVE  PoolInv'
<1>1. /\ pushing[p] # NoTask
      /\ pushing' = [pushing EXCEPT ![p] = NoTask]
      /\ UNCHANGED <<queue, flag, task, isDone, isStop, slots, opc, want, promised, pushed>>
  BY DEF NotifyOne, Notified, ownerVars
<1>2. UNCHANGED <<Queued, Attached, Drained>>
  BY <1>1 DEF Queued, Attached, Drained
<1>3. Settling = {}
  BY DEF NotifyOne, MutexFree, Testing, Settling
<1>4. \/ Asleep = {} /\ pc' = pc
      \/ \E t \in Asleep : pc' = [pc EXCEPT ![t] = "lock"]
  BY DEF NotifyOne, Notified
<1>5. \A u \in Threads : pc'[u] = pc[u] \/ (pc[u] = "sleep" /\ pc'[u] = "lock")
  BY <1>4 DEF PoolInv, TypeOK, Asleep
<1>6. TypeOK'
  <2>1. pc' \in [Threads -> {"absent", "pop", "run", "check_flag", "lock", "test_queue",
                             "test_done", "test_flag", "sleep", "exited"}]
    BY <1>4 DEF PoolInv, TypeOK
  <2> QED
    BY <1>1, <1>5, <2>1 DEF PoolInv, TypeOK
<1>7. Settling' = {}
  BY <1>3, <1>5 DEF Settling
<1>8. WakeInv'
  <2>1. CASE Asleep = {} /\ pc' = pc
    BY <1>7, <2>1 DEF WakeInv, Asleep
  <2>2. ASSUME NEW t \in Asleep, pc' = [pc EXCEPT ![t] = "lock"]
        PROVE  WakeInv'
    <3>1. Asleep # {} /\ t \in Threads /\ t \notin Looking
      BY <2>2 DEF Asleep, Looking
    <3>2. Cardinality(Looking)' = Cardinality(Looking) + 1
      BY <2>2, <3>1, LookingMoves DEF PoolInv
    <3>3. Notifying' = Notifying \ {p} /\ p \in Notifying
      BY <1>1 DEF Notifying, PoolInv, TypeOK
    <3>4. Cardinality(Notifying)' = Cardinality(Notifying) - 1
      BY <3>3, Counts, FS_RemoveElement
    <3> QED
      BY <1>1, <3>1, <3>2, <3>4, Counts, QueueLength DEF PoolInv, WakeInv
  <2> QED
    BY <1>4, <2>1, <2>2
<1>9. SettledQueue' /\ PushedOnce' /\ SlotsDistinct'
  BY <1>1, <1>2, <1>7 DEF PoolInv, SettledQueue, PushedOnce, SlotsDistinct
<1>10. \A u \in Attached : u \in Threads
  BY DEF PoolInv, TypeOK, Attached
<1>11. AttachedRun' /\ PromiseInv'
  BY <1>1, <1>2, <1>5, <1>10 DEF PoolInv, AttachedRun, PromiseInv, Draining
<1> QED
  BY <1>6, <1>8, <1>9, <1>11 DEF PoolInv

LEMMA PushKeeps ==
    ASSUME PoolInv, NEW p \in Pushers, Push(p)
    PROVE  PoolInv'
BY EnqueueKeeps, NotifyOneKeeps DEF Push

-----------------------------------------------------------------------------
(***************************************************************************)
(* Steps of the owner.                                                     *)
(***************************************************************************)

\* An owner's step that leaves queue, pushers and threads alone.
LEMMA OwnerQuiet ==
    ASSUME PoolInv, UNCHANGED <<queue, pc, task, pushing, pushed>>
    PROVE  /\ WakeInv' /\ SettledQueue'
           /\ Queued' = Queued /\ Asleep' = Asleep
<1>1. UNCHANGED <<Queued, Asleep, Settling, Looking, Notifying, InFlight>>
  BY DEF Queued, Asleep, Settling, Looking, Notifying, InFlight
<1> QED
  BY <1>1 DEF PoolInv, WakeInv, SettledQueue

\* notify_all with the mutex: nobody sleeps, and nobody is about to.
LEMMA NotifyAllKeeps ==
    ASSUME PoolInv, NotifyAll, UNCHANGED <<queue, flag, task>>,
           NEW l \in {"ready", "join"}, OwnerGoto(l),
           l = "ready" => opc = "shrink_notify",
           l = "join" => opc = "stop_notify"
    PROVE  PoolInv'
<1>1. UNCHANGED <<queue, flag, task, isDone, isStop, slots, want, promised, pushing,
                  pushed>> /\ opc' = l
  BY DEF OwnerGoto, pushVars
<1>2. UNCHANGED <<Queued, Attached, Drained, Notifying>>
  BY <1>1 DEF Queued, Attached, Drained, Notifying
<1>3. Settling = {}
  BY DEF NotifyAll, MutexFree, Testing, Settling
<1>4. \A u \in Threads : pc'[u] = IF pc[u] = "sleep" THEN "lock" ELSE pc[u]
  BY DEF NotifyAll
<1>5. TypeOK'
  <2>1. pc' \in [Threads -> {"absent", "pop", "run", "check_flag", "lock", "test_queue",
                             "test_done", "test_flag", "sleep", "exited"}]
    BY DEF PoolInv, TypeOK, NotifyAll
  <2> QED
    BY <1>1, <1>4, <2>1 DEF PoolInv, TypeOK
<1>6. Settling' = {} /\ Asleep' = {}
  BY <1>3, <1>4 DEF Settling, Asleep
<1>7. WakeInv' /\ SettledQueue' /\ PushedOnce' /\ SlotsDistinct'
  BY <1>1, <1>2, <1>6 DEF PoolInv, WakeInv, SettledQueue, PushedOnce, SlotsDistinct
<1>8. \A u \in Attached : u \in Threads
  BY DEF PoolInv, TypeOK, Attached
<1>9. AttachedRun' /\ PromiseInv'
  BY <1>1, <1>2, <1>4, <1>8 DEF PoolInv, AttachedRun, PromiseInv, Draining
<1> QED
  BY <1>5, <1>7, <1>9 DEF PoolInv

LEMMA ShrinkNotifyKeeps ==
    ASSUME PoolInv, ShrinkNotify
    PROVE  PoolInv'
BY NotifyAllKeeps DEF ShrinkNotify

LEMMA StopNotifyKeeps ==
    ASSUME PoolInv, StopNotify
    PROVE  PoolInv'
BY NotifyAllKeeps DEF StopNotify

LEMMA AskKeeps ==
    ASSUME PoolInv, Ask
    PROVE  PoolInv'
<1>1. \A u \in Attached : u \in Threads
  BY DEF PoolInv, TypeOK, Attached
<1>2. CASE \E n \in Sizes : Resize(n)
  <2>1. /\ opc = "ready" /\ ~isStop /\ ~isDone
        /\ want' \in Nat /\ opc' \in {"grow", "shrink"}
        /\ UNCHANGED <<queue, flag, pc, task, isDone, isStop, slots, promised,
                       pushing, pushed>>
    BY <1>2, PoolAssumption DEF Resize, workerVars, pushVars
  <2>2. UNCHANGED <<Queued, Attached, Drained>>
    BY <2>1 DEF Queued, Attached, Drained
  <2>3. TypeOK'
    BY <2>1 DEF PoolInv, TypeOK
  <2>4. WakeInv' /\ SettledQueue'
    BY <2>1, OwnerQuiet
  <2>5. PushedOnce' /\ SlotsDistinct' /\ AttachedRun'
    BY <2>1, <2>2 DEF PoolInv, PushedOnce, SlotsDistinct, AttachedRun
  <2>6. PromiseInv'
    BY <2>1, <2>2 DEF PoolInv, PromiseInv, Draining
  <2> QED
    BY <2>3, <2>4, <2>5, <2>6 DEF PoolInv
<1>3. CASE StopNow
  <2>1. /\ opc = "ready" /\ isStop' = TRUE /\ opc' = "set_flags"
        /\ UNCHANGED <<queue, flag, pc, task, isDone, slots, want, promised,
                       pushing, pushed>>
    BY <1>3 DEF StopNow, workerVars, pushVars
  <2>2. UNCHANGED <<Queued, Attached, Drained>>
    BY <2>1 DEF Queued, Attached, Drained
  <2>3. TypeOK'
    BY <2>1 DEF PoolInv, TypeOK
  <2>4. WakeInv' /\ SettledQueue'
    BY <2>1, OwnerQuiet
  <2>5. PushedOnce' /\ SlotsDistinct' /\ AttachedRun'
    BY <2>1, <2>2 DEF PoolInv, PushedOnce, SlotsDistinct, AttachedRun
  <2>6. PromiseInv'
    BY <2>1, <2>2 DEF PoolInv, PromiseInv, Draining
  <2> QED
    BY <2>3, <2>4, <2>5, <2>6 DEF PoolInv
<1>4. CASE StopWait
  <2>1. /\ opc = "ready" /\ ~isStop /\ ~isDone /\ isDone' = TRUE /\ opc' = "stop_notify"
        /\ promised' = IF slots = << >> THEN {} ELSE Queued \ InFlight
        /\ UNCHANGED <<queue, flag, pc, task, isStop, slots, want, pushing, pushed>>
    BY <1>4 DEF StopWait, workerVars, pushVars, InFlight
  <2>2. UNCHANGED <<Queued, Attached>>
    BY <2>1 DEF Queued, Attached
  <2>3. Queued \subseteq Tasks
    BY DEF PoolInv, TypeOK, Queued
  <2>4. TypeOK'
    BY <2>1, <2>3 DEF PoolInv, TypeOK
  <2>5. WakeInv' /\ SettledQueue'
    BY <2>1, OwnerQuiet
  <2>6. PushedOnce' /\ SlotsDistinct' /\ AttachedRun'
    BY <2>1, <2>2 DEF PoolInv, PushedOnce, SlotsDistinct, AttachedRun
  <2>7. PromiseInv'
    <3>1. Draining'
      BY <2>1 DEF Draining
    <3>2. slots = << >> => Drained'
      BY <2>1 DEF Drained
    <3>3. slots # << >> => Attached # {}
      <4>1. slots \in Seq(Threads)
        BY DEF PoolInv, TypeOK
      <4>2. slots # << >> => 1 \in DOMAIN slots
        BY <4>1
      <4> QED
        BY <4>2 DEF Attached
    <3>4. ASSUME NEW t \in Attached, pc[t] \in {"exited", "test_done", "test_flag"}
          PROVE  Drained'
      <4>1. pc[t] # "exited"
        BY <2>1, <3>4 DEF PoolInv, AttachedRun
      <4>2. Settling # {}
        BY <1>1, <3>4, <4>1 DEF Settling
      <4>3. Queued \subseteq InFlight
        BY <4>2 DEF PoolInv, SettledQueue
      <4> QED
        BY <2>1, <4>3 DEF Drained
    <3> QED
      BY <2>1, <2>2, <3>1, <3>2, <3>3, <3>4 DEF PromiseInv
  <2> QED
    BY <2>4, <2>5, <2>6, <2>7 DEF PoolInv
<1> QED
  BY <1>2, <1>3, <1>4 DEF Ask

LEMMA GrowKeeps ==
    ASSUME PoolInv, Grow
    PROVE  PoolInv'
<1>1. CASE OwnerGoto("ready") /\ UNCHANGED <<queue, workerVars>>
  <2>1. /\ opc = "grow" /\ opc' = "ready"
        /\ UNCHANGED <<queue, flag, pc, task, isDone, isStop, slots, want, promised,
                       pushing, pushed>>
    BY <1>1 DEF Grow, OwnerGoto, workerVars, pushVars
  <2>2. UNCHANGED <<Queued, Attached, Drained>>
    BY <2>1 DEF Queued, Attached, Drained
  <2>3. TypeOK' /\ PushedOnce' /\ SlotsDistinct' /\ AttachedRun'
    BY <2>1, <2>2 DEF PoolInv, TypeOK, PushedOnce, SlotsDistinct, AttachedRun
  <2>4. WakeInv' /\ SettledQueue' /\ PromiseInv'
    BY <2>1, <2>2, OwnerQuiet DEF PoolInv, PromiseInv, Draining
  <2> QED
    BY <2>3, <2>4 DEF PoolInv
<1>2. ASSUME NEW t \in Absent,
             pc' = [pc EXCEPT ![t] = "pop"], slots' = Append(slots, t),
             UNCHANGED <<queue, flag, task, isDone, isStop, opc, want, promised, pushVars>>
      PROVE  PoolInv'
  <2>1. t \in Threads /\ pc[t] = "absent" /\ opc = "grow" /\ pushing' = pushing
          /\ pushed' = pushed
    BY <1>2 DEF Grow, Absent, pushVars
  <2>2. ~isDone /\ ~isStop /\ ~flag[t] /\ t \notin Attached
    BY <2>1 DEF PoolInv, PromiseInv, AttachedRun
  <2>3. pc'[t] = "pop" /\ \A u \in Threads : u # t => pc'[u] = pc[u]
    BY <1>2, <2>1 DEF PoolInv, TypeOK
  <2>4. slots \in Seq(Threads)
    BY DEF PoolInv, TypeOK
  <2>5. /\ slots' \in Seq(Threads) /\ DOMAIN slots' = 1..(Len(slots) + 1)
        /\ DOMAIN slots = 1..Len(slots) /\ Len(slots) \in Nat
        /\ \A i \in 1..Len(slots) : slots'[i] = slots[i]
        /\ slots'[Len(slots) + 1] = t
    BY <1>2, <2>1, <2>4
  <2>6. Attached' = Attached \cup {t}
    BY <2>5 DEF Attached
  <2>7. SlotsDistinct'
    <3>1. \A i \in 1..Len(slots) : slots[i] # t
      BY <2>2, <2>5 DEF Attached
    <3> QED
      BY <2>5, <3>1 DEF PoolInv, SlotsDistinct
  <2>8. TypeOK'
    BY <1>2, <2>1, <2>3, <2>5 DEF PoolInv, TypeOK
  <2>9. UNCHANGED <<Queued, Asleep, Settling, Notifying, InFlight, Drained>>
    BY <1>2, <2>1, <2>3 DEF Queued, Asleep, Settling, Notifying, InFlight, Drained
  <2>10. WakeInv'
    <3>1. Looking \subseteq Looking'
      BY <2>1, <2>3 DEF Looking
    <3> QED
      BY <1>2, <2>9, <3>1, LookingGrows, Counts, QueueLength DEF PoolInv, WakeInv
  <2>11. SettledQueue' /\ PushedOnce'
    BY <1>2, <2>1, <2>9 DEF PoolInv, SettledQueue, PushedOnce
  <2>12. \A u \in Attached : u \in Threads
    BY DEF PoolInv, TypeOK, Attached
  <2>13. AttachedRun' /\ PromiseInv'
    BY <1>2, <2>1, <2>2, <2>3, <2>6, <2>9, <2>12
       DEF PoolInv, AttachedRun, PromiseInv, Draining
  <2> QED
    BY <2>7, <2>8, <2>10, <2>11, <2>13 DEF PoolInv
<1> QED
  BY <1>1, <1>2 DEF Grow

LEMMA ShrinkKeeps ==
    ASSUME PoolInv, Shrink
    PROVE  PoolInv'
<1>1. CASE OwnerGoto("shrink_notify") /\ UNCHANGED <<queue, workerVars>>
  <2>1. /\ opc = "shrink" /\ opc' = "shrink_notify"
        /\ UNCHANGED <<queue, flag, pc, task, isDone, isStop, slots, want, promised,
                       pushing, pushed>>
    BY <1>1 DEF Shrink, OwnerGoto, workerVars, pushVars
  <2>2. UNCHANGED <<Queued, Attached, Drained>>
    BY <2>1 DEF Queued, Attached, Drained
  <2>3. TypeOK' /\ PushedOnce' /\ SlotsDistinct' /\ AttachedRun'
    BY <2>1, <2>2 DEF PoolInv, TypeOK, PushedOnce, SlotsDistinct, AttachedRun
  <2>4. WakeInv' /\ SettledQueue' /\ PromiseInv'
    BY <2>1, <2>2, OwnerQuiet DEF PoolInv, PromiseInv, Draining
  <2> QED
    BY <2>3, <2>4 DEF PoolInv
<1>2. CASE /\ Len(slots) > want
           /\ flag' = [flag EXCEPT ![slots[Len(slots)]] = TRUE]
           /\ slots' = SubSeq(slots, 1, Len(slots) - 1)
           /\ UNCHANGED <<queue, pc, task, isDone, isStop, opc, want, promised, pushVars>>
  <2>1. PICK t : t = slots[Len(slots)]
    OBVIOUS
  <2>2. slots \in Seq(Threads) /\ want \in Nat
    BY DEF PoolInv, TypeOK
  <2>3. Len(slots) \in Nat /\ Len(slots) > 0 /\ DOMAIN slots = 1..Len(slots)
    BY <1>2, <2>2
  <2>4. t \in Threads /\ t \in Attached
    BY <2>1, <2>2, <2>3 DEF Attached
  <2>5. slots' \in Seq(Threads) /\ DOMAIN slots' = 1..(Len(slots) - 1)
    BY <1>2, <2>2, <2>3
  <2>6. \A i \in 1..(Len(slots) - 1) : slots'[i] = slots[i]
    BY <1>2, <2>2, <2>3
  <2>7. SlotsDistinct'
    BY <2>3, <2>5, <2>6 DEF PoolInv, SlotsDistinct
  <2>8. Attached' \subseteq Attached /\ t \notin Attached'
    <3>1. \A i \in 1..(Len(slots) - 1) : slots[i] # t
      BY <2>1, <2>3 DEF PoolInv, SlotsDistinct
    <3> QED
      BY <2>3, <2>5, <2>6, <3>1 DEF Attached
  <2>9. opc = "shrink" /\ pushing' = pushing /\ pushed' = pushed
    BY <1>2 DEF Shrink, pushVars
  <2>10. ~isDone /\ ~isStop
    BY <2>9 DEF PoolInv, PromiseInv
  <2>11. flag'[t] = TRUE /\ \A u \in Threads : u # t => flag'[u] = flag[u]
    BY <1>2, <2>1, <2>4 DEF PoolInv, TypeOK
  <2>12. TypeOK'
    BY <1>2, <2>1, <2>5, <2>9 DEF PoolInv, TypeOK
  <2>13. UNCHANGED <<Queued, Drained>>
    BY <1>2 DEF Queued, Drained
  <2>14. WakeInv' /\ SettledQueue'
    BY <1>2, <2>9, OwnerQuiet
  <2>15. PushedOnce'
    BY <1>2, <2>9, <2>13 DEF PoolInv, PushedOnce
  <2>16. \A u \in Attached : u \in Threads
    BY DEF PoolInv, TypeOK, Attached
  <2>17. pc[t] # "absent"
    BY <2>4 DEF PoolInv, AttachedRun
  <2>18. AttachedRun' /\ PromiseInv'
    BY <1>2, <2>4, <2>8, <2>9, <2>10, <2>11, <2>13, <2>16, <2>17
       DEF PoolInv, AttachedRun, PromiseInv, Draining
  <2> QED
    BY <2>7, <2>12, <2>14, <2>15, <2>18 DEF PoolInv
<1> QED
  BY <1>1, <1>2 DEF Shrink

LEMMA SetFlagsKeeps ==
    ASSUME PoolInv, SetFlags
    PROVE  PoolInv'
<1>1. CASE OwnerGoto("clear") /\ UNCHANGED <<queue, workerVars>>
  <2>1. /\ opc = "set_flags" /\ opc' = "clear"
        /\ UNCHANGED <<queue, flag, pc, task, isDone, isStop, slots, want, promised,
                       pushing, pushed>>
    BY <1>1 DEF SetFlags, OwnerGoto, workerVars, pushVars
  <2>2. UNCHANGED <<Queued, Attached, Drained>>
    BY <2>1 DEF Queued, Attached, Drained
  <2>3. TypeOK' /\ PushedOnce' /\ SlotsDistinct' /\ AttachedRun'
    BY <2>1, <2>2 DEF PoolInv, TypeOK, PushedOnce, SlotsDistinct, AttachedRun
  <2>4. WakeInv' /\ SettledQueue' /\ PromiseInv'
    BY <2>1, <2>2, OwnerQuiet DEF PoolInv, PromiseInv, Draining
  <2> QED
    BY <2>3, <2>4 DEF PoolInv
<1>2. ASSUME NEW i \in DOMAIN slots,
             flag' = [flag EXCEPT ![slots[i]] = TRUE],
             UNCHANGED <<queue, pc, task, ownerVars, pushVars>>
      PROVE  PoolInv'
  <2>1. PICK t \in Attached : t = slots[i]
    BY DEF Attached
  <2>2. t \in Threads
    BY <2>1 DEF PoolInv, TypeOK, Attached
  <2>3. /\ opc = "set_flags"
        /\ UNCHANGED <<queue, pc, task, isDone, isStop, slots, opc, want, promised,
                       pushing, pushed>>
    BY <1>2 DEF SetFlags, ownerVars, pushVars
  <2>4. isStop
    BY <2>3 DEF PoolInv, PromiseInv
  <2>5. flag'[t] = TRUE /\ \A u \in Threads : u # t => flag'[u] = flag[u]
    BY <1>2, <2>1, <2>2 DEF PoolInv, TypeOK
  <2>6. UNCHANGED <<Queued, Attached, Drained>>
    BY <2>3 DEF Queued, Attached, Drained
  <2>7. TypeOK'
    BY <1>2, <2>1, <2>3 DEF PoolInv, TypeOK
  <2>8. WakeInv' /\ SettledQueue'
    BY <2>3, OwnerQuiet
  <2>9. pc[t] # "absent"
    BY <2>1, <2>2 DEF PoolInv, AttachedRun
  <2>10. PushedOnce' /\ SlotsDistinct'
    BY <2>3, <2>6 DEF PoolInv, PushedOnce, SlotsDistinct
  <2>11. AttachedRun'
    BY <2>3, <2>4, <2>5, <2>6, <2>9 DEF PoolInv, AttachedRun
  <2>12. PromiseInv'
    BY <2>3, <2>4, <2>6 DEF PoolInv, PromiseInv, Draining
  <2> QED
    BY <2>7, <2>8, <2>10, <2>11, <2>12 DEF PoolInv
<1> QED
  BY <1>1, <1>2 DEF SetFlags

LEMMA ClearKeeps ==
    ASSUME PoolInv, Clear
    PROVE  PoolInv'
<1>1. opc \in {"clear", "clear_rest"} /\ UNCHANGED <<flag, pc, task>>
  BY DEF Clear, workerVars
<1>2. CASE /\ queue # << >> /\ queue' = Tail(queue)
           /\ UNCHANGED <<ownerVars, pushVars>>
  <2>1. UNCHANGED <<isDone, isStop, slots, opc, want, promised, pushing, pushed>>
    BY <1>2 DEF ownerVars, pushVars
  <2>2. /\ queue' \in Seq(Tasks) /\ Len(queue') = Len(queue) - 1
        /\ Queued' \subseteq Queued
    BY <1>2, QueueTail DEF PoolInv, TypeOK
  <2>3. UNCHANGED <<Attached, Asleep, Settling, Looking, Notifying, InFlight>>
    BY <1>1, <2>1 DEF Attached, Asleep, Settling, Looking, Notifying, InFlight
  <2>4. Drained => Drained'
    BY <2>1, <2>2 DEF Drained
  <2>5. TypeOK'
    BY <1>1, <2>1, <2>2 DEF PoolInv, TypeOK
  <2>6. WakeInv'
    BY <2>2, <2>3, Counts, QueueLength DEF PoolInv, WakeInv
  <2>7. SettledQueue' /\ PushedOnce' /\ SlotsDistinct' /\ AttachedRun'
    BY <1>1, <2>1, <2>2, <2>3
       DEF PoolInv, SettledQueue, PushedOnce, SlotsDistinct, AttachedRun
  <2>8. PromiseInv'
    BY <1>1, <2>1, <2>3, <2>4 DEF PoolInv, PromiseInv, Draining
  <2> QED
    BY <2>5, <2>6, <2>7, <2>8 DEF PoolInv
<1>3. CASE opc = "clear" /\ OwnerGoto("stop_notify") /\ UNCHANGED queue
  <2>1. /\ opc' = "stop_notify"
        /\ UNCHANGED <<queue, isDone, isStop, slots, want, promised, pushing, pushed>>
    BY <1>3 DEF OwnerGoto, pushVars
  <2>2. UNCHANGED <<Queued, Attached, Drained>>
    BY <2>1 DEF Queued, Attached, Drained
  <2>3. TypeOK' /\ PushedOnce' /\ SlotsDistinct' /\ AttachedRun'
    BY <1>1, <2>1, <2>2 DEF PoolInv, TypeOK, PushedOnce, SlotsDistinct, AttachedRun
  <2>4. WakeInv' /\ SettledQueue'
    BY <1>1, <2>1, OwnerQuiet
  <2>5. PromiseInv'
    BY <1>1, <1>3, <2>1, <2>2 DEF PoolInv, PromiseInv, Draining
  <2> QED
    BY <2>3, <2>4, <2>5 DEF PoolInv
<1>4. CASE /\ opc = "clear_rest" /\ opc' = "ready" /\ slots' = << >>
           /\ UNCHANGED <<queue, isDone, isStop, want, promised, pushVars>>
  <2>1. UNCHANGED <<pushing, pushed>>
    BY <1>4 DEF pushVars
  <2>2. UNCHANGED <<Queued, Drained>> /\ Attached' = {}
    BY <1>4 DEF Queued, Drained, Attached
  <2>3. TypeOK' /\ PushedOnce' /\ SlotsDistinct' /\ AttachedRun'
    BY <1>1, <1>4, <2>1, <2>2
       DEF PoolInv, TypeOK, PushedOnce, SlotsDistinct, AttachedRun
  <2>4. WakeInv' /\ SettledQueue'
    BY <1>1, <1>4, <2>1, OwnerQuiet
  <2>5. PromiseInv'
    BY <1>1, <1>4, <2>2 DEF PoolInv, PromiseInv, Draining
  <2> QED
    BY <2>3, <2>4, <2>5 DEF PoolInv
<1> QED
  BY <1>2, <1>3, <1>4 DEF Clear

\* When all attached threads have ended the promise has been kept.
LEMMA JoinKeeps ==
    ASSUME PoolInv, Join
    PROVE  PoolInv'
<1>1. /\ opc = "join" /\ opc' = "clear_rest"
      /\ \A t \in Attached : pc[t] = "exited"
      /\ UNCHANGED <<queue, flag, pc, task, isDone, isStop, slots, want, promised,
                     pushing, pushed>>
  BY DEF Join, OwnerGoto, workerVars, pushVars
<1>2. UNCHANGED <<Queued, Attached, Drained>>
  BY <1>1 DEF Queued, Attached, Drained
<1>3. TypeOK' /\ PushedOnce' /\ SlotsDistinct' /\ AttachedRun'
  BY <1>1, <1>2 DEF PoolInv, TypeOK, PushedOnce, SlotsDistinct, AttachedRun
<1>4. WakeInv' /\ SettledQueue'
  BY <1>1, OwnerQuiet
<1>5. Drained
  BY <1>1 DEF PoolInv, PromiseInv, Draining
<1>6. PromiseInv'
  BY <1>1, <1>2, <1>5 DEF PoolInv, PromiseInv, Draining
<1> QED
  BY <1>3, <1>4, <1>6 DEF PoolInv

-----------------------------------------------------------------------------

LEMMA PoolInit == Init => PoolInv
<1> SUFFICES ASSUME Init PROVE PoolInv
  OBVIOUS
<1>1. /\ queue = << >> /\ slots = << >> /\ promised = {} /\ opc = "ready"
      /\ isDone = FALSE /\ isStop = FALSE
      /\ \A t \in Threads : pc[t] = "absent" /\ flag[t] = FALSE
  BY DEF Init
<1>2. Queued = {} /\ Attached = {} /\ Asleep = {} /\ Settling = {}
  BY <1>1 DEF Queued, Attached, Asleep, Settling
<1>3. TypeOK
  <2>1. queue \in Seq(Tasks) /\ slots \in Seq(Threads)
    BY <1>1
  <2>2. /\ flag \in [Threads -> BOOLEAN]
        /\ task \in [Threads -> Tasks \cup {NoTask}]
        /\ pushing \in [Pushers -> Tasks \cup {NoTask}]
    BY DEF Init
  <2>3. pc \in [Threads -> {"absent", "pop", "run", "check_flag", "lock", "test_queue",
                            "test_done", "test_flag", "sleep", "exited"}]
    BY DEF Init
  <2>4. \A t \in Threads : task[t] # NoTask <=> pc[t] = "run"
    BY DEF Init
  <2>5. pushed \subseteq Tasks /\ promised \subseteq Tasks /\ want \in Nat
    BY DEF Init
  <2> QED
    BY <1>1, <2>1, <2>2, <2>3, <2>4, <2>5 DEF TypeOK
<1>4. WakeInv /\ SettledQueue /\ PushedOnce /\ SlotsDistinct /\ AttachedRun
  BY <1>1, <1>2 DEF WakeInv, SettledQueue, PushedOnce, SlotsDistinct, AttachedRun
<1>5. PromiseInv
  BY <1>1, <1>2 DEF PromiseInv, Draining, Drained
<1> QED
  BY <1>3, <1>4, <1>5 DEF PoolInv

LEMMA PoolStep == PoolInv /\ [Next]_vars => PoolInv'
<1> SUFFICES ASSUME PoolInv, [Next]_vars PROVE PoolInv'
  OBVIOUS
<1>1. CASE UNCHANGED vars
  <2>1. UNCHANGED <<Queued, Attached, Drained>>
    BY <1>1 DEF vars, Queued, Attached, Drained
  <2>2. TypeOK' /\ PushedOnce' /\ SlotsDistinct' /\ AttachedRun' /\ PromiseInv'
    BY <1>1, <2>1 DEF vars, PoolInv, TypeOK, PushedOnce, SlotsDistinct, AttachedRun,
                      PromiseInv, Draining
  <2>3. WakeInv' /\ SettledQueue'
    BY <1>1, OwnerQuiet DEF vars
  <2> QED
    BY <2>2, <2>3 DEF PoolInv
<1>2. CASE \E p \in Pushers : Push(p)
  BY <1>2, PushKeeps
<1>3. CASE (\E t \in Threads : Work(t)) \/ Wake
  BY <1>3, WorkKeeps DEF Wake
<1>4. CASE Owner
  BY <1>4, GrowKeeps, ShrinkKeeps, ShrinkNotifyKeeps, SetFlagsKeeps, ClearKeeps,
     StopNotifyKeeps, JoinKeeps DEF Owner
<1>5. CASE Ask
  BY <1>5, AskKeeps
<1> QED
  BY <1>1, <1>2, <1>3, <1>4, <1>5 DEF Next

\* The inductive invariant of the pool.
THEOREM PoolInvariance == Spec => []PoolInv
BY PoolInit, PoolStep, PTL DEF Spec

\* For any number of threads, pushers and tasks: while a thread sleeps, no task
\* waits without a thread on its way to it or a notification on its way to a
\* thread.
THEOREM NoWakeupIsLost == Spec => []NoLostWakeup
<1>1. PoolInv => NoLostWakeup
  BY DEF PoolInv, WakeInv, NoLostWakeup
<1> QED
  BY <1>1, PoolInvariance, PTL

\* stop(true) throws no task away whose push had returned, if the pool has a
\* thread.
THEOREM StopKeepsItsPromise == Spec => []PromiseKept
<1>1. PoolInv => PromiseKept
  BY DEF PoolInv, PromiseInv, Draining, Drained, PromiseKept
<1> QED
  BY <1>1, PoolInvariance, PTL

\* The pool's state is well typed, and threads hold a task exactly while they
\* run it.
THEOREM PoolTypeCorrect == Spec => []TypeOK
<1>1. PoolInv => TypeOK
  BY DEF PoolInv
<1> QED
  BY <1>1, PoolInvariance, PTL

=============================================================================
