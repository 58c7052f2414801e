-------------------------- MODULE Scheduler_proofs --------------------------
(***************************************************************************)
(* Sleeping, waking up and the task queues of the scheduler, for every set *)
(* of tasks, priorities and locks.                                         *)
(***************************************************************************)
EXTENDS Coroutines_proofs

(* What WakeupMakesRunnable and PendingSleepServed need of each other is   *)
(* nothing, and both need of IndInv that a waiter for a lock never sleeps. *)
WakeInv == WakeupMakesRunnable /\ PendingSleepServed

LEMMA InitWake == Init => WakeInv
  BY DEF Init, WakeInv, WakeupMakesRunnable, PendingSleepServed, Valid

LEMMA ScheduleWake ==
  ASSUME IndInv, WakeInv,
         NEW t \in Task, NEW expired \in SUBSET Task,
         NEW intr \in SUBSET {Itask}, NEW longOk \in BOOLEAN,
         NextTask(t, expired, intr, longOk)
  PROVE  WakeInv'
<1> DEFINE up == expired \cup intr \cup HelperWoken
<1>1. /\ stopped'  = [u \in Task |-> stopped[u] /\ u \notin up]
      /\ sleeping' = [u \in Task |-> sleeping[u] /\ u \notin up]
      /\ wakeup'   = [u \in Task |-> wakeup[u] \/ u \in up]
      /\ UNCHANGED <<pc, slot, pending_sleep, wait, hold>>
  BY DEF NextTask, RunnableYes, pendVars, taskLock
<1> HIDE DEF up
<1>2. QED
  BY <1>1 DEF WakeInv, WakeupMakesRunnable, PendingSleepServed, Valid

LEMMA SleepWake ==
  ASSUME IndInv, WakeInv, NEW t \in Task,
         (\E kind \in SleepKind : TaskSleep(t, kind)) \/ SleepLoop(t)
  PROVE  WakeInv'
<1> USE DEF WakeInv, WakeupMakesRunnable, PendingSleepServed, Valid, pendVars,
            taskLock
<1>1. ASSUME NEW kind \in SleepKind, TaskSleep(t, kind) PROVE WakeInv'
  <2>1. /\ stopped' = [u \in Task |-> u = t \/ (stopped[u] /\ u \notin {})]
        /\ sleeping' = [sleeping EXCEPT ![t] = TRUE]
        /\ wakeup' = [wakeup EXCEPT ![t] = FALSE]
        /\ pc' = [pc EXCEPT ![t] = "TaskSleep"]
        /\ UNCHANGED <<slot, pending_sleep, wait, hold>>
    BY <1>1 DEF TaskSleep, SleepSetup
  <2>2. QED BY <2>1 DEF IndInv, TypeOK
<1>2. CASE SleepLoop(t)
  <2>1. t \in Valid /\ pc[t] = "TaskSleep" /\ ~stopped[t]
    BY <1>2 DEF SleepLoop, IndInv, CurrentTaskValid, SleepersStopped
  <2>2. wakeup[t]
    BY <2>1
  <2>3. QED BY <1>2, <2>2 DEF SleepLoop, IndInv, TypeOK
<1>3. QED BY <1>1, <1>2

(* A task put to sleep by another one, or woken up by it.                  *)
LEMMA OthersWake ==
  ASSUME IndInv, WakeInv, NEW t \in Task, NEW u \in Task, NEW b \in BOOLEAN,
         TaskSleepID(t, u, b) \/ TaskWakeup(t, u, b)
  PROVE  WakeInv'
<1> USE DEF WakeInv, WakeupMakesRunnable, PendingSleepServed, Valid, pendVars,
            taskLock, control, sleepVars
<1>1. CASE TaskSleepID(t, u, b) /\ InLock(u)
  BY <1>1 DEF TaskSleepID, InLock, IndInv, TypeOK
<1>2. CASE TaskSleepID(t, u, b) /\ ~InLock(u)
  <2>1. /\ stopped' = [v \in Task |-> v = u \/ (stopped[v] /\ v \notin {})]
        /\ sleeping' = [sleeping EXCEPT ![u] = TRUE]
        /\ wakeup' = [wakeup EXCEPT ![u] = FALSE]
        /\ UNCHANGED <<pc, slot, pending_sleep, wait, hold>>
    BY <1>2 DEF TaskSleepID, SleepSetup
  <2>2. QED BY <2>1 DEF IndInv, TypeOK
<1>3. CASE TaskWakeup(t, u, b)
  <2>1. UNCHANGED <<pc, slot, wait, hold>>
    BY <1>3 DEF TaskWakeup
  <2>2. CASE sleeping[u]
    <3>1. /\ stopped'  = [stopped EXCEPT ![u] = FALSE]
          /\ sleeping' = [sleeping EXCEPT ![u] = FALSE]
          /\ wakeup'   = [wakeup EXCEPT ![u] = TRUE]
          /\ UNCHANGED pending_sleep
      BY <1>3, <2>2 DEF TaskWakeup
    <3>2. QED BY <2>1, <2>2, <3>1 DEF IndInv, TypeOK
  <2>3. CASE ~sleeping[u]
    <3>1. /\ pending_sleep' = [pending_sleep EXCEPT ![u] = FALSE]
          /\ UNCHANGED <<stopped, sleeping, wakeup>>
      BY <1>3, <2>3 DEF TaskWakeup
    <3>2. QED BY <2>1, <3>1 DEF IndInv, TypeOK
  <2>4. QED BY <2>2, <2>3
<1>4. QED BY <1>1, <1>2, <1>3

(* A task that is created or removed is neither asleep nor in a loop.      *)
LEMMA SlotWake ==
  ASSUME IndInv, WakeInv, NEW t \in Task, NEW u \in Task,
         CreateTask(t, u) \/ TaskRemove(t, u)
  PROVE  WakeInv'
<1> USE DEF WakeInv, WakeupMakesRunnable, PendingSleepServed, Valid, pendVars,
            taskLock
<1>1. CASE CreateTask(t, u)
  BY <1>1 DEF CreateTask, IndInv, TypeOK
<1>2. CASE TaskRemove(t, u)
  BY <1>2 DEF TaskRemove, IndInv, TypeOK
<1>3. QED BY <1>1, <1>2

(* A task that takes a lock or waits for it keeps its pending sleep.       *)
LEMMA EnterWake ==
  ASSUME IndInv, WakeInv, NEW t \in Task, NEW l \in Lock, NEW tok, NEW us,
         EntersLoop(t, l, tok, us), LockLoop(t, l, tok, us)
  PROVE  WakeInv'
<1> USE TaskAssumption DEF WakeInv, WakeupMakesRunnable, PendingSleepServed, Valid
<1>1. /\ Await(t, l) \/ Acquire(t, l)
      /\ UNCHANGED <<slot, sleeping, wakeup, pending_sleep>>
  BY DEF LockLoop, pendVars
<1>2. hold[t] = NoLock /\ ~sleeping[t]
  BY DEF EntersLoop, IndInv, SleepersStopped
<1>3. CASE Await(t, l)
  BY SMTT(20), <1>1, <1>2, <1>3 DEF Await, IndInv, TypeOK
<1>4. CASE Acquire(t, l)
  BY <1>1, <1>2, <1>4 DEF Acquire, IndInv, TypeOK
<1>5. QED BY <1>1, <1>3, <1>4

(* A task that leaves a lock serves its pending sleep.                     *)
LEMMA LeaveWake ==
  ASSUME IndInv, WakeInv, NEW t \in Task, NEW l \in Lock, lock_leave(t, l)
  PROVE  WakeInv'
<1> DEFINE woken == WaitersToWake(t, l)
<1>1. /\ hold' = [hold EXCEPT ![t] = NoLock] /\ UNCHANGED <<slot, wait>>
      /\ pc[t] = "run" /\ hold[t] = l /\ cur = t /\ nt = "-"
      /\ AfterLeave(t, woken)
  BY DEF lock_leave, Running
<1>2. \A u \in woken : u \in Task /\ u # t /\ wait[u] = l
  BY <1>1, TaskAssumption DEF WaitersToWake, IndInv, UsersAreInLock, Exclusion, TypeOK
<1>3. \A u \in woken : pc[u] = "lock_enter" /\ ~sleeping[u]
  BY <1>2, TaskAssumption DEF IndInv, UsersAreInLock, WaitersAwaitTurn
<1>4. ~stopped[t] /\ ~sleeping[t]
  BY <1>1 DEF IndInv, SleepersStopped
<1> HIDE DEF woken
<1> USE DEF WakeInv, WakeupMakesRunnable, PendingSleepServed, Valid
<1>5. CASE pending_sleep[t]
  <2>1. /\ pending_sleep' = [pending_sleep EXCEPT ![t] = FALSE]
        /\ stopped' = [u \in Task |-> u = t \/ (stopped[u] /\ u \notin woken)]
        /\ sleeping' = [sleeping EXCEPT ![t] = TRUE]
        /\ wakeup' = [wakeup EXCEPT ![t] = FALSE]
        /\ pc' = [pc EXCEPT ![t] = "TaskSleep"]
    BY <1>1, <1>5 DEF AfterLeave, SleepSetup
  <2>2. ASSUME NEW u \in Task, u # t
        PROVE  /\ stopped'[u] <=> stopped[u] /\ u \notin woken
               /\ sleeping'[u] = sleeping[u] /\ wakeup'[u] = wakeup[u]
               /\ pc'[u] = pc[u] /\ pending_sleep'[u] = pending_sleep[u]
               /\ hold'[u] = hold[u] /\ wait'[u] = wait[u] /\ slot'[u] = slot[u]
    BY <1>1, <2>1, <2>2 DEF IndInv, TypeOK
  <2>3. /\ stopped'[t] /\ sleeping'[t] /\ ~wakeup'[t] /\ pc'[t] = "TaskSleep"
        /\ ~pending_sleep'[t]
    BY <2>1 DEF IndInv, TypeOK
  <2>4. WakeupMakesRunnable'
    BY <1>2, <1>3, <2>2, <2>3
  <2>5. PendingSleepServed'
    BY <2>2, <2>3
  <2>6. QED BY <2>4, <2>5
<1>6. CASE ~pending_sleep[t]
  <2>1. /\ stopped' = [u \in Task |-> stopped[u] /\ u \notin woken]
        /\ UNCHANGED <<pc, pending_sleep, sleeping, wakeup>>
    BY <1>1, <1>6 DEF AfterLeave
  <2>2. QED BY <1>1, <1>2, <1>3, <1>4, <1>6, <2>1 DEF IndInv, TypeOK
<1>7. QED BY <1>5, <1>6

(* Every step keeps what is known of sleepers.                             *)
LEMMA NextWake == IndInv /\ WakeInv /\ [Next]_vars => WakeInv'
<1> SUFFICES ASSUME IndInv, WakeInv, [Next]_vars PROVE WakeInv'
  OBVIOUS
<1>1. CASE UNCHANGED vars
  BY <1>1 DEF WakeInv, WakeupMakesRunnable, PendingSleepServed, Valid, vars,
     control, sleepVars, pendVars, taskLock
<1>2. CASE Schedule
  <2>1. PICK t \in Task, expired \in SUBSET {u \in Task : timer[u] # "none"},
             intr \in SUBSET {Itask}, longOk \in BOOLEAN :
                NextTask(t, expired, intr, longOk)
    BY <1>2 DEF Schedule
  <2>2. expired \in SUBSET Task
    OBVIOUS
  <2>3. QED BY <2>1, <2>2, ScheduleWake
<1>3. CASE TaskCollect
  BY <1>3 DEF WakeInv, WakeupMakesRunnable, PendingSleepServed, Valid,
     TaskCollect, sleepVars, pendVars, taskLock, IndInv, TypeOK
<1>4. ASSUME NEW t \in Task, NEW param \in {"none", "busy", "long"}, Yield(t, param)
      PROVE  WakeInv'
  BY <1>4 DEF WakeInv, WakeupMakesRunnable, PendingSleepServed, Valid, Yield,
     sleepVars, pendVars, taskLock
<1>5. ASSUME NEW t \in Task,
             (\E kind \in SleepKind : TaskSleep(t, kind)) \/ SleepLoop(t)
      PROVE  WakeInv'
  BY <1>5, SleepWake
<1>6. ASSUME NEW t \in Task, NEW u \in Task, NEW b \in BOOLEAN,
             TaskSleepID(t, u, b) \/ TaskWakeup(t, u, b)
      PROVE  WakeInv'
  BY <1>6, OthersWake
<1>7. ASSUME NEW t \in Task, NEW u \in Task, CreateTask(t, u) \/ TaskRemove(t, u)
      PROVE  WakeInv'
  BY <1>7, SlotWake
<1>8. ASSUME NEW t \in Task, NEW l \in Lock, lock_enter(t, l) PROVE WakeInv'
  BY <1>8, EnterEntersLoop, EnterWake
<1>9. ASSUME NEW t \in Task, lock_retry(t) PROVE WakeInv'
  BY <1>9, RetryEntersLoop, EnterWake
<1>10. ASSUME NEW t \in Task, NEW l \in Lock, lock_leave(t, l) PROVE WakeInv'
  BY <1>10, LeaveWake
<1>11. QED
  BY <1>1, <1>2, <1>3, <1>4, <1>5, <1>6, <1>7, <1>8, <1>9, <1>10 DEF Next

LEMMA WakeInvariance == Careful => (Spec => []WakeInv)
<1> SUFFICES ASSUME Careful PROVE Spec => []WakeInv
  OBVIOUS
<1>1. IndInv /\ WakeInv /\ [Next]_vars => WakeInv'
  BY NextWake
<1>2. QED BY <1>1, InitWake, Invariance, PTL DEF Spec

(* No wakeup is lost: a task that sleeps is stopped and its flag is down,  *)
(* and a task in the loop of _TaskSleep() can run exactly when its flag is *)
(* up, whoever else was woken, waited for a lock or slept meanwhile.       *)
THEOREM WakeupsNotLost == Careful => (Spec => []WakeupMakesRunnable)
<1>1. WakeInv => WakeupMakesRunnable
  BY DEF WakeInv
<1>2. QED BY <1>1, WakeInvariance, PTL

(* A TaskSleepID() of a task in a lock is served when it leaves the lock.  *)
THEOREM PendingSleepsServed == Careful => (Spec => []PendingSleepServed)
<1>1. WakeInv => PendingSleepServed
  BY DEF WakeInv
<1>2. QED BY <1>1, WakeInvariance, PTL
---------------------------------------------------------------------------
(* The task queues.  Once(s): no element of s is there twice.              *)
Once(s) == \A i, j \in DOMAIN s : s[i] = s[j] => i = j

(* The queues q hold the tasks of V, each at its priority in pr.           *)
Queued(q, V, pr) ==
  \A p \in Prio :
    /\ Range(q[p].tasks) = {t \in V : pr[t] = p}
    /\ Once(q[p].tasks)
    /\ q[p].last_run # NoTask => q[p].last_run \in Range(q[p].tasks)

(* The elements that are left when one is removed.                         *)
LEMMA RemoveAtElements ==
  ASSUME NEW s \in Seq(Task), NEW i \in 1..Len(s)
  PROVE  /\ Len(RemoveAt(s, i)) = Len(s) - 1
         /\ \A k \in 1..(Len(s) - 1) :
              RemoveAt(s, i)[k] = IF k < i THEN s[k] ELSE s[k + 1]
<1> DEFINE a == SubSeq(s, 1, i - 1)
           b == SubSeq(s, i + 1, Len(s))
<1>1. Len(s) \in Nat /\ i - 1 \in Nat /\ i + 1 \in Nat /\ i \in Nat /\ i <= Len(s)
  BY LenProperties
<1>2. \A k \in 1..Len(s) : s[k] \in Task
  BY ElementOfSeq
<1>3. /\ a \in Seq(Task) /\ Len(a) = i - 1
      /\ \A k \in 1..(i - 1) : a[k] = s[k]
  <2>1. \A k \in 1..(i - 1) : s[k] \in Task
    BY <1>1, <1>2
  <2>2. QED BY <1>1, <2>1, SubSeqProperties
<1>4. /\ b \in Seq(Task) /\ Len(b) = Len(s) - i
      /\ \A k \in 1..(Len(s) - i) : b[k] = s[i + k]
  <2>1. \A k \in (i + 1)..Len(s) : s[k] \in Task
    BY <1>1, <1>2
  <2>2. QED BY <1>1, <2>1, SubSeqProperties
<1> HIDE DEF a, b
<1>5. /\ Len(a \o b) = Len(a) + Len(b)
      /\ \A k \in 1..(Len(a) + Len(b)) :
           (a \o b)[k] = IF k <= Len(a) THEN a[k] ELSE b[k - Len(a)]
  BY <1>3, <1>4, ConcatProperties
<1>6. RemoveAt(s, i) = a \o b
  BY DEF RemoveAt, a, b
<1>7. Len(a) = i - 1 /\ Len(a) + Len(b) = Len(s) - 1
  BY <1>1, <1>3, <1>4
<1>8. ASSUME NEW k \in 1..(Len(s) - 1)
      PROVE  (a \o b)[k] = IF k < i THEN s[k] ELSE s[k + 1]
  <2>1. CASE k < i
    BY <1>1, <1>3, <1>5, <1>7, <2>1
  <2>2. CASE ~(k < i)
    <3>1. k - (i - 1) \in 1..(Len(s) - i) /\ i + (k - (i - 1)) = k + 1
      BY <1>1, <2>2
    <3>2. (a \o b)[k] = b[k - (i - 1)]
      BY <1>1, <1>5, <1>7, <2>2
    <3>3. b[k - (i - 1)] = s[i + (k - (i - 1))]
      BY <1>4, <3>1
    <3>4. QED BY <2>2, <3>1, <3>2, <3>3
  <2>3. QED BY <2>1, <2>2
<1>9. QED BY <1>5, <1>6, <1>7, <1>8

(* Taking a task out of a queue takes out that task and no other.          *)
LEMMA WithoutElements ==
  ASSUME NEW s \in Seq(Task), NEW t, Once(s)
  PROVE  Once(Without(s, t)) /\ Range(Without(s, t)) = Range(s) \ {t}
<1>1. CASE t \notin Range(s)
  BY <1>1 DEF Without
<1>2. CASE t \in Range(s)
  <2> DEFINE i == CHOOSE k \in DOMAIN s : s[k] = t
             r == RemoveAt(s, i)
  <2>1. i \in DOMAIN s /\ s[i] = t
    BY <1>2 DEF Range
  <2>2. DOMAIN s = 1..Len(s) /\ Len(s) \in Nat
    BY LenProperties
  <2>3. Without(s, t) = r
    BY <1>2 DEF Without
  <2>4. r \in Seq(Task) /\ Len(r) = Len(s) - 1
        /\ \A k \in 1..(Len(s) - 1) : r[k] = IF k < i THEN s[k] ELSE s[k + 1]
    BY <2>1, <2>2, RemoveAtElements, RemoveAtType
  <2>5. DOMAIN r = 1..(Len(s) - 1)
    BY <2>4, LenProperties
  <2> HIDE DEF i, r
  <2>6. Once(r)
    <3> SUFFICES ASSUME NEW j \in DOMAIN r, NEW k \in DOMAIN r, r[j] = r[k]
                 PROVE  j = k
      BY DEF Once
    <3> DEFINE from(x) == IF x < i THEN x ELSE x + 1
    <3>1. /\ from(j) \in DOMAIN s /\ r[j] = s[from(j)]
          /\ from(k) \in DOMAIN s /\ r[k] = s[from(k)]
      BY <2>1, <2>2, <2>4, <2>5
    <3>2. from(j) = from(k)
      BY <3>1 DEF Once
    <3>3. QED BY <2>1, <2>2, <2>5, <3>2
  <2>7. ASSUME NEW k \in DOMAIN r PROVE r[k] \in Range(s) \ {t}
    <3> DEFINE x == IF k < i THEN k ELSE k + 1
    <3>1. x \in DOMAIN s /\ x # i /\ r[k] = s[x]
      BY <2>1, <2>2, <2>4, <2>5
    <3>2. QED BY <2>1, <3>1 DEF Once, Range
  <2>8. ASSUME NEW j \in DOMAIN s, s[j] # t PROVE s[j] \in Range(r)
    <3> DEFINE x == IF j < i THEN j ELSE j - 1
    <3>1. x \in DOMAIN r /\ r[x] = s[j]
      BY <2>1, <2>2, <2>4, <2>5, <2>8
    <3>2. QED BY <3>1 DEF Range
  <2>9. QED BY <2>3, <2>6, <2>7, <2>8 DEF Range
<1>3. QED BY <1>1, <1>2

(* Putting a task at the head of a queue it is not in.                     *)
LEMMA ConsElements ==
  ASSUME NEW s \in Seq(Task), NEW t \in Task, Once(s), t \notin Range(s)
  PROVE  Once(Cons(t, s)) /\ Range(Cons(t, s)) = Range(s) \cup {t}
<1> DEFINE r == Cons(t, s)
<1>1. DOMAIN s = 1..Len(s) /\ Len(s) \in Nat
  BY LenProperties
<1>2. /\ r \in Seq(Task) /\ Len(r) = Len(s) + 1 /\ r[1] = t
      /\ \A k \in 1..Len(s) : r[k + 1] = s[k]
  BY <1>1 DEF Cons
<1>3. DOMAIN r = 1..(Len(s) + 1)
  BY <1>2, LenProperties
<1> HIDE DEF r
<1>4. \A k \in DOMAIN r : k # 1 => k - 1 \in DOMAIN s /\ r[k] = s[k - 1]
  BY <1>1, <1>2, <1>3
<1>5. Once(r)
  <2> SUFFICES ASSUME NEW j \in DOMAIN r, NEW k \in DOMAIN r, r[j] = r[k]
               PROVE  j = k
    BY DEF Once
  <2>1. \A m \in DOMAIN s : s[m] # t
    BY DEF Range
  <2>2. j = 1 <=> k = 1
    BY <1>2, <1>4, <2>1
  <2>3. CASE j # 1 /\ k # 1
    <3>1. j - 1 = k - 1
      BY <1>4, <2>3 DEF Once
    <3>2. QED BY <1>1, <1>3, <3>1
  <2>4. QED BY <2>2, <2>3
<1>6. \A k \in DOMAIN r : r[k] \in Range(s) \cup {t}
  BY <1>2, <1>4 DEF Range
<1>7. \A k \in DOMAIN s : s[k] \in Range(r)
  <2>1. \A k \in DOMAIN s : k + 1 \in DOMAIN r /\ r[k + 1] = s[k]
    BY <1>1, <1>2, <1>3
  <2>2. QED BY <2>1 DEF Range
<1>8. t \in Range(r)
  <2>1. 1 \in DOMAIN r
    BY <1>1, <1>3
  <2>2. QED BY <1>2, <2>1 DEF Range
<1>9. QED BY <1>5, <1>6, <1>7, <1>8 DEF Range, r

(* TdeQ: a task leaves the queue of its priority, and its last_run.        *)
LEMMA TdeQQueued ==
  ASSUME NEW q \in [Prio -> TaskQueue], NEW V \in SUBSET Task,
         NEW pr \in [Task -> Prio], NEW t \in Task, Queued(q, V, pr)
  PROVE  Queued(TdeQ(q, t, pr[t]), V \ {t}, pr)
<1> DEFINE r == TdeQ(q, t, pr[t])
           f == pr[t]
<1>1. /\ r[f].tasks = Without(q[f].tasks, t)
      /\ r[f].last_run = IF q[f].last_run = t THEN NoTask ELSE q[f].last_run
      /\ \A p \in Prio : p # f => r[p] = q[p]
  BY DEF TdeQ
<1>2. q[f].tasks \in Seq(Task) /\ f \in Prio
  BY DEF TaskQueue
<1>3. Once(r[f].tasks) /\ Range(r[f].tasks) = Range(q[f].tasks) \ {t}
  BY <1>1, <1>2, WithoutElements DEF Queued
<1> HIDE DEF r
<1>4. ASSUME NEW p \in Prio
      PROVE  /\ Range(r[p].tasks) = {u \in V \ {t} : pr[u] = p}
             /\ Once(r[p].tasks)
             /\ r[p].last_run # NoTask => r[p].last_run \in Range(r[p].tasks)
  <2>1. CASE p = f
    BY <1>1, <1>3, <2>1 DEF Queued
  <2>2. CASE p # f
    BY <1>1, <2>2 DEF Queued
  <2>3. QED BY <2>1, <2>2
<1>5. QED BY <1>4 DEF Queued, r

(* TenQ: a task joins the queue of the priority it gets.                   *)
LEMMA TenQQueued ==
  ASSUME NEW q \in [Prio -> TaskQueue], NEW V \in SUBSET Task,
         NEW pr \in [Task -> Prio], NEW t \in Task \ V, NEW to \in Prio,
         Queued(q, V, pr)
  PROVE  Queued(TenQ(q, t, to), V \cup {t}, [pr EXCEPT ![t] = to])
<1> DEFINE r == TenQ(q, t, to)
<1>1. /\ r[to].tasks = Cons(t, q[to].tasks)
      /\ r[to].last_run = q[to].last_run
      /\ \A p \in Prio : p # to => r[p] = q[p]
  BY DEF TenQ, TaskQueue
<1>2. q[to].tasks \in Seq(Task) /\ t \notin Range(q[to].tasks)
  BY DEF TaskQueue, Queued
<1>3. Once(r[to].tasks) /\ Range(r[to].tasks) = Range(q[to].tasks) \cup {t}
  BY <1>1, <1>2, ConsElements DEF Queued
<1> HIDE DEF r
<1>4. ASSUME NEW p \in Prio
      PROVE  /\ Range(r[p].tasks)
                  = {u \in V \cup {t} : [pr EXCEPT ![t] = to][u] = p}
             /\ Once(r[p].tasks)
             /\ r[p].last_run # NoTask => r[p].last_run \in Range(r[p].tasks)
  <2>1. CASE p = to
    BY <1>1, <1>3, <2>1 DEF Queued
  <2>2. CASE p # to
    BY <1>1, <2>2 DEF Queued
  <2>3. QED BY <2>1, <2>2
<1>5. QED BY <1>4 DEF Queued, r

(* A valid task whose priority changes is moved to the queue of the new    *)
(* one, which may be the old one.                                          *)
LEMMA RequeueQueued ==
  ASSUME NEW q \in [Prio -> TaskQueue], NEW V \in SUBSET Task,
         NEW pr \in [Task -> Prio], NEW t \in V, NEW to \in Prio,
         Queued(q, V, pr)
  PROVE  Queued(Requeue(q, t, pr[t], to), V, [pr EXCEPT ![t] = to])
<1> DEFINE r == TdeQ(q, t, pr[t])
<1>1. r \in [Prio -> TaskQueue] /\ Queued(r, V \ {t}, pr)
  BY QueueTypes, TdeQQueued
<1>2. Queued(TenQ(r, t, to), (V \ {t}) \cup {t}, [pr EXCEPT ![t] = to])
  BY <1>1, TenQQueued
<1>3. (V \ {t}) \cup {t} = V
  OBVIOUS
<1>4. QED BY <1>2, <1>3 DEF Requeue

LEMMA QueuedIsConsistent == QueuesConsistent <=> Queued(TaskQ, Valid, priority)
  BY DEF QueuesConsistent, Queued, Once

(* The scheduler marks the task it leaves as the last one run of its       *)
(* queue: while it is valid it is in that queue.                           *)
LEMMA MarkQueued ==
  ASSUME IndInv, Queued(TaskQ, Valid, priority)
  PROVE  Queued(LastRunMarked, Valid, priority)
<1> DEFINE f == priority[cur]
           x == IF slot[cur] = "valid" THEN cur ELSE NoTask
<1>1. TaskQ \in [Prio -> TaskQueue] /\ f \in Prio /\ cur \in Task
  BY DEF IndInv, TypeOK
<1>2. x # NoTask => x \in Range(TaskQ[f].tasks)
  BY <1>1 DEF Queued, Valid
<1> HIDE DEF f, x
<1>3. /\ [TaskQ EXCEPT ![f].last_run = x][f].tasks = TaskQ[f].tasks
      /\ [TaskQ EXCEPT ![f].last_run = x][f].last_run = x
      /\ \A p \in Prio : p # f =>
           [TaskQ EXCEPT ![f].last_run = x][p] = TaskQ[p]
  BY <1>1 DEF TaskQueue
<1>4. Queued([TaskQ EXCEPT ![f].last_run = x], Valid, priority)
  BY <1>2, <1>3 DEF Queued
<1>5. QED BY <1>4 DEF LastRunMarked, f, x

(* What a step does to the queues when it moves the valid task t.          *)
LEMMA MoveQueued ==
  ASSUME IndInv, Queued(TaskQ, Valid, priority), NEW t \in Valid, NEW to \in Prio,
         TaskQ' = Requeue(TaskQ, t, priority[t], to),
         priority' = [priority EXCEPT ![t] = to], slot' = slot
  PROVE  QueuesConsistent'
<1>1. TaskQ \in [Prio -> TaskQueue] /\ priority \in [Task -> Prio]
  BY DEF IndInv, TypeOK
<1>2. Valid \in SUBSET Task /\ Valid' = Valid
  BY DEF Valid
<1>3. Queued(TaskQ', Valid', priority')
  BY <1>1, <1>2, RequeueQueued
<1>4. QED BY <1>3 DEF QueuesConsistent, Queued, Once

(* lock_enter() moves the owner to the queue of the priority it is raised  *)
(* to.                                                                     *)
LEMMA EnterQueued ==
  ASSUME IndInv, Queued(TaskQ, Valid, priority),
         NEW t \in Task, NEW l \in Lock, NEW tok, NEW us,
         EntersLoop(t, l, tok, us), LockLoop(t, l, tok, us)
  PROVE  QueuesConsistent'
<1>1. (Await(t, l) \/ Acquire(t, l)) /\ slot' = slot
  BY DEF LockLoop
<1>2. CASE UNCHANGED prioVars
  BY <1>1, <1>2 DEF prioVars, Queued, QueuesConsistent, Valid, Once
<1>3. CASE Await(t, l) /\ RaisesOwner(t, l)
  <2>1. owner[l] \in Task /\ hold[owner[l]] = l
    BY <1>3 DEF RaisesOwner, IndInv, Exclusion, TypeOK
  <2>2. owner[l] \in Valid
    BY <2>1, TaskAssumption DEF IndInv, UsersAreInLock, InLock, Valid
  <2>3. /\ TaskQ' = Requeue(TaskQ, owner[l], priority[owner[l]], priority[t])
        /\ priority' = [priority EXCEPT ![owner[l]] = priority[t]]
    BY <1>3 DEF Await
  <2>4. priority[t] \in Prio
    BY DEF IndInv, TypeOK
  <2>5. QED BY <1>1, <2>2, <2>3, <2>4, MoveQueued
<1>4. QED BY <1>1, <1>2, <1>3 DEF Await, Acquire

(* lock_leave() moves a raised owner back to the queue of its priority.    *)
LEMMA LeaveQueued ==
  ASSUME IndInv, Queued(TaskQ, Valid, priority),
         NEW t \in Task, NEW l \in Lock, lock_leave(t, l)
  PROVE  QueuesConsistent'
<1>1. RestorePriority(t) /\ slot' = slot /\ t \in Valid
  BY DEF lock_leave, Running, IndInv, CurrentTaskValid, Valid
<1>2. CASE inverted[t]
  <2>1. saved_priority[t] \in Prio
    BY <1>2, TaskAssumption DEF IndInv, PrioritiesSaved, Prio
  <2>2. /\ TaskQ' = Requeue(TaskQ, t, priority[t], saved_priority[t])
        /\ priority' = [priority EXCEPT ![t] = saved_priority[t]]
    BY <1>1, <1>2 DEF RestorePriority
  <2>3. QED BY <1>1, <2>1, <2>2, MoveQueued
<1>3. CASE ~inverted[t]
  BY <1>1, <1>3 DEF RestorePriority, prioVars, Queued, QueuesConsistent, Valid, Once
<1>4. QED BY <1>2, <1>3

(* A task slot that is given a task, or whose task is removed.             *)
LEMMA SlotQueued ==
  ASSUME IndInv, Queued(TaskQ, Valid, priority), NEW t \in Task, NEW u \in Task,
         CreateTask(t, u) \/ TaskRemove(t, u)
  PROVE  QueuesConsistent'
<1>1. /\ TaskQ \in [Prio -> TaskQueue] /\ priority \in [Task -> Prio]
      /\ Valid \in SUBSET Task
  BY DEF IndInv, TypeOK, Valid
<1>2. CASE CreateTask(t, u)
  <2>1. u \notin Valid /\ Valid' = Valid \cup {u}
    BY <1>2 DEF CreateTask, Valid, IndInv, TypeOK
  <2>2. BasePrio[u] \in Prio
    BY DEF Prio
  <2>3. Queued(TaskQ', Valid', priority')
    BY <1>1, <1>2, <2>1, <2>2, TenQQueued DEF CreateTask
  <2>4. QED BY <2>3 DEF QueuesConsistent, Queued, Once
<1>3. CASE TaskRemove(t, u)
  <2>1. Valid' = Valid \ {u}
    BY <1>3 DEF TaskRemove, Valid, IndInv, TypeOK
  <2>2. Queued(TaskQ', Valid', priority')
    BY <1>1, <1>3, <2>1, TdeQQueued DEF TaskRemove
  <2>3. QED BY <2>2 DEF QueuesConsistent, Queued, Once
<1>4. QED BY <1>2, <1>3

(* Every step keeps the queues consistent.                                 *)
LEMMA NextQueued == IndInv /\ QueuesConsistent /\ [Next]_vars => QueuesConsistent'
<1> SUFFICES ASSUME IndInv, QueuesConsistent, [Next]_vars PROVE QueuesConsistent'
  OBVIOUS
<1>1. Queued(TaskQ, Valid, priority)
  BY QueuedIsConsistent
<1>2. ASSUME UNCHANGED <<TaskQ, priority>>, Valid' = Valid PROVE QueuesConsistent'
  BY <1>2 DEF QueuesConsistent
<1>3. CASE UNCHANGED vars
  BY <1>2, <1>3 DEF vars, control, prioVars, Valid
<1>4. CASE Schedule
  <2>1. TaskQ' = LastRunMarked /\ UNCHANGED <<slot, priority>>
    BY <1>4 DEF Schedule, NextTask
  <2>2. Queued(TaskQ', Valid', priority')
    BY <1>1, <2>1, MarkQueued DEF Valid
  <2>3. QED BY <2>2 DEF QueuesConsistent, Queued, Once
<1>5. CASE TaskCollect
  BY <1>2, <1>5 DEF TaskCollect, prioVars, Valid, IndInv, TypeOK
<1>6. ASSUME NEW t \in Task, NEW param \in {"none", "busy", "long"}, Yield(t, param)
      PROVE  QueuesConsistent'
  BY <1>2, <1>6 DEF Yield, prioVars, Valid
<1>7. ASSUME NEW t \in Task,
             (\E kind \in SleepKind : TaskSleep(t, kind)) \/ SleepLoop(t)
      PROVE  QueuesConsistent'
  BY <1>2, <1>7 DEF TaskSleep, SleepLoop, prioVars, Valid
<1>8. ASSUME NEW t \in Task, NEW u \in Task, NEW b \in BOOLEAN,
             TaskSleepID(t, u, b) \/ TaskWakeup(t, u, b)
      PROVE  QueuesConsistent'
  BY <1>2, <1>8 DEF TaskSleepID, TaskWakeup, prioVars, control, Valid
<1>9. ASSUME NEW t \in Task, NEW u \in Task, CreateTask(t, u) \/ TaskRemove(t, u)
      PROVE  QueuesConsistent'
  BY <1>1, <1>9, SlotQueued
<1>10. ASSUME NEW t \in Task, NEW l \in Lock, lock_enter(t, l)
       PROVE  QueuesConsistent'
  BY <1>1, <1>10, EnterEntersLoop, EnterQueued
<1>11. ASSUME NEW t \in Task, lock_retry(t) PROVE QueuesConsistent'
  BY <1>1, <1>11, RetryEntersLoop, EnterQueued
<1>12. ASSUME NEW t \in Task, NEW l \in Lock, lock_leave(t, l)
       PROVE  QueuesConsistent'
  BY <1>1, <1>12, LeaveQueued
<1>13. QED
  BY <1>3, <1>4, <1>5, <1>6, <1>7, <1>8, <1>9, <1>10, <1>11, <1>12 DEF Next

LEMMA InitQueued == Init => QueuesConsistent
<1> SUFFICES ASSUME Init, NEW p \in Prio
             PROVE  /\ Range(TaskQ[p].tasks) = {t \in Valid : priority[t] = p}
                    /\ Once(TaskQ[p].tasks)
                    /\ TaskQ[p].last_run = NoTask
  BY DEF QueuesConsistent, Once
<1>1. TaskQ[p].tasks = IF p = BasePrio[Main] THEN <<Main>> ELSE <<>>
  BY DEF Init
<1>2. TaskQ[p].last_run = NoTask
  BY DEF Init
<1>3. Valid = {Main} /\ priority[Main] = BasePrio[Main]
  BY TaskAssumption DEF Init, Valid
<1>4. CASE p = BasePrio[Main]
  <2>1. Range(<<Main>>) = {Main} /\ Once(<<Main>>)
    BY DEF Range, Once
  <2>2. QED BY <1>1, <1>2, <1>3, <1>4, <2>1
<1>5. CASE p # BasePrio[Main]
  <2>1. Range(<<>>) = {} /\ Once(<<>>)
    BY DEF Range, Once
  <2>2. QED BY <1>1, <1>2, <1>3, <1>5, <2>1
<1>6. QED BY <1>4, <1>5

(* Every valid task is in the queue of its priority, once and in no other, *)
(* so the scheduler finds it however often inversions move it and tasks    *)
(* are removed; and a round robin restarts from a task of its queue.       *)
THEOREM QueuesKept == Careful => (Spec => []QueuesConsistent)
<1> SUFFICES ASSUME Careful PROVE Spec => []QueuesConsistent
  OBVIOUS
<1>1. IndInv /\ QueuesConsistent /\ [Next]_vars => QueuesConsistent'
  BY NextQueued
<1>2. QED BY <1>1, InitQueued, Invariance, PTL DEF Spec
=============================================================================
