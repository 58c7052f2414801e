------------------------- MODULE Coroutines_proofs -------------------------
(***************************************************************************)
(* Safety of the coroutines' locks, for every set of tasks, priorities and *)
(* locks, under the assumption that no task is removed while it waits for  *)
(* a lock.                                                                 *)
(***************************************************************************)
EXTENDS Coroutines, SequenceTheorems, TLAPS

(* Removing one element of a sequence of tasks leaves a sequence of tasks. *)
LEMMA RemoveAtType ==
  ASSUME NEW s \in Seq(Task), NEW i \in 1..Len(s)
  PROVE  RemoveAt(s, i) \in Seq(Task)
<1>1. Len(s) \in Nat /\ i - 1 \in Int /\ i + 1 \in Int /\ Len(s) \in Int
  BY LenProperties
<1>2. \A k \in 1..Len(s) : s[k] \in Task
  BY ElementOfSeq
<1>3. \A k \in 1..(i - 1) : s[k] \in Task
  BY <1>1, <1>2
<1>4. \A k \in (i + 1)..Len(s) : s[k] \in Task
  BY <1>1, <1>2
<1>5. SubSeq(s, 1, i - 1) \in Seq(Task)
  BY <1>1, <1>3, SubSeqProperties
<1>6. SubSeq(s, i + 1, Len(s)) \in Seq(Task)
  BY <1>1, <1>4, SubSeqProperties
<1>7. QED
  BY <1>5, <1>6, ConcatProperties DEF RemoveAt

LEMMA WithoutType ==
  ASSUME NEW s \in Seq(Task), NEW t PROVE Without(s, t) \in Seq(Task)
<1>1. CASE t \in Range(s)
  <2>1. PICK j \in DOMAIN s : s[j] = t
    BY <1>1 DEF Range
  <2>2. (CHOOSE i \in DOMAIN s : s[i] = t) \in 1..Len(s)
    BY <2>1, LenProperties
  <2>3. QED
    BY <1>1, <2>2, RemoveAtType DEF Without
<1>2. CASE t \notin Range(s)
  BY <1>2 DEF Without
<1>3. QED BY <1>1, <1>2

LEMMA QueueTypes ==
  ASSUME NEW q \in [Prio -> TaskQueue], NEW t \in Task, NEW p \in Prio
  PROVE  /\ TenQ(q, t, p) \in [Prio -> TaskQueue]
         /\ TdeQ(q, t, p) \in [Prio -> TaskQueue]
<1>1. /\ q[p].tasks \in Seq(Task)
      /\ q[p].last_run \in Task \cup {NoTask}
  BY DEF TaskQueue
<1>2. Cons(t, q[p].tasks) \in Seq(Task)
  BY <1>1 DEF Cons
<1>3. Without(q[p].tasks, t) \in Seq(Task)
  BY <1>1, WithoutType
<1>4. TenQ(q, t, p) \in [Prio -> TaskQueue]
  <2>1. [q[p] EXCEPT !.tasks = Cons(t, @)] \in TaskQueue
    BY <1>1, <1>2 DEF TaskQueue
  <2>2. QED BY <2>1 DEF TenQ
<1>5. TdeQ(q, t, p) \in [Prio -> TaskQueue]
  BY <1>1, <1>3 DEF TdeQ, TaskQueue
<1>6. QED BY <1>4, <1>5

LEMMA InitIndInv == Init => IndInv
<1> SUFFICES ASSUME Init PROVE IndInv
  OBVIOUS
<1> USE TaskAssumption
<1>1. TypeOK
  <2>1. BasePrio[Main] \in Prio /\ BasePrio \in [Task -> Prio]
    BY DEF Prio
  <2>2. TaskQ \in [Prio -> TaskQueue]
    BY DEF Init, TaskQueue
  <2>3. QED
    BY <2>1, <2>2 DEF Init, TypeOK, Timer
<1>2. Exclusion
  BY DEF Init, Exclusion
<1>3. TokensAccountedFor
  BY DEF Init, TokensAccountedFor
<1>4. /\ UsersAreInLock /\ PrioritiesSaved /\ WaitersAwaitTurn
      /\ CurrentTaskValid /\ SleepersStopped
  BY DEF Init, UsersAreInLock, PrioritiesSaved, WaitersAwaitTurn,
         CurrentTaskValid, SleepersStopped, InLock
<1>5. QED
  BY <1>1, <1>2, <1>3, <1>4 DEF IndInv

(* The scheduler only touches what decides who runs.                       *)
LEMMA ScheduleStep ==
  ASSUME IndInv,
         NEW t \in Task, NEW expired \in SUBSET Task,
         NEW intr \in SUBSET {Itask}, NEW longOk \in BOOLEAN,
         NextTask(t, expired, intr, longOk)
  PROVE  IndInv'
<1> USE DEF IndInv
<1> DEFINE up == expired \cup intr \cup HelperWoken
<1>1. up \subseteq Valid
  BY DEF NextTask, Expirable, HelperWoken, CurrentTaskValid
<1>2. t \in Valid /\ (stopped[t] => t \in up)
  <2>1. \E E \in SUBSET Valid : t \in E /\ \A u \in E : stopped[u] => u \in up
    <3> DEFINE long == [long_run EXCEPT ![cur] = @ \/ nt = "long"]
               runnable == {u \in Valid : ~stopped[u]} \cup up
               eligible == {u \in runnable : long[u] => longOk}
    <3>1. IsNextInQueue(LastRunMarked[priority[t]], eligible, t)
      BY DEF NextTask
    <3>2. t \in eligible
      BY <3>1 DEF IsNextInQueue
    <3>3. eligible \subseteq Valid
      BY <1>1
    <3>4. \A u \in eligible : stopped[u] => u \in up
      OBVIOUS
    <3>5. QED BY <3>2, <3>3, <3>4
  <2>2. QED BY <2>1
<1>3. LastRunMarked \in [Prio -> TaskQueue]
  <2> DEFINE p == priority[cur]
             x == IF slot[cur] = "valid" THEN cur ELSE NoTask
  <2>1. p \in Prio /\ x \in Task \cup {NoTask} /\ TaskQ \in [Prio -> TaskQueue]
    BY DEF TypeOK
  <2>2. [TaskQ[p] EXCEPT !.last_run = x] \in TaskQueue
    BY <2>1 DEF TaskQueue
  <2> HIDE DEF p, x
  <2>3. [TaskQ EXCEPT ![p].last_run = x] \in [Prio -> TaskQueue]
    BY <2>1, <2>2
  <2>4. QED BY <2>3 DEF LastRunMarked, p, x
<1>4. TypeOK'
  <2> USE DEF TypeOK
  <2>1. /\ stopped' \in [Task -> BOOLEAN]
        /\ sleeping' \in [Task -> BOOLEAN]
        /\ wakeup' \in [Task -> BOOLEAN]
    BY DEF NextTask, RunnableYes
  <2>2. timer' \in [Task -> Timer]
    BY DEF NextTask, Timer
  <2>3. busy_wait' \in [Task -> BOOLEAN] /\ long_run' \in [Task -> BOOLEAN]
    BY DEF NextTask
  <2>4. cur' \in Task /\ nt' = "-" /\ TaskQ' \in [Prio -> TaskQueue]
    BY <1>3 DEF NextTask
  <2>5. UNCHANGED <<pc, slot, pendVars, priority, saved_priority, inverted,
                    taskLock, lockVars>>
    BY DEF NextTask
  <2>6. QED
    BY <2>1, <2>2, <2>3, <2>4, <2>5 DEF pendVars, taskLock, lockVars
<1>5. Exclusion' /\ TokensAccountedFor'
  BY DEF Exclusion, TokensAccountedFor, NextTask, taskLock, lockVars
<1>6. UsersAreInLock' /\ PrioritiesSaved'
  BY DEF UsersAreInLock, PrioritiesSaved, InLock, NextTask, taskLock, lockVars
<1>7. WaitersAwaitTurn'
  BY <1>1 DEF WaitersAwaitTurn, NextTask, RunnableYes, taskLock, lockVars, Valid,
     TypeOK
<1>8. CurrentTaskValid' /\ SleepersStopped'
  BY <1>2 DEF CurrentTaskValid, SleepersStopped, NextTask, RunnableYes, Valid,
     TypeOK
<1>9. QED BY <1>4, <1>5, <1>6, <1>7, <1>8

LEMMA YieldStep ==
  ASSUME IndInv, NEW t \in Task, NEW param \in {"none", "busy", "long"},
         Yield(t, param)
  PROVE  IndInv'
<1> USE DEF IndInv, Yield, pendVars, taskLock, lockVars, sleepVars, prioVars, ntVars
<1>1. TypeOK'
  BY DEF TypeOK
<1>2. Exclusion' /\ TokensAccountedFor'
  BY DEF Exclusion, TokensAccountedFor
<1>3. UsersAreInLock' /\ PrioritiesSaved' /\ WaitersAwaitTurn'
  BY DEF UsersAreInLock, PrioritiesSaved, WaitersAwaitTurn, InLock
<1>4. CurrentTaskValid' /\ SleepersStopped'
  BY DEF CurrentTaskValid, SleepersStopped, Valid, TypeOK
<1>5. QED BY <1>1, <1>2, <1>3, <1>4

(* A task that puts itself to sleep runs, so it waits for no lock.         *)
LEMMA TaskSleepStep ==
  ASSUME IndInv, NEW t \in Task, NEW kind \in SleepKind, TaskSleep(t, kind)
  PROVE  IndInv'
<1> USE DEF IndInv, TaskSleep, SleepSetup, Running, pendVars, taskLock, lockVars,
            prioVars, ntVars
<1>1. TypeOK'
  <2>1. stopped' \in [Task -> BOOLEAN]
    OBVIOUS
  <2>2. kind \in Timer
    BY TaskAssumption
  <2>3. QED
    BY <2>1, <2>2 DEF TypeOK
<1>2. Exclusion' /\ TokensAccountedFor'
  BY DEF Exclusion, TokensAccountedFor
<1>3. UsersAreInLock' /\ PrioritiesSaved'
  BY DEF UsersAreInLock, PrioritiesSaved, InLock, TypeOK
<1>4. wait[t] = NoLock
  BY DEF UsersAreInLock
<1>5. WaitersAwaitTurn'
  BY <1>4 DEF WaitersAwaitTurn, TypeOK
<1>6. CurrentTaskValid' /\ SleepersStopped'
  BY DEF CurrentTaskValid, SleepersStopped, TypeOK
<1>7. QED BY <1>1, <1>2, <1>3, <1>5, <1>6

LEMMA SleepLoopStep ==
  ASSUME IndInv, NEW t \in Task, SleepLoop(t)
  PROVE  IndInv'
<1> USE DEF IndInv, SleepLoop, pendVars, taskLock, lockVars, prioVars, ntVars,
            sleepVars
<1>1. TypeOK'
  <2>1. CASE wakeup[t]
    <3> HIDE DEF IndInv
    <3>1. TypeOK
      BY DEF IndInv
    <3>2. /\ timer' = [timer EXCEPT ![t] = IF @ = "deadline" THEN "none" ELSE @]
          /\ stopped'  = [stopped EXCEPT ![t] = FALSE]
          /\ sleeping' = [sleeping EXCEPT ![t] = FALSE]
          /\ wakeup'   = [wakeup EXCEPT ![t] = FALSE]
          /\ pc' = [pc EXCEPT ![t] = "run"] /\ nt' = nt
          /\ UNCHANGED <<cur, slot, pendVars, prioVars, ntVars, taskLock, lockVars>>
      BY <2>1
    <3> HIDE DEF SleepLoop
    <3>3. (IF timer[t] = "deadline" THEN "none" ELSE timer[t]) \in Timer
      BY <3>1 DEF TypeOK, Timer
    <3>4. timer' \in [Task -> Timer]
      <4>1. timer \in [Task -> Timer]
        BY <3>1 DEF TypeOK
      <4>2. QED BY <3>2, <3>3, <4>1
    <3>5. pc' \in [Task -> {"run", "TaskSleep", "lock_enter"}]
      <4>1. pc \in [Task -> {"run", "TaskSleep", "lock_enter"}]
        BY <3>1 DEF TypeOK
      <4>2. QED BY <3>2, <4>1
    <3>6. /\ stopped' \in [Task -> BOOLEAN]
          /\ sleeping' \in [Task -> BOOLEAN]
          /\ wakeup' \in [Task -> BOOLEAN]
      BY <3>1, <3>2 DEF TypeOK
    <3>7. QED BY <3>1, <3>2, <3>4, <3>5, <3>6 DEF TypeOK
  <2>2. CASE ~wakeup[t]
    BY <2>2 DEF TypeOK
  <2>3. QED BY <2>1, <2>2
<1>2. Exclusion' /\ TokensAccountedFor'
  BY DEF Exclusion, TokensAccountedFor
<1>3. UsersAreInLock' /\ PrioritiesSaved'
  BY DEF UsersAreInLock, PrioritiesSaved, InLock, TypeOK
<1>4. WaitersAwaitTurn'
  <2>1. wait[t] = NoLock
    BY DEF UsersAreInLock
  <2>2. QED BY <2>1 DEF WaitersAwaitTurn, TypeOK
<1>5. CurrentTaskValid' /\ SleepersStopped'
  BY DEF CurrentTaskValid, SleepersStopped, TypeOK
<1>6. QED BY <1>1, <1>2, <1>3, <1>4, <1>5

(* A task that is in a lock is not put to sleep by another one.            *)
LEMMA TaskSleepIDStep ==
  ASSUME IndInv, NEW t \in Task, NEW u \in Task, NEW timed \in BOOLEAN,
         TaskSleepID(t, u, timed)
  PROVE  IndInv'
<1> USE DEF IndInv, TaskSleepID, Running, SleepSetup, control, pendVars, taskLock, lockVars,
            prioVars, ntVars, sleepVars
<1>1. TypeOK'
  <2>1. TypeOK
    OBVIOUS
  <2> HIDE DEF IndInv
  <2>2. CASE InLock(u)
    <3>1. /\ pending_sleep' = [pending_sleep EXCEPT ![u] = TRUE]
          /\ pending_usec' = [pending_usec EXCEPT ![u] = timed]
          /\ UNCHANGED <<sleepVars, control, prioVars, ntVars, taskLock, lockVars>>
      BY <2>2
    <3> HIDE DEF TaskSleepID
    <3>2. QED BY <2>1, <3>1 DEF TypeOK
  <2>3. CASE ~InLock(u)
    <3>1. /\ timer' = [timer EXCEPT ![u] = IF timed THEN "deadline" ELSE "none"]
          /\ stopped' = [v \in Task |-> v = u \/ (stopped[v] /\ v \notin {})]
          /\ sleeping' = [sleeping EXCEPT ![u] = TRUE]
          /\ wakeup' = [wakeup EXCEPT ![u] = FALSE]
          /\ UNCHANGED <<pendVars, control, prioVars, ntVars, taskLock, lockVars>>
      BY <2>3
    <3> HIDE DEF TaskSleepID, SleepSetup
    <3>2. stopped' \in [Task -> BOOLEAN]
      BY <3>1
    <3>3. timer' \in [Task -> Timer]
      BY <2>1, <3>1 DEF TypeOK, Timer
    <3>4. QED BY <2>1, <3>1, <3>2, <3>3 DEF TypeOK
  <2>4. QED BY <2>2, <2>3
<1>2. Exclusion' /\ TokensAccountedFor'
  BY DEF Exclusion, TokensAccountedFor
<1>3. UsersAreInLock' /\ PrioritiesSaved'
  BY DEF UsersAreInLock, PrioritiesSaved, InLock
<1>4. WaitersAwaitTurn'
  BY DEF WaitersAwaitTurn, TypeOK, InLock
<1>5. CurrentTaskValid' /\ SleepersStopped'
  <2>1. CurrentTaskValid'
    BY DEF CurrentTaskValid, Valid
  <2>2. t # u /\ ~stopped[t] /\ nt' = nt /\ cur' = cur /\ cur = t
    BY DEF SleepersStopped
  <2>3. SleepersStopped'
    <3>1. CASE InLock(u)
      BY <3>1 DEF SleepersStopped
    <3>2. CASE ~InLock(u)
      <4>1. /\ stopped' = [v \in Task |-> v = u \/ (stopped[v] /\ v \notin {})]
            /\ sleeping' = [sleeping EXCEPT ![u] = TRUE]
            /\ sleeping \in [Task -> BOOLEAN]
            /\ \A v \in Task : sleeping[v] => stopped[v]
        BY <3>2 DEF TypeOK, SleepersStopped
      <4> HIDE DEF TaskSleepID, SleepSetup, IndInv
      <4>2. \A v \in Task : sleeping'[v] => v = u \/ stopped[v]
        BY <4>1
      <4>3. \A v \in Task : stopped'[v] <=> (v = u \/ stopped[v])
        BY <4>1, Zenon
      <4>4. QED BY <2>2, <4>2, <4>3 DEF SleepersStopped
    <3>3. QED BY <3>1, <3>2
  <2>4. QED BY <2>1, <2>3
<1>6. QED BY <1>1, <1>2, <1>3, <1>4, <1>5

LEMMA TaskWakeupStep ==
  ASSUME IndInv, NEW t \in Task, NEW u \in Task, NEW cancel \in BOOLEAN,
         TaskWakeup(t, u, cancel)
  PROVE  IndInv'
<1> USE DEF IndInv, TaskWakeup, Running, pendVars, taskLock, lockVars, prioVars,
            ntVars
<1>1. TypeOK'
  <2>1. TypeOK
    OBVIOUS
  <2> HIDE DEF IndInv
  <2>2. /\ timer' = [timer EXCEPT ![u] = IF @ = "deadline" THEN "none" ELSE @]
        /\ nt' \in {nt, "none"}
        /\ UNCHANGED <<cur, pc, slot, prioVars, ntVars, taskLock, lockVars>>
    OBVIOUS
  <2>3. timer' \in [Task -> Timer]
    <3> HIDE DEF TaskWakeup
    <3>1. QED BY <2>1, <2>2 DEF TypeOK, Timer
  <2>4. CASE sleeping[u]
    <3>1. /\ stopped'  = [stopped EXCEPT ![u] = FALSE]
          /\ sleeping' = [sleeping EXCEPT ![u] = FALSE]
          /\ wakeup'   = [wakeup EXCEPT ![u] = TRUE]
          /\ UNCHANGED pendVars
      BY <2>4
    <3> HIDE DEF TaskWakeup
    <3>2. QED BY <2>1, <2>2, <2>3, <3>1 DEF TypeOK
  <2>5. CASE ~sleeping[u]
    <3>1. /\ pending_sleep' = [pending_sleep EXCEPT ![u] = FALSE]
          /\ UNCHANGED <<stopped, sleeping, wakeup, pending_usec>>
      BY <2>5
    <3> HIDE DEF TaskWakeup
    <3>2. QED BY <2>1, <2>2, <2>3, <3>1 DEF TypeOK
  <2>6. QED BY <2>4, <2>5
<1>2. Exclusion' /\ TokensAccountedFor'
  BY DEF Exclusion, TokensAccountedFor
<1>3. UsersAreInLock' /\ PrioritiesSaved'
  BY DEF UsersAreInLock, PrioritiesSaved, InLock
<1>4. WaitersAwaitTurn'
  BY DEF WaitersAwaitTurn, TypeOK
<1>5. CurrentTaskValid' /\ SleepersStopped'
  <2>1. CurrentTaskValid'
    BY DEF CurrentTaskValid, Valid
  <2>2. SleepersStopped'
    <3>1. CASE sleeping[u]
      <4>1. /\ stopped'  = [stopped EXCEPT ![u] = FALSE]
            /\ sleeping' = [sleeping EXCEPT ![u] = FALSE]
            /\ UNCHANGED cur
        BY <3>1 DEF control
      <4>2. /\ stopped \in [Task -> BOOLEAN] /\ sleeping \in [Task -> BOOLEAN]
            /\ SleepersStopped /\ nt = "-"
        BY DEF TypeOK
      <4> HIDE DEF IndInv, TaskWakeup, Running, pendVars, taskLock, lockVars,
                   prioVars, ntVars
      <4>3. QED BY <4>1, <4>2 DEF SleepersStopped
    <3>2. CASE ~sleeping[u]
      BY <3>2 DEF SleepersStopped
    <3>3. QED BY <3>1, <3>2
  <2>3. QED BY <2>1, <2>2
<1>6. QED BY <1>1, <1>2, <1>3, <1>4, <1>5

(* A slot that is free is in no lock.                                      *)
LEMMA CreateTaskStep ==
  ASSUME IndInv, NEW t \in Task, NEW u \in Task, CreateTask(t, u)
  PROVE  IndInv'
<1> USE DEF IndInv, CreateTask, Running, lockVars
<1>1. BasePrio[u] \in Prio
  BY DEF Prio
<1>2. hold[u] = NoLock /\ wait[u] = NoLock
  BY DEF UsersAreInLock, InLock
<1>3. TypeOK'
  <2>1. TaskQ' \in [Prio -> TaskQueue]
    BY <1>1, QueueTypes DEF TypeOK
  <2>2. /\ pc' \in [Task -> {"run", "TaskSleep", "lock_enter"}]
        /\ timer' \in [Task -> Timer]
        /\ slot' \in [Task -> {"free", "valid", "removed"}]
    BY DEF TypeOK, Timer
  <2>3. priority' \in [Task -> Prio] /\ saved_priority' \in [Task -> Prio \cup {0}]
    BY <1>1 DEF TypeOK
  <2>4. QED
    BY <2>1, <2>2, <2>3 DEF TypeOK
<1>4. hold' = hold /\ wait' = wait
  BY <1>2 DEF TypeOK
<1>5. Exclusion' /\ TokensAccountedFor'
  <2>1. \A l \in Lock : u \notin users[l]
    BY <1>2, TaskAssumption DEF UsersAreInLock
  <2>2. \A v \in Task : v # u => token'[v] = token[v]
    BY DEF TypeOK
  <2>3. \A l \in Lock : \A v \in users[l] : v \in Task /\ token'[v] = token[v]
    BY <2>1, <2>2 DEF TypeOK
  <2>4. Exclusion'
    BY <1>4, <2>3 DEF Exclusion
  <2>5. TokensAccountedFor'
    BY <2>3 DEF TokensAccountedFor
  <2>6. QED BY <2>4, <2>5
<1>6. /\ \A v \in Task : v # u =>
           /\ slot'[v] = slot[v] /\ pc'[v] = pc[v] /\ token'[v] = token[v]
           /\ stopped'[v] = stopped[v] /\ sleeping'[v] = sleeping[v]
           /\ waiting'[v] = waiting[v]
      /\ slot'[u] = "valid" /\ pc'[u] = "run" /\ ~stopped'[u] /\ ~sleeping'[u]
      /\ UNCHANGED <<leave, users, cur, nt>>
  BY DEF TypeOK
<1>7. UsersAreInLock'
  <2>1. UsersAreInLock
    OBVIOUS
  <2> HIDE DEF IndInv, CreateTask
  <2>2. QED BY <1>2, <1>4, <1>6, <2>1 DEF UsersAreInLock, InLock
<1>8. PrioritiesSaved'
  BY <1>4 DEF PrioritiesSaved, TypeOK
<1>9. WaitersAwaitTurn'
  <2>1. WaitersAwaitTurn
    OBVIOUS
  <2> HIDE DEF IndInv, CreateTask
  <2>2. QED BY <1>2, <1>4, <1>6, <2>1 DEF WaitersAwaitTurn
<1>10. CurrentTaskValid' /\ SleepersStopped'
  BY DEF CurrentTaskValid, SleepersStopped, Valid, TypeOK
<1>11. QED BY <1>3, <1>5, <1>7, <1>8, <1>9, <1>10

LEMMA TaskRemoveStep ==
  ASSUME IndInv, ~RemovesWaiters, NEW t \in Task, NEW u \in Task, TaskRemove(t, u)
  PROVE  IndInv'
<1> USE DEF IndInv, TaskRemove, taskLock, lockVars, pendVars, ntVars
<1>1. TypeOK'
  <2>1. TaskQ' \in [Prio -> TaskQueue]
    BY QueueTypes DEF TypeOK
  <2>2. slot' \in [Task -> {"free", "valid", "removed"}]
    BY DEF TypeOK
  <2>3. QED BY <2>1, <2>2 DEF TypeOK
<1>2. Exclusion' /\ TokensAccountedFor'
  BY DEF Exclusion, TokensAccountedFor
<1>3. UsersAreInLock' /\ PrioritiesSaved'
  BY DEF UsersAreInLock, PrioritiesSaved, InLock, TypeOK
<1>4. WaitersAwaitTurn'
  BY DEF WaitersAwaitTurn, TypeOK
<1>5. CurrentTaskValid' /\ SleepersStopped'
  BY DEF CurrentTaskValid, SleepersStopped, TypeOK
<1>6. QED BY <1>1, <1>2, <1>3, <1>4, <1>5

LEMMA TaskCollectStep == IndInv /\ TaskCollect => IndInv'
<1> SUFFICES ASSUME IndInv, TaskCollect PROVE IndInv'
  OBVIOUS
<1> USE DEF IndInv, TaskCollect, Running, taskLock, lockVars, pendVars, ntVars,
            sleepVars, prioVars
<1>1. TypeOK'
  <2>1. slot' \in [Task -> {"free", "valid", "removed"}]
    BY DEF TypeOK
  <2>2. QED BY <2>1 DEF TypeOK
<1>2. Exclusion' /\ TokensAccountedFor'
  BY DEF Exclusion, TokensAccountedFor
<1>3. UsersAreInLock' /\ PrioritiesSaved'
  BY DEF UsersAreInLock, PrioritiesSaved, InLock, TypeOK
<1>4. WaitersAwaitTurn'
  BY DEF WaitersAwaitTurn, TypeOK
<1>5. CurrentTaskValid' /\ SleepersStopped'
  BY DEF CurrentTaskValid, SleepersStopped, Valid, TypeOK
<1>6. QED BY <1>1, <1>2, <1>3, <1>4, <1>5

(* The tokens of the users us of a lock are those from lo to n - 1.        *)
TokensFit(tok, us, lo, n) ==
  /\ \A u \in us : tok[u] \in lo..(n - 1)
  /\ \A k \in lo..(n - 1) : \E u \in us : tok[u] = k
  /\ \A u, v \in us : tok[u] = tok[v] => u = v

(* The swap of lock_enter() permutes the tokens of the lock's users: it    *)
(* takes none from the owner and none from a task that does not wait.      *)
LEMMA SwapFacts ==
  ASSUME NEW l \in Lock, NEW t \in Task, NEW tok \in [Task -> Nat],
         NEW us \in SUBSET Task, NEW n \in Nat,
         t \in us, leave[l] \in Nat,
         TokensFit(tok, us, leave[l], n),
         owner[l] # NoTask => owner[l] \in us /\ tok[owner[l]] = leave[l]
  PROVE  LET tk == PrioritySwap(t, l, tok, us)
         IN  /\ tk \in [Task -> Nat]
             /\ TokensFit(tk, us, leave[l], n)
             /\ owner[l] # NoTask => tk[owner[l]] = leave[l]
             /\ \A u \in Task \ us : tk[u] = tok[u]
             /\ \A u \in us \ {t} : tk[u] = tok[u] \/ tk[u] > leave[l]
<1> DEFINE lp == CHOOSE u \in us : tok[u] = LowestWaiting(l)
           swaps == tok[t] > leave[l] /\ priority[t] > priority[lp]
           tk == PrioritySwap(t, l, tok, us)
<1> USE DEF TokensFit
<1>1. CASE ~swaps
  <2>1. tk = tok
    BY <1>1 DEF PrioritySwap
  <2>2. QED BY <2>1
<1>2. CASE swaps
  <2>1. LowestWaiting(l) \in leave[l]..(n - 1)
    BY <1>2 DEF LowestWaiting
  <2>2. \E u \in us : tok[u] = LowestWaiting(l)
    BY <2>1
  <2>3. lp \in us /\ tok[lp] = LowestWaiting(l)
    BY <2>2
  <2> HIDE DEF lp
  <2>4. tk = [tok EXCEPT ![t] = tok[lp], ![lp] = tok[t]]
    BY <1>2 DEF PrioritySwap, lp
  <2>5. /\ tk \in [Task -> Nat]
        /\ tk[t] = tok[lp] \/ t = lp
        /\ tk[lp] = tok[t]
        /\ \A u \in Task : u # t /\ u # lp => tk[u] = tok[u]
    BY <2>3, <2>4
  <2>6. tk[t] = tok[lp]
    BY <2>5
  <2>7. owner[l] # NoTask => owner[l] # t /\ owner[l] # lp
    BY <1>2, <2>3 DEF LowestWaiting
  <2> HIDE DEF tk
  <2>8. \A u \in us : tk[u] \in leave[l]..(n - 1)
    BY <2>3, <2>5, <2>6
  <2>9. \A k \in leave[l]..(n - 1) : \E u \in us : tk[u] = k
    <3> TAKE k \in leave[l]..(n - 1)
    <3>1. PICK u \in us : tok[u] = k
      OBVIOUS
    <3>2. QED BY <2>3, <2>5, <2>6, <3>1
  <2>10. \A u, v \in us : tk[u] = tk[v] => u = v
    BY <2>3, <2>5, <2>6
  <2>11. \A u \in us \ {t} : tk[u] = tok[u] \/ tk[u] > leave[l]
    BY <1>2, <2>3, <2>5
  <2>12. \A u \in Task \ us : tk[u] = tok[u]
    BY <2>3, <2>5
  <2>13. owner[l] # NoTask => tk[owner[l]] = leave[l]
    BY <2>5, <2>7
  <2>14. QED BY <2>5, <2>8, <2>9, <2>10, <2>11, <2>12, <2>13 DEF tk
<1>3. QED BY <1>1, <1>2

(* What holds when t, with the token tok[t], enters the loop of            *)
(* lock_enter() as one of the users us of the lock l.                      *)
EntersLoop(t, l, tok, us) ==
  /\ tok \in [Task -> Nat] /\ us \in SUBSET Task
  /\ cur = t /\ nt = "-" /\ hold[t] = NoLock /\ wait[t] \in {NoLock, l}
  /\ slot[t] = "valid"
  /\ t \in us /\ us \ {t} = users[l] \ {t}
  /\ \A u \in Task : u # t => tok[u] = token[u]
  /\ users' = [users EXCEPT ![l] = us]
  /\ enter' \in [Lock -> Nat]
  /\ \A m \in Lock : m # l => enter'[m] = enter[m]
  /\ TokensFit(tok, us, leave[l], enter'[l])

LEMMA LockLoopStep ==
  ASSUME IndInv, NEW t \in Task, NEW l \in Lock, NEW tok, NEW us,
         EntersLoop(t, l, tok, us), LockLoop(t, l, tok, us)
  PROVE  IndInv'
<1>0. /\ tok \in [Task -> Nat] /\ us \in SUBSET Task
      /\ cur = t /\ nt = "-" /\ hold[t] = NoLock /\ wait[t] \in {NoLock, l}
      /\ slot[t] = "valid"
      /\ t \in us /\ us \ {t} = users[l] \ {t}
      /\ \A u \in Task : u # t => tok[u] = token[u]
      /\ users' = [users EXCEPT ![l] = us]
      /\ enter' \in [Lock -> Nat]
      /\ \A m \in Lock : m # l => enter'[m] = enter[m]
      /\ TokensFit(tok, us, leave[l], enter'[l])
  BY DEF EntersLoop
<1> USE <1>0
<1> USE TaskAssumption DEF IndInv
<1> DEFINE ow == owner[l]
<1>1. ow # NoTask => /\ ow \in Task /\ ow # t /\ ow \in users[l] /\ ow \in us
                     /\ hold[ow] = l /\ tok[ow] = leave[l]
  BY DEF Exclusion, TypeOK, TokensFit
<1>2. /\ token' \in [Task -> Nat]
      /\ TokensFit(token', us, leave[l], enter'[l])
      /\ ow # NoTask => token'[ow] = leave[l]
      /\ \A u \in Task \ us : token'[u] = tok[u]
      /\ \A u \in us \ {t} : token'[u] = tok[u] \/ token'[u] > leave[l]
  <2>1. leave[l] \in Nat /\ enter'[l] \in Nat
    BY DEF TypeOK
  <2>2. owner[l] # NoTask => owner[l] \in us /\ tok[owner[l]] = leave[l]
    BY <1>1
  <2> HIDE DEF IndInv
  <2>3. LET tk == PrioritySwap(t, l, tok, us)
        IN  /\ tk \in [Task -> Nat]
            /\ TokensFit(tk, us, leave[l], enter'[l])
            /\ owner[l] # NoTask => tk[owner[l]] = leave[l]
            /\ \A u \in Task \ us : tk[u] = tok[u]
            /\ \A u \in us \ {t} : tk[u] = tok[u] \/ tk[u] > leave[l]
    BY <2>1, <2>2, SwapFacts
  <2>4. token' = PrioritySwap(t, l, tok, us)
    BY DEF LockLoop
  <2>5. QED BY <2>3, <2>4
<1>3. /\ UNCHANGED <<cur, slot, sleeping, wakeup, timer, pending_sleep,
                     pending_usec, busy_wait, long_run, leave>>
      /\ \/ token'[t] > leave[l] /\ Await(t, l)
         \/ ~(token'[t] > leave[l]) /\ Acquire(t, l)
  BY DEF LockLoop, pendVars, ntVars
<1>4. \A m \in Lock : m # l => /\ users'[m] = users[m]
                               /\ \A u \in users[m] : u \in Task \ us
  BY DEF TypeOK, UsersAreInLock
<1>5. users'[l] = us /\ users' \in [Lock -> SUBSET Task]
  BY DEF TypeOK
<1>6. \A m \in Lock : m # l => \A u \in users[m] : token'[u] = token[u]
  BY <1>2, <1>4
<1>7. TokensAccountedFor'
  <2>1. leave' = leave
    BY <1>3
  <2> SUFFICES ASSUME NEW m \in Lock
               PROVE  /\ leave[m] <= enter'[m]
                      /\ \A u \in users'[m] : token'[u] \in leave[m]..(enter'[m] - 1)
                      /\ \A k \in leave[m]..(enter'[m] - 1) : \E u \in users'[m] : token'[u] = k
                      /\ \A u, v \in users'[m] : token'[u] = token'[v] => u = v
    BY <2>1 DEF TokensAccountedFor
  <2>2. CASE m = l
    <3>1. token'[t] \in leave[l]..(enter'[l] - 1)
      BY <1>2 DEF TokensFit
    <3>2. leave[l] \in Nat /\ enter'[l] \in Nat
      BY DEF TypeOK
    <3>3. leave[l] <= enter'[l]
      BY <3>1, <3>2
    <3>4. QED BY <1>2, <1>5, <2>2, <3>3 DEF TokensFit
  <2>3. CASE m # l
    BY <1>4, <1>6, <2>3 DEF TokensAccountedFor
  <2>4. QED BY <2>2, <2>3
<1>8. CASE Await(t, l) /\ token'[t] > leave[l]
  <2> USE <1>8 DEF Await
  <2>1. /\ wait' \in [Task -> Lock \cup {NoLock}] /\ waiting' \in [Task -> BOOLEAN]
        /\ stopped' \in [Task -> BOOLEAN]
        /\ pc' \in [Task -> {"run", "TaskSleep", "lock_enter"}]
    BY DEF TypeOK
  <2>2. /\ priority' \in [Task -> Prio] /\ saved_priority' \in [Task -> Prio \cup {0}]
        /\ inverted' \in [Task -> BOOLEAN] /\ TaskQ' \in [Prio -> TaskQueue]
        /\ PrioritiesSaved'
    <3>1. CASE RaisesOwner(t, l)
      <4>1. /\ ow # NoTask /\ ~inverted[ow]
            /\ saved_priority' = [saved_priority EXCEPT ![ow] = priority[ow]]
            /\ priority' = [priority EXCEPT ![ow] = priority[t]]
            /\ inverted' = [inverted EXCEPT ![ow] = TRUE]
            /\ TaskQ' = Requeue(TaskQ, ow, priority[ow], priority[t])
            /\ hold' = hold
        BY <3>1 DEF RaisesOwner
      <4>2. ow \in Task /\ priority[ow] \in Prio /\ priority[t] \in Prio
        BY <1>1, <4>1 DEF TypeOK
      <4>3. TaskQ' \in [Prio -> TaskQueue]
        BY <4>1, <4>2, QueueTypes DEF TypeOK, Requeue
      <4>4. PrioritiesSaved'
        BY SMTT(20), <1>1, <4>1, <4>2 DEF PrioritiesSaved, TypeOK
      <4>5. QED
        BY <4>1, <4>2, <4>3, <4>4 DEF TypeOK
    <3>2. CASE ~RaisesOwner(t, l)
      BY <3>2 DEF prioVars, PrioritiesSaved, TypeOK
    <3>3. QED BY <3>1, <3>2
  <2>3. TypeOK'
    BY <1>2, <1>3, <1>5, <2>1, <2>2 DEF TypeOK
  <2>4. Exclusion'
    <3>1. owner' = owner /\ hold' = hold /\ leave' = leave
      <4> HIDE DEF IndInv
      <4>1. QED BY <1>3
    <3> HIDE DEF Await
    <3>2. QED BY <1>1, <1>2, <1>3, <1>4, <1>5, <1>6, <3>1 DEF Exclusion, TypeOK
  <2>5. UsersAreInLock'
    <3>1. /\ hold' = hold /\ wait' = [wait EXCEPT ![t] = l]
          /\ pc' = [pc EXCEPT ![t] = "lock_enter"]
      <4> HIDE DEF IndInv
      <4>1. QED OBVIOUS
    <3> HIDE DEF Await
    <3>2. QED BY <1>3, <1>4, <1>5, <3>1 DEF UsersAreInLock, InLock, TypeOK
  <2>6. WaitersAwaitTurn'
    <3>1. /\ wait' = [wait EXCEPT ![t] = l] /\ waiting' = [waiting EXCEPT ![t] = TRUE]
          /\ stopped' = [stopped EXCEPT ![t] = TRUE]
          /\ token'[t] > leave[l] /\ hold' = hold
      <4> HIDE DEF IndInv
      <4>1. QED OBVIOUS
    <3>2. UNCHANGED <<slot, sleeping, leave>>
      BY <1>3
    <3> HIDE DEF Await
    <3>3. /\ wait \in [Task -> Lock \cup {NoLock}] /\ waiting \in [Task -> BOOLEAN]
          /\ stopped \in [Task -> BOOLEAN] /\ leave[l] \in Nat /\ NoLock \notin Lock
          /\ ~sleeping[t]
      BY DEF TypeOK, SleepersStopped
    <3>4. \A u \in Task : wait[u] \in Lock => u \in users[wait[u]]
      BY DEF UsersAreInLock
    <3>5. /\ wait'[t] = l /\ waiting'[t] = TRUE /\ stopped'[t] = TRUE
          /\ \A u \in Task \ {t} : /\ wait'[u] = wait[u] /\ stopped'[u] = stopped[u]
                                  /\ waiting'[u] = waiting[u]
      BY <3>1, <3>3
    <3> SUFFICES ASSUME NEW u \in Task
                 PROVE  /\ wait'[u] # NoLock =>
                             /\ ~sleeping'[u]
                             /\ stopped'[u] => waiting'[u] /\ token'[u] > leave'[wait'[u]]
                        /\ slot'[u] = "valid" /\ stopped'[u] /\ ~sleeping'[u]
                             => wait'[u] # NoLock
      BY DEF WaitersAwaitTurn
    <3>6. CASE u = t
      BY <3>1, <3>2, <3>3, <3>5, <3>6
    <3>7. CASE u # t
      <4>1. /\ wait[u] # NoLock =>
                 /\ ~sleeping[u]
                 /\ stopped[u] => waiting[u] /\ token[u] > leave[wait[u]]
            /\ slot[u] = "valid" /\ stopped[u] /\ ~sleeping[u] => wait[u] # NoLock
        BY DEF WaitersAwaitTurn
      <4>2. CASE wait[u] = NoLock
        BY <3>2, <3>5, <3>7, <4>1, <4>2
      <4>3. CASE wait[u] = l
        <5>1. token'[u] = tok[u] \/ token'[u] > leave[l]
          BY <1>2, <3>3, <3>4, <3>7, <4>3
        <5>2. QED BY <3>2, <3>5, <3>7, <4>1, <4>3, <5>1
      <4>4. CASE wait[u] # NoLock /\ wait[u] # l
        <5>1. wait[u] \in Lock /\ u \in users[wait[u]]
          BY <3>3, <3>4, <4>4
        <5>2. token'[u] = token[u]
          BY <1>6, <4>4, <5>1
        <5>3. QED BY <3>2, <3>5, <3>7, <4>1, <4>4, <5>2
      <4>5. QED BY <4>2, <4>3, <4>4
    <3>8. QED BY <3>6, <3>7
  <2>7. CurrentTaskValid' /\ SleepersStopped'
    BY <1>3 DEF CurrentTaskValid, SleepersStopped, TypeOK
  <2>8. QED BY <1>7, <2>2, <2>3, <2>4, <2>5, <2>6, <2>7
<1>9. CASE Acquire(t, l) /\ ~(token'[t] > leave[l])
  <2> USE <1>9 DEF Acquire, prioVars
  <2>1. token'[t] = leave[l]
    <3>1. token'[t] \in leave[l]..(enter'[l] - 1)
      BY <1>2 DEF TokensFit
    <3>2. leave[l] \in Nat /\ enter'[l] \in Nat
      BY DEF TypeOK
    <3>3. QED BY <3>1, <3>2, <1>9
  <2>2. ow = NoTask
    BY <1>1, <1>2, <2>1 DEF TokensFit
  <2>3. TypeOK'
    <3>1. /\ owner' \in [Lock -> Task \cup {NoTask}]
          /\ wait' \in [Task -> Lock \cup {NoLock}]
          /\ hold' \in [Task -> Lock \cup {NoLock}]
          /\ pc' \in [Task -> {"run", "TaskSleep", "lock_enter"}]
      BY DEF TypeOK
    <3>2. QED BY <1>2, <1>3, <1>5, <3>1 DEF TypeOK
  <2>4. Exclusion'
    BY SMTT(20), <1>3, <1>4, <1>5, <1>6, <2>1, <2>2 DEF Exclusion, TypeOK
  <2>5. UsersAreInLock'
    BY SMTT(20), <1>3, <1>4, <1>5 DEF UsersAreInLock, InLock, TypeOK
  <2>6. PrioritiesSaved'
    BY DEF PrioritiesSaved, TypeOK
  <2>7. WaitersAwaitTurn'
    <3>1. ~stopped[t]
      BY DEF SleepersStopped
    <3>2. QED
      BY SMTT(20), <3>1, <1>2, <1>3, <1>4, <1>5, <1>6 DEF WaitersAwaitTurn, UsersAreInLock, TypeOK
  <2>8. CurrentTaskValid' /\ SleepersStopped'
    BY <1>3 DEF CurrentTaskValid, SleepersStopped, Valid, TypeOK
  <2>9. QED BY <1>7, <2>3, <2>4, <2>5, <2>6, <2>7, <2>8
<1>10. QED BY <1>3, <1>8, <1>9

(* A task that enters takes the next token.                                *)
LEMMA EnterEntersLoop ==
  ASSUME IndInv, NEW t \in Task, NEW l \in Lock, lock_enter(t, l)
  PROVE  LET tok == [token EXCEPT ![t] = enter[l]]
             us  == users[l] \cup {t}
         IN  /\ EntersLoop(t, l, tok, us) /\ LockLoop(t, l, tok, us)
             /\ t \notin users[l] /\ (tok[t] = leave[l] => us = {t})
<1> USE TaskAssumption DEF IndInv
<1> DEFINE tok == [token EXCEPT ![t] = enter[l]]
           us  == users[l] \cup {t}
<1>1. /\ cur = t /\ nt = "-" /\ hold[t] = NoLock /\ slot[t] = "valid"
      /\ wait[t] \in {NoLock, l} /\ t \notin users[l]
  BY DEF lock_enter, Running, UsersAreInLock, CurrentTaskValid
<1>2. users' = [users EXCEPT ![l] = us] /\ LockLoop(t, l, tok, us)
  BY DEF lock_enter
<1>3. /\ enter[l] \in Nat /\ leave[l] \in Nat /\ us \in SUBSET Task
      /\ tok \in [Task -> Nat] /\ tok[t] = enter[l]
      /\ \A u \in Task : u # t => tok[u] = token[u]
      /\ enter' \in [Lock -> Nat] /\ enter'[l] = enter[l] + 1
      /\ \A m \in Lock : m # l => enter'[m] = enter[m]
  BY DEF TypeOK, lock_enter
<1>4. us \ {t} = users[l] \ {t} /\ t \in us
  OBVIOUS
<1>5. \A u \in users[l] : tok[u] = token[u]
  BY <1>1, <1>3
<1>6. TokensFit(tok, us, leave[l], enter'[l])
  <2>1. /\ leave[l] <= enter[l]
        /\ \A u \in users[l] : token[u] \in leave[l]..(enter[l] - 1)
        /\ \A k \in leave[l]..(enter[l] - 1) : \E u \in users[l] : token[u] = k
        /\ \A u, v \in users[l] : token[u] = token[v] => u = v
    BY DEF TokensAccountedFor
  <2> HIDE DEF tok
  <2>2. \A u \in us : tok[u] \in leave[l]..(enter'[l] - 1)
    BY <1>3, <1>5, <2>1
  <2>3. \A k \in leave[l]..(enter'[l] - 1) : \E u \in us : tok[u] = k
    <3> SUFFICES ASSUME NEW k \in leave[l]..(enter'[l] - 1)
                 PROVE  \E u \in us : tok[u] = k
      OBVIOUS
    <3>1. CASE k = enter[l]
      BY <1>3, <3>1
    <3>2. CASE k # enter[l]
      <4>1. k \in leave[l]..(enter[l] - 1)
        BY <1>3, <3>2
      <4>2. PICK u \in users[l] : token[u] = k
        BY <2>1, <4>1
      <4>3. QED BY <1>5, <4>2
    <3>3. QED BY <3>1, <3>2
  <2>4. \A u, v \in us : tok[u] = tok[v] => u = v
    <3>1. \A u \in users[l] : tok[u] # enter[l]
      BY <1>3, <1>5, <2>1
    <3>2. QED BY <1>3, <1>5, <2>1, <3>1
  <2>5. QED BY <2>2, <2>3, <2>4 DEF TokensFit
<1>7. EntersLoop(t, l, tok, us)
  BY <1>1, <1>2, <1>3, <1>4, <1>6 DEF EntersLoop
<1>8. tok[t] = leave[l] => us = {t}
  BY <1>3 DEF TokensAccountedFor
<1>9. QED
  BY <1>1, <1>2, <1>7, <1>8

LEMMA LockEnterStep ==
  ASSUME IndInv, NEW t \in Task, NEW l \in Lock, lock_enter(t, l)
  PROVE  IndInv'
<1> DEFINE tok == [token EXCEPT ![t] = enter[l]]
           us  == users[l] \cup {t}
<1>1. EntersLoop(t, l, tok, us) /\ LockLoop(t, l, tok, us)
  BY EnterEntersLoop
<1> HIDE DEF tok, us
<1>2. QED
  BY <1>1, LockLoopStep

(* A waiter that goes round the loop keeps the token it has.               *)
LEMMA RetryEntersLoop ==
  ASSUME IndInv, NEW t \in Task, lock_retry(t)
  PROVE  LET l == wait[t]
         IN  /\ l \in Lock /\ t \in users[l]
             /\ EntersLoop(t, l, token, users[l])
             /\ LockLoop(t, l, token, users[l])
<1> USE TaskAssumption DEF IndInv
<1> DEFINE l == wait[t]
<1>1. /\ cur = t /\ nt = "-" /\ slot[t] = "valid" /\ hold[t] = NoLock
      /\ l \in Lock /\ t \in users[l]
  BY DEF lock_retry, UsersAreInLock, CurrentTaskValid, TypeOK
<1>2. enter' = enter /\ users' = users /\ LockLoop(t, l, token, users[l])
  BY DEF lock_retry
<1>3. /\ users[l] \in SUBSET Task /\ token \in [Task -> Nat]
      /\ enter' \in [Lock -> Nat]
      /\ users' = [users EXCEPT ![l] = users[l]]
      /\ \A m \in Lock : m # l => enter'[m] = enter[m]
  BY <1>1, <1>2 DEF TypeOK
<1>4. TokensFit(token, users[l], leave[l], enter'[l])
  BY <1>1, <1>2 DEF TokensAccountedFor, TokensFit
<1>5. wait[t] \in {NoLock, l} /\ users[l] \ {t} = users[l] \ {t}
  OBVIOUS
<1>6. \A u \in Task : u # t => token[u] = token[u]
  OBVIOUS
<1>7. EntersLoop(t, l, token, users[l])
  BY <1>1, <1>2, <1>3, <1>4, <1>5, <1>6 DEF EntersLoop
<1>8. QED
  BY <1>1, <1>2, <1>7

LEMMA LockRetryStep ==
  ASSUME IndInv, NEW t \in Task, lock_retry(t)
  PROVE  IndInv'
<1> DEFINE l == wait[t]
<1>1. /\ l \in Lock /\ EntersLoop(t, l, token, users[l])
      /\ LockLoop(t, l, token, users[l])
  BY RetryEntersLoop
<1> HIDE DEF l
<1>2. QED
  BY <1>1, LockLoopStep

(* The owner's token is the lowest; without it the tokens that are left    *)
(* start one higher, or nobody is left.                                    *)
LEMMA LockLeaveStep ==
  ASSUME IndInv, NEW t \in Task, NEW l \in Lock, lock_leave(t, l)
  PROVE  IndInv'
<1> USE TaskAssumption DEF IndInv
<1> DEFINE woken == WaitersToWake(t, l)
<1>1. /\ cur = t /\ nt = "-" /\ pc[t] = "run" /\ hold[t] = l
      /\ hold'    = [hold EXCEPT ![t] = NoLock]
      /\ token'   = [token EXCEPT ![t] = 0]
      /\ users'   = [users EXCEPT ![l] = @ \ {t}]
      /\ owner'   = [owner EXCEPT ![l] = NoTask]
      /\ waiting' = [u \in Task |-> waiting[u] /\ u \notin woken]
      /\ UNCHANGED <<cur, slot, pending_usec, busy_wait, long_run, wait>>
      /\ RestorePriority(t) /\ AfterLeave(t, woken)
  BY DEF lock_leave, Running, ntVars
<1>2. \/ /\ leave[l] + 1 = enter[l]
         /\ enter' = [enter EXCEPT ![l] = 0]
         /\ leave' = [leave EXCEPT ![l] = 0]
      \/ /\ leave[l] + 1 # enter[l]
         /\ enter' = enter
         /\ leave' = [leave EXCEPT ![l] = leave[l] + 1]
  BY DEF lock_leave
<1>3. owner[l] = t /\ token[t] = leave[l] /\ t \in users[l] /\ wait[t] = NoLock
  BY <1>1 DEF Exclusion, UsersAreInLock
<1>4. \A m \in Lock : m # l => /\ users'[m] = users[m] /\ enter'[m] = enter[m]
                               /\ leave'[m] = leave[m] /\ owner'[m] = owner[m]
                               /\ t \notin users[m]
  BY <1>1, <1>2, <1>3 DEF TypeOK, UsersAreInLock
<1>5. users'[l] = users[l] \ {t} /\ owner'[l] = NoTask
  BY <1>1 DEF TypeOK
<1>6. /\ token' \in [Task -> Nat] /\ \A u \in Task : u # t => token'[u] = token[u]
      /\ hold'[t] = NoLock /\ \A u \in Task : u # t => hold'[u] = hold[u]
  BY <1>1 DEF TypeOK
<1>7. TokensAccountedFor'
  <2>1. /\ leave[l] \in Nat /\ enter[l] \in Nat /\ leave[l] <= enter[l]
        /\ \A u \in users[l] : u \in Task /\ token[u] \in leave[l]..(enter[l] - 1)
        /\ \A k \in leave[l]..(enter[l] - 1) : \E u \in users[l] : token[u] = k
        /\ \A u, v \in users[l] : token[u] = token[v] => u = v
    BY DEF TokensAccountedFor, TypeOK
  <2>2. \A u \in users[l] \ {t} :
           token'[u] = token[u] /\ token[u] \in (leave[l] + 1)..(enter[l] - 1)
    BY <1>3, <1>6, <2>1
  <2>3. \A k \in (leave[l] + 1)..(enter[l] - 1) :
           \E u \in users[l] \ {t} : token'[u] = k
    BY <1>3, <2>1, <2>2
  <2>4. leave[l] + 1 <= enter[l]
    BY <1>3, <2>1
  <2> DEFINE Fits == leave'[l] <= enter'[l] /\ TokensFit(token', users'[l], leave'[l], enter'[l])
  <2>5. ASSUME leave[l] + 1 = enter[l] PROVE Fits
    <3>1. users'[l] = {}
      BY <1>5, <2>1, <2>2, <2>5
    <3>2. leave'[l] = 0 /\ enter'[l] = 0
      BY <1>2, <2>5 DEF TypeOK
    <3>3. QED BY <3>1, <3>2 DEF TokensFit
  <2>6. ASSUME leave[l] + 1 # enter[l] PROVE Fits
    <3>1. leave'[l] = leave[l] + 1 /\ enter'[l] = enter[l]
      BY <1>2, <2>6 DEF TypeOK
    <3>2. QED
      BY <1>5, <2>1, <2>2, <2>3, <2>4, <3>1 DEF TokensFit
  <2>7. leave'[l] <= enter'[l] /\ TokensFit(token', users'[l], leave'[l], enter'[l])
    BY <2>5, <2>6
  <2>8. \A m \in Lock : m # l => \A u \in users[m] : token'[u] = token[u]
    BY <1>4, <1>6 DEF TypeOK
  <2>9. \A m \in Lock : m # l =>
           leave'[m] <= enter'[m] /\ TokensFit(token', users'[m], leave'[m], enter'[m])
    BY <1>4, <2>8 DEF TokensAccountedFor, TokensFit
  <2>10. \A m \in Lock :
           leave'[m] <= enter'[m] /\ TokensFit(token', users'[m], leave'[m], enter'[m])
    BY <2>7, <2>9
  <2>11. QED BY <2>10 DEF TokensAccountedFor, TokensFit
<1>8. Exclusion'
  <2>1. \A u \in Task : hold'[u] # l
    BY <1>1, <1>3, <1>6 DEF Exclusion
  <2>2. \A m \in Lock : m # l /\ owner[m] # NoTask => owner[m] # t
    BY <1>4 DEF Exclusion
  <2>3. QED
    BY <1>4, <1>5, <1>6, <2>1, <2>2 DEF Exclusion, TypeOK
<1>9. /\ priority' \in [Task -> Prio] /\ saved_priority' \in [Task -> Prio \cup {0}]
      /\ inverted' \in [Task -> BOOLEAN] /\ TaskQ' \in [Prio -> TaskQueue]
      /\ PrioritiesSaved'
  <2>1. CASE inverted[t]
    <3>1. saved_priority[t] = BasePrio[t] /\ BasePrio[t] \in Prio
      BY <2>1 DEF PrioritiesSaved, Prio
    <3>2. /\ priority' = [priority EXCEPT ![t] = saved_priority[t]]
          /\ saved_priority' = [saved_priority EXCEPT ![t] = 0]
          /\ inverted' = [inverted EXCEPT ![t] = FALSE]
          /\ TaskQ' = Requeue(TaskQ, t, priority[t], saved_priority[t])
      BY <1>1, <2>1 DEF RestorePriority
    <3>3. TaskQ' \in [Prio -> TaskQueue]
      BY <3>1, <3>2, QueueTypes DEF TypeOK, Requeue
    <3>4. PrioritiesSaved'
      BY <1>6, <3>1, <3>2 DEF PrioritiesSaved, TypeOK
    <3>5. QED BY <3>1, <3>2, <3>3, <3>4 DEF TypeOK
  <2>2. CASE ~inverted[t]
    <3>1. UNCHANGED prioVars
      BY <1>1, <2>2 DEF RestorePriority
    <3>2. QED BY <1>6, <2>2, <3>1 DEF prioVars, PrioritiesSaved, TypeOK
  <2>3. QED BY <2>1, <2>2
<1>10. \A u \in Task : u \in woken <=> u \in users[l] \ {t} /\ waiting[u]
  BY DEF WaitersToWake
<1>11. /\ stopped' \in [Task -> BOOLEAN] /\ sleeping' \in [Task -> BOOLEAN]
       /\ \A u \in Task \ {t} : /\ sleeping'[u] = sleeping[u]
                                /\ stopped'[u] <=> stopped[u] /\ u \notin woken
       /\ stopped'[t] => sleeping'[t]
       /\ sleeping'[t] => stopped'[t]
       /\ stopped'[t] => nt' # "-"
       /\ wakeup' \in [Task -> BOOLEAN] /\ timer' \in [Task -> Timer]
       /\ pending_sleep' \in [Task -> BOOLEAN]
       /\ pc' \in [Task -> {"run", "TaskSleep", "lock_enter"}]
       /\ \A u \in Task : pc'[u] = "lock_enter" <=> pc[u] = "lock_enter"
       /\ nt' \in {"-", "none"}
  <2> USE <1>1
  <2>1. CASE pending_sleep[t]
    <3> USE <2>1 DEF AfterLeave, SleepSetup
    <3>1. /\ stopped' = [u \in Task |-> u = t \/ (stopped[u] /\ u \notin woken)]
          /\ sleeping' = [sleeping EXCEPT ![t] = TRUE]
          /\ nt' = "none"
      OBVIOUS
    <3>2. \A u \in Task \ {t} : stopped'[u] <=> stopped[u] /\ u \notin woken
      BY <3>1, Zenon
    <3>3. stopped'[t] /\ stopped' \in [Task -> BOOLEAN]
      BY <3>1, Zenon
    <3>4. /\ sleeping'[t] /\ sleeping' \in [Task -> BOOLEAN]
          /\ \A u \in Task \ {t} : sleeping'[u] = sleeping[u]
      BY SMTT(20), <3>1 DEF TypeOK
    <3>5. /\ wakeup' \in [Task -> BOOLEAN] /\ timer' \in [Task -> Timer]
          /\ pending_sleep' \in [Task -> BOOLEAN]
      <4>1. (IF pending_usec[t] THEN "deadline" ELSE "none") \in Timer
        BY DEF Timer
      <4>2. timer' \in [Task -> Timer]
        BY <4>1 DEF TypeOK
      <4>3. wakeup' = [wakeup EXCEPT ![t] = FALSE] /\ wakeup \in [Task -> BOOLEAN]
        BY DEF TypeOK
      <4>4. /\ pending_sleep' = [pending_sleep EXCEPT ![t] = FALSE]
            /\ pending_sleep \in [Task -> BOOLEAN]
        BY DEF TypeOK
      <4> HIDE DEF AfterLeave, SleepSetup, IndInv
      <4>5. wakeup' \in [Task -> BOOLEAN] /\ pending_sleep' \in [Task -> BOOLEAN]
        BY <4>3, <4>4
      <4>6. QED BY <4>2, <4>5
    <3>6. /\ pc' \in [Task -> {"run", "TaskSleep", "lock_enter"}]
          /\ \A u \in Task : pc'[u] = "lock_enter" <=> pc[u] = "lock_enter"
      <4>1. pc' = [pc EXCEPT ![t] = "TaskSleep"]
        OBVIOUS
      <4>2. pc \in [Task -> {"run", "TaskSleep", "lock_enter"}] /\ pc[t] # "lock_enter"
        BY DEF TypeOK
      <4> HIDE DEF AfterLeave, SleepSetup, IndInv
      <4>3. QED BY <4>1, <4>2
    <3> HIDE DEF AfterLeave, SleepSetup, IndInv, woken
    <3>7. stopped'[t] => nt' # "-"
      BY <3>1
    <3>8. nt' \in {"-", "none"}
      BY <3>1
    <3>9. (sleeping'[t] => stopped'[t]) /\ (stopped'[t] => sleeping'[t])
      BY <3>3, <3>4
    <3>10. \A u \in Task \ {t} : /\ sleeping'[u] = sleeping[u]
                                /\ stopped'[u] <=> stopped[u] /\ u \notin woken
      BY <3>2, <3>4, Zenon
    <3> HIDE DEF TypeOK
    <3>11. QED
      BY <3>3, <3>4, <3>5, <3>6, <3>7, <3>8, <3>9, <3>10, Zenon
  <2>2. CASE ~pending_sleep[t]
    <3>1. ~stopped[t] /\ ~sleeping[t]
      BY DEF SleepersStopped
    <3> USE <2>2 DEF AfterLeave
    <3>2. /\ stopped' = [u \in Task |-> stopped[u] /\ u \notin woken]
          /\ UNCHANGED <<pc, pending_sleep, sleeping, wakeup, timer>>
          /\ nt' \in {"-", "none"}
      OBVIOUS
    <3>3. /\ \A u \in Task : stopped'[u] <=> stopped[u] /\ u \notin woken
          /\ stopped' \in [Task -> BOOLEAN]
      BY <3>2, Zenon
    <3> HIDE DEF AfterLeave, woken
    <3>4. QED BY <3>1, <3>2, <3>3 DEF TypeOK
  <2>3. QED BY <2>1, <2>2
<1> HIDE DEF woken
<1>12. TypeOK'
  <2>1. /\ leave' \in [Lock -> Nat] /\ enter' \in [Lock -> Nat]
        /\ owner' \in [Lock -> Task \cup {NoTask}]
        /\ users' \in [Lock -> SUBSET Task]
    <3>1. /\ owner' \in [Lock -> Task \cup {NoTask}]
          /\ users' \in [Lock -> SUBSET Task]
      BY <1>1 DEF TypeOK
    <3>2. leave' \in [Lock -> Nat] /\ enter' \in [Lock -> Nat]
      BY <1>2 DEF TypeOK
    <3>3. QED BY <3>1, <3>2
  <2>2. hold' \in [Task -> Lock \cup {NoLock}] /\ waiting' \in [Task -> BOOLEAN]
    BY <1>1 DEF TypeOK
  <2>3. QED BY <1>1, <1>6, <1>9, <1>11, <2>1, <2>2 DEF TypeOK
<1>13. UsersAreInLock'
  BY <1>1, <1>3, <1>4, <1>5, <1>6, <1>11 DEF UsersAreInLock, InLock, TypeOK
<1>14. WaitersAwaitTurn'
  <2> SUFFICES ASSUME NEW u \in Task
               PROVE  /\ wait[u] # NoLock =>
                           /\ ~sleeping'[u]
                           /\ stopped'[u] => waiting'[u] /\ token'[u] > leave'[wait[u]]
                      /\ slot[u] = "valid" /\ stopped'[u] /\ ~sleeping'[u]
                           => wait[u] # NoLock
    BY <1>1 DEF WaitersAwaitTurn
  <2>1. CASE u = t
    BY <1>3, <1>11, <2>1
  <2>2. CASE u # t
    <3>1. CASE wait[u] = l
      <4>1. u \in users[l]
        BY <3>1 DEF UsersAreInLock
      <4>2. ~stopped'[u]
        BY <1>10, <1>11, <2>2, <3>1, <4>1 DEF WaitersAwaitTurn
      <4>3. QED BY <1>11, <2>2, <3>1, <4>2 DEF WaitersAwaitTurn
    <3>2. CASE wait[u] # l
      <4>1. u \notin woken
        BY <1>1, <1>3, <1>10, <2>2, <3>2 DEF UsersAreInLock, Exclusion
      <4>2. waiting'[u] <=> waiting[u]
        BY <1>1, <4>1
      <4>3. wait[u] # NoLock => wait[u] \in Lock
        BY DEF TypeOK
      <4>4. QED
        BY <1>4, <1>6, <1>11, <2>2, <3>2, <4>1, <4>2, <4>3 DEF WaitersAwaitTurn
    <3>3. QED BY <3>1, <3>2
  <2>3. QED BY <2>1, <2>2
<1>15. CurrentTaskValid' /\ SleepersStopped'
  <2>1. CurrentTaskValid'
    BY <1>1, <1>11 DEF CurrentTaskValid
  <2>2. \A u \in Task : u \in woken => ~sleeping[u] /\ u # t
    BY <1>1, <1>10, <1>3 DEF UsersAreInLock, WaitersAwaitTurn, Exclusion
  <2>3. \A u \in Task \ {t} : sleeping'[u] => stopped'[u]
    BY <1>11, <2>2 DEF SleepersStopped
  <2>4. cur' = t
    BY <1>1
  <2>5. SleepersStopped'
    BY <1>11, <2>3, <2>4 DEF SleepersStopped
  <2>6. QED BY <2>1, <2>5
<1>16. QED BY <1>7, <1>8, <1>9, <1>12, <1>13, <1>14, <1>15

LEMMA NextIndInv == ~RemovesWaiters /\ IndInv /\ [Next]_vars => IndInv'
<1> SUFFICES ASSUME ~RemovesWaiters, IndInv, [Next]_vars
             PROVE  IndInv'
  OBVIOUS
<1> USE TaskAssumption
<1>1. CASE UNCHANGED vars
  <2> USE <1>1 DEF vars, control, sleepVars, pendVars, prioVars, ntVars,
                   taskLock, lockVars
  <2>1. TypeOK'
    BY DEF IndInv, TypeOK
  <2>2. Exclusion' /\ TokensAccountedFor'
    BY DEF IndInv, Exclusion, TokensAccountedFor
  <2>3. UsersAreInLock' /\ PrioritiesSaved' /\ WaitersAwaitTurn'
    BY DEF IndInv, UsersAreInLock, PrioritiesSaved, WaitersAwaitTurn, InLock
  <2>4. CurrentTaskValid' /\ SleepersStopped'
    BY DEF IndInv, CurrentTaskValid, SleepersStopped, Valid
  <2>5. QED BY <2>1, <2>2, <2>3, <2>4 DEF IndInv
<1>2. CASE Schedule
  <2>1. PICK t \in Task, expired \in SUBSET {u \in Task : timer[u] # "none"},
             intr \in SUBSET {Itask}, longOk \in BOOLEAN :
                NextTask(t, expired, intr, longOk)
    BY <1>2 DEF Schedule
  <2>2. expired \in SUBSET Task
    OBVIOUS
  <2>3. QED BY <2>1, <2>2, ScheduleStep
<1>3. CASE TaskCollect
  BY <1>3, TaskCollectStep
<1>4. ASSUME NEW t \in Task, NEW param \in {"none", "busy", "long"}, Yield(t, param)
      PROVE  IndInv'
  BY <1>4, YieldStep
<1>5. ASSUME NEW t \in Task, NEW kind \in SleepKind, TaskSleep(t, kind)
      PROVE  IndInv'
  BY <1>5, TaskSleepStep
<1>6. ASSUME NEW t \in Task, SleepLoop(t) \/ lock_retry(t)
      PROVE  IndInv'
  BY <1>6, SleepLoopStep, LockRetryStep
<1>7. ASSUME NEW t \in Task, NEW l \in Lock, lock_enter(t, l) \/ lock_leave(t, l)
      PROVE  IndInv'
  BY <1>7, LockEnterStep, LockLeaveStep
<1>8. ASSUME NEW t \in Task, NEW u \in Task, NEW b \in BOOLEAN,
             TaskSleepID(t, u, b) \/ TaskWakeup(t, u, b)
      PROVE  IndInv'
  BY <1>8, TaskSleepIDStep, TaskWakeupStep
<1>9. ASSUME NEW t \in Task, NEW u \in Task, CreateTask(t, u) \/ TaskRemove(t, u)
      PROVE  IndInv'
  BY <1>9, CreateTaskStep, TaskRemoveStep
<1>10. QED
  BY <1>1, <1>2, <1>3, <1>4, <1>5, <1>6, <1>7, <1>8, <1>9 DEF Next
---------------------------------------------------------------------------
(* What the server relies on: nobody removes a task that waits for a lock  *)
(* (TaskRemove panics only on a task that holds one).                      *)
Careful == ~RemovesWaiters

(* The invariant of the scheduler and of its locks holds in every state,   *)
(* whatever tasks, priorities and locks there are.                         *)
THEOREM Invariance == Careful => (Spec => []IndInv)
<1> SUFFICES ASSUME Careful PROVE Spec => []IndInv
  OBVIOUS
<1>1. Init => IndInv
  BY InitIndInv
<1>2. IndInv /\ [Next]_vars => IndInv'
  BY NextIndInv DEF Careful
<1>3. QED BY <1>1, <1>2, PTL DEF Spec

(* Type correctness, with the lock's counters, tokens and saved priorities *)
(* in their ranges: TypeOK alone is not inductive, lock_leave() restores a *)
(* saved priority that PrioritiesSaved says is one of the queues'.         *)
THEOREM TypeCorrect == Careful => (Spec => []TypeOK)
<1>1. IndInv => TypeOK
  BY DEF IndInv
<1>2. QED BY <1>1, Invariance, PTL

(* lock_enter() and lock_leave() exclude: a lock has one owner, it is the  *)
(* one task that holds it and its token is the one being served.           *)
THEOREM LocksExclude == Careful => (Spec => []Exclusion)
<1>1. IndInv => Exclusion
  BY DEF IndInv
<1>2. QED BY <1>1, Invariance, PTL

(* Priority swaps neither lose nor double a token.                         *)
THEOREM TokensKept == Careful => (Spec => []TokensAccountedFor)
<1>1. IndInv => TokensAccountedFor
  BY DEF IndInv
<1>2. QED BY <1>1, Invariance, PTL

(* No hung lock: the user whose turn it is owns the lock or is runnable.   *)
THEOREM LocksNeverHang == Careful => (Spec => []NoHungLock)
<1>1. IndInv => NoHungLock
  <2> SUFFICES ASSUME IndInv, NEW l \in Lock, users[l] # {}
               PROVE  \E u \in users[l] :
                         /\ token[u] = leave[l] /\ slot[u] = "valid"
                         /\ owner[l] = u \/ ~stopped[u]
    BY DEF NoHungLock
  <2> USE TaskAssumption DEF IndInv
  <2>1. leave[l] \in Nat /\ enter[l] \in Nat /\ users[l] \subseteq Task
    BY DEF TypeOK
  <2>2. leave[l] \in leave[l]..(enter[l] - 1)
    BY <2>1 DEF TokensAccountedFor
  <2>3. PICK u \in users[l] : token[u] = leave[l]
    BY <2>2 DEF TokensAccountedFor
  <2>4. u \in Task /\ slot[u] = "valid"
    BY <2>1 DEF UsersAreInLock, InLock
  <2>5. CASE hold[u] = l
    BY <2>3, <2>4, <2>5 DEF Exclusion
  <2>6. CASE hold[u] # l
    <3>1. wait[u] = l
      BY <2>4, <2>6 DEF UsersAreInLock
    <3>2. ~stopped[u]
      BY <2>1, <2>3, <2>4, <3>1 DEF WaitersAwaitTurn
    <3>3. QED BY <2>3, <2>4, <3>2
  <2>7. QED BY <2>5, <2>6
<1>2. QED BY <1>1, Invariance, PTL

(* A task that cannot run is asleep or waits for a lock behind somebody    *)
(* who will wake it.                                                       *)
THEOREM StoppedTasksWoken == Careful => (Spec => []StoppedTaskHasWaker)
<1>1. IndInv => StoppedTaskHasWaker
  <2> SUFFICES ASSUME IndInv, NEW t \in Task, slot[t] = "valid"
               PROVE  /\ stopped[t] /\ ~sleeping[t] =>
                           /\ wait[t] # NoLock /\ waiting[t]
                           /\ \E u \in users[wait[t]] : token[u] < token[t]
                      /\ wait[t] # NoLock => ~sleeping[t] /\ t \in users[wait[t]]
    BY DEF StoppedTaskHasWaker, Valid
  <2> USE TaskAssumption DEF IndInv
  <2>1. ASSUME wait[t] # NoLock
        PROVE  ~sleeping[t] /\ wait[t] \in Lock /\ t \in users[wait[t]]
    BY <2>1 DEF WaitersAwaitTurn, UsersAreInLock, TypeOK
  <2>2. ASSUME stopped[t], ~sleeping[t]
        PROVE  /\ wait[t] # NoLock /\ waiting[t]
               /\ \E u \in users[wait[t]] : token[u] < token[t]
    <3> DEFINE l == wait[t]
    <3>1. l # NoLock /\ waiting[t] /\ token[t] > leave[l]
      BY <2>2 DEF WaitersAwaitTurn
    <3>2. /\ l \in Lock /\ t \in users[l] /\ leave[l] \in Nat /\ enter[l] \in Nat
          /\ token[t] \in Nat
      BY <2>1, <3>1 DEF TypeOK
    <3>3. leave[l] \in leave[l]..(enter[l] - 1)
      BY <3>2 DEF TokensAccountedFor
    <3>4. PICK u \in users[l] : token[u] = leave[l]
      BY <3>2, <3>3 DEF TokensAccountedFor
    <3>5. QED BY <3>1, <3>2, <3>4
  <2>3. QED BY <2>1, <2>2
<1>2. QED BY <1>1, Invariance, PTL

(* The priority a waiter lent is given back with the lock.                 *)
THEOREM PrioritiesReturned == Careful => (Spec => []PriorityGivenBack)
<1>1. IndInv => PriorityGivenBack
  BY DEF IndInv, PrioritiesSaved, PriorityGivenBack, Valid
<1>2. QED BY <1>1, Invariance, PTL
=============================================================================
