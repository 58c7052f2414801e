---------------------------- MODULE Locks_proofs ----------------------------
(***************************************************************************)
(* The coroutines' locks are priority locks, for every set of tasks,       *)
(* priorities and locks: Coroutines implements PriorityLock.  Nothing is   *)
(* said here of the scheduler's queues; what the locks need of it is that  *)
(* it resumes no waiter while a more urgent one can run.                   *)
(***************************************************************************)
EXTENDS Coroutines_proofs

(* A waiter that gave up a free lock did so for a user of no lower         *)
(* priority, whose turn it is.                                             *)
StoppedOutranked ==
  \A l \in Lock : owner[l] = NoTask =>
    \A u, v \in users[l] :
       stopped[u] /\ token[v] = leave[l] => BasePrio[u] <= BasePrio[v]

(* The running task is at least as urgent as the waiters that could run.   *)
RunnerOutranks ==
  nt = "-" => \A u \in Task :
    wait[u] # NoLock /\ ~stopped[u] => BasePrio[u] <= priority[cur]

(* A raised owner has the priority of one of the lock's waiters, which     *)
(* lock_leave() will wake.                                                 *)
RaisedByWaiter ==
  \A t \in Task : inverted[t] => \E u \in Task \ {t} :
    /\ wait[u] = hold[t] /\ waiting[u]
    /\ BasePrio[u] = priority[t] /\ BasePrio[u] > BasePrio[t]

(* The scheduler passes over no waiter: those that yielded for a long run  *)
(* were in no loop of lock_enter().                                        *)
LongRunnersOutside ==
  /\ \A t \in Task : long_run[t] => wait[t] = NoLock
  /\ nt = "long" => wait[cur] = NoLock
  /\ nt = "-" => ~long_run[cur]

UrgencyInv == /\ StoppedOutranked /\ RunnerOutranks
              /\ RaisedByWaiter /\ LongRunnersOutside
---------------------------------------------------------------------------
LockSteps == \A l \in Lock : [Abstract(l)!Next]_(Abstract(l)!lock)

(* A step that takes no lock and leaves none.                              *)
LEMMA QuietLocks ==
  ASSUME UNCHANGED <<owner, users>>
  PROVE  LockSteps
  BY DEF LockSteps, Abstract!lock

LEMMA InitLocks == Init => \A l \in Lock : Abstract(l)!Init
  BY DEF Init, Abstract!Init
(* What the invariant of Coroutines_proofs says of priorities.             *)
LEMMA WaiterFacts ==
  ASSUME IndInv
  PROVE  /\ \A u \in Task : BasePrio[u] \in Nat /\ priority[u] \in Nat
         /\ \A u \in Task : hold[u] = NoLock => /\ priority[u] = BasePrio[u]
                                                /\ ~inverted[u]
         /\ \A u \in Task : inverted[u] => /\ hold[u] \in Lock
                                           /\ owner[hold[u]] = u
                                           /\ saved_priority[u] = BasePrio[u]
         /\ \A u \in Task : wait[u] # NoLock => hold[u] = NoLock /\ u \in Valid
         /\ \A l \in Lock : \A u \in users[l] :
              u \in Task /\ (wait[u] = l \/ u = owner[l])
<1> USE TaskAssumption DEF IndInv
<1>1. \A u \in Task : BasePrio[u] \in Nat /\ priority[u] \in Nat
  BY DEF TypeOK, Prio
<1>2. \A u \in Task : hold[u] = NoLock => priority[u] = BasePrio[u] /\ ~inverted[u]
  BY DEF PrioritiesSaved
<1>3. \A u \in Task : inverted[u] => /\ hold[u] \in Lock
                                     /\ owner[hold[u]] = u
                                     /\ saved_priority[u] = BasePrio[u]
  BY DEF PrioritiesSaved, TypeOK, Exclusion
<1>4. \A u \in Task : wait[u] # NoLock => hold[u] = NoLock /\ u \in Valid
  BY DEF UsersAreInLock, InLock, Valid
<1>5. \A l \in Lock : \A u \in users[l] : u \in Task /\ (wait[u] = l \/ u = owner[l])
  BY DEF UsersAreInLock, Exclusion, TypeOK
<1>6. QED BY <1>1, <1>2, <1>3, <1>4, <1>5

(* At first no task waits for a lock or is raised.                         *)
LEMMA InitUrgency == Init => UrgencyInv
  BY TaskAssumption DEF Init, UrgencyInv, StoppedOutranked, RunnerOutranks,
     RaisedByWaiter, LongRunnersOutside

(* The scheduler resumes a task that no waiter able to run outranks.       *)
LEMMA ScheduleUrgency ==
  ASSUME IndInv, UrgencyInv,
         NEW t \in Task, NEW expired \in SUBSET Task,
         NEW intr \in SUBSET {Itask}, NEW longOk \in BOOLEAN,
         NextTask(t, expired, intr, longOk)
  PROVE  UrgencyInv'
<1> DEFINE up == expired \cup intr \cup HelperWoken
           long == [long_run EXCEPT ![cur] = @ \/ nt = "long"]
           runnable == {u \in Valid : ~stopped[u]} \cup up
           eligible == {u \in runnable : long[u] => longOk}
<1>1. /\ \A u \in eligible : priority[u] <= priority[t]
      /\ stopped' = [u \in Task |-> stopped[u] /\ u \notin up]
      /\ long_run' = [long EXCEPT ![t] = FALSE]
      /\ cur' = t /\ nt' = "-"
      /\ UNCHANGED <<priority, inverted, token, wait, hold, waiting, leave, owner,
                     users>>
  BY DEF NextTask, RunnableYes, taskLock, lockVars
<1>2. long_run \in [Task -> BOOLEAN] /\ cur \in Task
  BY DEF IndInv, TypeOK
<1>3. long \in [Task -> BOOLEAN]
  BY <1>2
<1>4. \A u \in Task : wait[u] # NoLock => ~long[u]
  BY <1>2 DEF UrgencyInv, LongRunnersOutside
<1>5. ASSUME NEW u \in Task, wait[u] # NoLock, ~stopped'[u]
      PROVE  BasePrio[u] <= priority[t]
  <2>1. u \in Valid /\ priority[u] = BasePrio[u]
    BY <1>5, WaiterFacts
  <2>2. ~stopped[u] \/ u \in up
    BY <1>1, <1>5
  <2>3. u \in eligible
    BY <1>4, <1>5, <2>1, <2>2
  <2>4. QED BY <1>1, <2>1, <2>3
<1> HIDE DEF up, long, runnable, eligible
<1>6. StoppedOutranked'
  BY <1>1 DEF UrgencyInv, StoppedOutranked, IndInv, TypeOK
<1>7. RunnerOutranks'
  BY <1>1, <1>5 DEF RunnerOutranks
<1>8. RaisedByWaiter'
  BY <1>1 DEF UrgencyInv, RaisedByWaiter
<1>9. LongRunnersOutside'
  BY <1>1, <1>3, <1>4 DEF LongRunnersOutside
<1>10. QED BY <1>6, <1>7, <1>8, <1>9 DEF UrgencyInv

(* The steps that neither take a lock nor leave one, and make no waiter    *)
(* able to run.                                                            *)
Outside ==
  /\ UNCHANGED <<owner, users, leave, token, priority, inverted, hold, wait,
                 waiting, cur, long_run>>
  /\ \A u \in Task : wait[u] # NoLock => (stopped'[u] <=> stopped[u])
  /\ \/ nt' \in {nt, "none", "busy"}
     \/ nt' = "long" /\ wait[cur] = NoLock

(* A step outside of the locks keeps the urgency.                          *)
LEMMA OutsideUrgency ==
  ASSUME IndInv, UrgencyInv, Outside
  PROVE  UrgencyInv'
<1> USE DEF Outside
<1>1. StoppedOutranked'
  BY WaiterFacts, TaskAssumption DEF UrgencyInv, StoppedOutranked, IndInv, TypeOK
<1>2. RunnerOutranks'
  BY DEF UrgencyInv, RunnerOutranks
<1>3. RaisedByWaiter'
  BY DEF UrgencyInv, RaisedByWaiter
<1>4. LongRunnersOutside'
  BY DEF UrgencyInv, LongRunnersOutside, IndInv, TypeOK
<1>5. QED BY <1>1, <1>2, <1>3, <1>4 DEF UrgencyInv

(* A task in its own code is the one that runs, and it waits for no lock.  *)
LEMMA RunningOutside ==
  ASSUME IndInv, NEW t \in Task, Running(t)
  PROVE  t = cur /\ nt = "-" /\ wait[t] = NoLock /\ ~stopped[t]
  BY DEF IndInv, Running, UsersAreInLock, SleepersStopped

(* Sleeping, waking up and yielding make no waiter runnable and stop none. *)
LEMMA SleeperUrgency ==
  ASSUME IndInv, UrgencyInv, NEW t \in Task,
         \/ \E param \in {"none", "busy", "long"} : Yield(t, param)
         \/ \E kind \in SleepKind : TaskSleep(t, kind)
         \/ SleepLoop(t)
         \/ \E u \in Task : \/ \E timed \in BOOLEAN : TaskSleepID(t, u, timed)
                            \/ \E cancel \in BOOLEAN : TaskWakeup(t, u, cancel)
         \/ TaskCollect
  PROVE  UrgencyInv'
<1> USE DEF prioVars, ntVars, taskLock, lockVars, sleepVars, pendVars, control
<1>1. ASSUME NEW param \in {"none", "busy", "long"}, Yield(t, param)
      PROVE  UrgencyInv'
  <2>1. t = cur /\ wait[t] = NoLock
    BY <1>1, RunningOutside DEF Yield
  <2>2. QED BY <1>1, <2>1, OutsideUrgency DEF Yield, Outside
<1>2. ASSUME NEW kind \in SleepKind, TaskSleep(t, kind)
      PROVE  UrgencyInv'
  <2>1. t = cur /\ wait[t] = NoLock
    BY <1>2, RunningOutside DEF TaskSleep
  <2>2. \A u \in Task : wait[u] # NoLock => (stopped'[u] <=> stopped[u])
    BY <1>2, <2>1 DEF TaskSleep, SleepSetup, IndInv, TypeOK
  <2>3. /\ UNCHANGED <<owner, users, leave, token, priority, inverted, hold,
                      wait, waiting, cur, long_run>>
        /\ nt' \in {nt, "none"}
    BY <1>2 DEF TaskSleep
  <2>4. QED BY <2>2, <2>3, OutsideUrgency DEF Outside
<1>3. CASE SleepLoop(t)
  <2>1. wait[t] = NoLock
    BY <1>3 DEF SleepLoop, IndInv, UsersAreInLock
  <2>2. \A u \in Task : wait[u] # NoLock => (stopped'[u] <=> stopped[u])
    <3>1. stopped \in [Task -> BOOLEAN]
      BY DEF IndInv, TypeOK
    <3>2. stopped' \in {stopped, [stopped EXCEPT ![t] = FALSE]}
      BY <1>3 DEF SleepLoop
    <3>3. QED BY <2>1, <3>1, <3>2
  <2>3. nt' \in {nt, "none"}
    BY <1>3 DEF SleepLoop
  <2>4. /\ UNCHANGED <<owner, users, leave, token, priority, inverted, hold,
                      wait, waiting, cur, long_run>>
        /\ nt' \in {nt, "none"}
    BY <1>3 DEF SleepLoop
  <2>5. QED BY <2>2, <2>3, <2>4, OutsideUrgency DEF Outside
<1>4. ASSUME NEW u \in Task, NEW timed \in BOOLEAN, TaskSleepID(t, u, timed)
      PROVE  UrgencyInv'
  <2>1. ASSUME NEW v \in Task, wait[v] # NoLock PROVE stopped'[v] <=> stopped[v]
    <3>1. CASE InLock(u)
      BY <1>4, <3>1 DEF TaskSleepID
    <3>2. CASE ~InLock(u)
      <4>1. u # v
        BY <2>1, <3>2 DEF InLock
      <4>2. QED BY <1>4, <3>2, <4>1 DEF TaskSleepID, SleepSetup, IndInv, TypeOK
    <3>3. QED BY <3>1, <3>2
  <2>2. /\ UNCHANGED <<owner, users, leave, token, priority, inverted, hold,
                      wait, waiting, cur, long_run>>
        /\ nt' \in {nt, "none"}
    BY <1>4 DEF TaskSleepID
  <2>3. QED BY <2>1, <2>2, OutsideUrgency DEF Outside
<1>5. ASSUME NEW u \in Task, NEW cancel \in BOOLEAN, TaskWakeup(t, u, cancel)
      PROVE  UrgencyInv'
  <2>1. ASSUME NEW v \in Task, wait[v] # NoLock PROVE stopped'[v] <=> stopped[v]
    <3>1. sleeping[u] => u # v
      BY <2>1 DEF IndInv, WaitersAwaitTurn
    <3>2. QED BY <1>5, <3>1 DEF TaskWakeup, IndInv, TypeOK
  <2>2. nt' \in {nt, "none"}
    BY <1>5 DEF TaskWakeup
  <2>3. /\ UNCHANGED <<owner, users, leave, token, priority, inverted, hold,
                      wait, waiting, cur, long_run>>
        /\ nt' \in {nt, "none"}
    BY <1>5 DEF TaskWakeup
  <2>4. QED BY <2>1, <2>2, <2>3, OutsideUrgency DEF Outside
<1>6. CASE TaskCollect
  <2>1. /\ UNCHANGED <<owner, users, leave, token, priority, inverted, hold,
                    wait, waiting, cur, long_run, stopped>>
        /\ nt' \in {nt, "none"}
    BY <1>6 DEF TaskCollect
  <2>2. QED BY <2>1, OutsideUrgency DEF Outside
<1>7. QED BY <1>1, <1>2, <1>3, <1>4, <1>5, <1>6

(* A task is created or removed outside every lock.                        *)
LEMMA TaskSlotUrgency ==
  ASSUME Careful, IndInv, UrgencyInv, NEW t \in Task, NEW u \in Task,
         CreateTask(t, u) \/ TaskRemove(t, u)
  PROVE  UrgencyInv'
<1> USE TaskAssumption DEF prioVars, ntVars, taskLock, lockVars, sleepVars, pendVars
<1>1. t = cur /\ nt = "-" /\ wait[t] = NoLock
  BY RunningOutside DEF CreateTask, TaskRemove
<1>2. CASE TaskRemove(t, u)
  <2>1. wait[u] = NoLock
    BY <1>2 DEF TaskRemove, Careful
  <2>2. \A v \in Task : wait[v] # NoLock => (stopped'[v] <=> stopped[v])
    BY <1>2, <2>1 DEF TaskRemove, IndInv, TypeOK
  <2>3. /\ UNCHANGED <<owner, users, leave, token, priority, inverted, hold,
                      wait, waiting, cur, long_run>>
        /\ nt' \in {nt, "none"}
    BY <1>2 DEF TaskRemove
  <2>4. QED BY <2>2, <2>3, OutsideUrgency DEF Outside
<1>3. CASE CreateTask(t, u)
  <2>1. hold[u] = NoLock /\ wait[u] = NoLock /\ u # cur
    BY <1>1, <1>3 DEF CreateTask, IndInv, UsersAreInLock, InLock, CurrentTaskValid
  <2>2. /\ UNCHANGED <<cur, nt, owner, users, leave, hold, wait>>
        /\ \A v \in Task : v # u =>
             /\ stopped'[v] = stopped[v] /\ token'[v] = token[v]
             /\ priority'[v] = priority[v] /\ inverted'[v] = inverted[v]
             /\ waiting'[v] = waiting[v] /\ long_run'[v] = long_run[v]
        /\ ~inverted'[u] /\ ~long_run'[u]
    <3>1. UNCHANGED <<cur, nt, owner, users, leave>>
      BY <1>3 DEF CreateTask
    <3>2. wait' = wait /\ hold' = hold
      BY <1>3, <2>1 DEF CreateTask, IndInv, TypeOK
    <3>3. /\ stopped' = [stopped EXCEPT ![u] = FALSE]
          /\ priority' = [priority EXCEPT ![u] = BasePrio[u]]
          /\ inverted' = [inverted EXCEPT ![u] = FALSE]
          /\ long_run' = [long_run EXCEPT ![u] = FALSE]
          /\ token' = [token EXCEPT ![u] = 0]
          /\ waiting' = [waiting EXCEPT ![u] = FALSE]
      BY <1>3 DEF CreateTask
    <3>4. QED BY <3>1, <3>2, <3>3 DEF IndInv, TypeOK
  <2>3. \A l \in Lock : u \notin users[l]
    BY <2>1 DEF IndInv, UsersAreInLock
  <2>4. StoppedOutranked'
    BY <2>2, <2>3, WaiterFacts DEF UrgencyInv, StoppedOutranked
  <2>5. RunnerOutranks'
    BY <1>1, <2>1, <2>2 DEF UrgencyInv, RunnerOutranks
  <2>6. RaisedByWaiter'
    <3> SUFFICES ASSUME NEW v \in Task, inverted'[v]
                 PROVE  \E w \in Task \ {v} :
                          /\ wait'[w] = hold'[v] /\ waiting'[w]
                          /\ BasePrio[w] = priority'[v] /\ BasePrio[w] > BasePrio[v]
      BY DEF RaisedByWaiter
    <3>1. v # u /\ inverted[v]
      BY <2>2
    <3>2. PICK w \in Task \ {v} :
            /\ wait[w] = hold[v] /\ waiting[w]
            /\ BasePrio[w] = priority[v] /\ BasePrio[w] > BasePrio[v]
      BY <3>1 DEF UrgencyInv, RaisedByWaiter
    <3>3. w # u
      BY <2>1, <3>1, <3>2, WaiterFacts
    <3>4. QED BY <2>2, <3>1, <3>2, <3>3
  <2>7. LongRunnersOutside'
    BY <1>1, <2>1, <2>2 DEF UrgencyInv, LongRunnersOutside
  <2>8. QED BY <2>4, <2>5, <2>6, <2>7 DEF UrgencyInv
<1>4. QED BY <1>2, <1>3
---------------------------------------------------------------------------
(* The loop of lock_enter() at a lock without an owner: the task whose     *)
(* turn it is gives its turn to a more urgent one and to nobody else.      *)
LEMMA FreeLockSwap ==
  ASSUME NEW l \in Lock, NEW t \in Task, NEW tok \in [Task -> Nat],
         NEW us \in SUBSET Task, NEW n \in Nat,
         t \in us, leave[l] \in Nat, owner[l] = NoTask,
         TokensFit(tok, us, leave[l], n)
  PROVE  \E lp \in us :
           /\ tok[lp] = leave[l] /\ \A u \in us : tok[u] = leave[l] => u = lp
           /\ IF t # lp /\ priority[t] > priority[lp]
              THEN PrioritySwap(t, l, tok, us)[t] = leave[l]
              ELSE PrioritySwap(t, l, tok, us) = tok
<1> DEFINE lp == CHOOSE u \in us : tok[u] = LowestWaiting(l)
<1>1. LowestWaiting(l) = leave[l] /\ tok[t] >= leave[l]
  BY DEF LowestWaiting, TokensFit
<1>2. \E u \in us : tok[u] = LowestWaiting(l)
  BY <1>1 DEF TokensFit
<1>3. lp \in us /\ tok[lp] = leave[l]
  BY <1>1, <1>2
<1>4. \A u \in us : tok[u] = leave[l] => u = lp
  <2> HIDE DEF lp
  <2>1. QED BY <1>3 DEF TokensFit
<1>5. PrioritySwap(t, l, tok, us) =
        IF tok[t] > leave[l] /\ priority[t] > priority[lp]
        THEN [tok EXCEPT ![t] = tok[lp], ![lp] = tok[t]]
        ELSE tok
  BY DEF PrioritySwap
<1> HIDE DEF lp
<1>6. CASE t # lp /\ priority[t] > priority[lp]
  <2>1. tok[t] \in Nat /\ tok[t] > leave[l]
    BY <1>1, <1>4, <1>6
  <2>2. PrioritySwap(t, l, tok, us) = [tok EXCEPT ![t] = tok[lp], ![lp] = tok[t]]
    BY <1>5, <1>6, <2>1
  <2>3. PrioritySwap(t, l, tok, us)[t] = tok[lp]
    BY <1>3, <1>6, <2>2
  <2>4. QED BY <1>3, <1>4, <1>6, <2>3
<1>7. CASE t # lp /\ ~(priority[t] > priority[lp])
  BY <1>3, <1>4, <1>5, <1>7
<1>8. CASE t = lp
  BY <1>1, <1>3, <1>4, <1>5, <1>8
<1>9. QED BY <1>6, <1>7, <1>8

(* t, with the token tok[t], goes round the loop of lock_enter(), and its  *)
(* turn has come only if it waited for it or if nobody else is there.      *)
Contends(t, l, tok, us) ==
  /\ EntersLoop(t, l, tok, us) /\ LockLoop(t, l, tok, us)
  /\ \/ t \in users[l] /\ tok = token
     \/ t \notin users[l] /\ (tok[t] = leave[l] => us = {t})

(* What the loop changes.                                                  *)
LEMMA ContendFacts ==
  ASSUME IndInv, IndInv', NEW t \in Task, NEW l \in Lock, NEW tok, NEW us,
         Contends(t, l, tok, us)
  PROVE  /\ cur = t /\ nt = "-" /\ hold[t] = NoLock /\ wait[t] \in {NoLock, l}
         /\ us = users[l] \cup {t} /\ users'[l] = us
         /\ wait[t] = l <=> t \in users[l]
         /\ \A m \in Lock : m # l => /\ users'[m] = users[m] /\ owner'[m] = owner[m]
                                     /\ t \notin users[m]
                                     /\ \A u \in users[m] : token'[u] = token[u]
         /\ \A u \in Task : u # t => /\ stopped'[u] = stopped[u] /\ wait'[u] = wait[u]
                                     /\ waiting'[u] = waiting[u] /\ hold'[u] = hold[u]
         /\ UNCHANGED <<cur, leave, long_run>>
         /\ priority[t] = BasePrio[t]
<1>1. /\ tok \in [Task -> Nat] /\ us \in SUBSET Task
      /\ cur = t /\ nt = "-" /\ hold[t] = NoLock /\ wait[t] \in {NoLock, l}
      /\ t \in us /\ us \ {t} = users[l] \ {t}
      /\ \A u \in Task : u # t => tok[u] = token[u]
      /\ users' = [users EXCEPT ![l] = us]
      /\ TokensFit(tok, us, leave[l], enter'[l])
  BY DEF Contends, EntersLoop
<1>2. us = users[l] \cup {t} /\ users'[l] = us
  BY <1>1 DEF IndInv, TypeOK
<1>3. wait[t] = l <=> t \in users[l]
  BY <1>1, TaskAssumption DEF IndInv, UsersAreInLock
<1>4. \A m \in Lock : m # l => users'[m] = users[m] /\ t \notin users[m]
  <2> SUFFICES ASSUME NEW m \in Lock, m # l
               PROVE  users'[m] = users[m] /\ t \notin users[m]
    OBVIOUS
  <2>1. users \in [Lock -> SUBSET Task]
    BY DEF IndInv, TypeOK
  <2>2. t \in users[m] => wait[t] = m \/ hold[t] = m
    BY DEF IndInv, UsersAreInLock
  <2>3. ~(wait[t] = m \/ hold[t] = m)
    BY <1>1, TaskAssumption
  <2>4. users' = [users EXCEPT ![l] = us]
    BY <1>1
  <2>5. users'[m] = users[m]
    BY <2>1, <2>4
  <2>6. QED BY <2>2, <2>3, <2>5
<1>5. \A u \in Task \ us : token'[u] = tok[u]
  <2>1. leave[l] \in Nat /\ enter'[l] \in Nat
    BY DEF IndInv, TypeOK
  <2>2. owner[l] # NoTask => owner[l] \in us /\ tok[owner[l]] = leave[l]
    <3> SUFFICES ASSUME owner[l] # NoTask
                 PROVE  owner[l] \in us /\ tok[owner[l]] = leave[l]
      OBVIOUS
    <3>1. /\ owner[l] \in Task /\ hold[owner[l]] = l /\ owner[l] \in users[l]
          /\ token[owner[l]] = leave[l]
      BY DEF IndInv, Exclusion, TypeOK
    <3>2. owner[l] # t
      BY <1>1, <3>1, TaskAssumption
    <3>3. QED BY <1>1, <1>2, <3>1, <3>2
  <2>3. token' = PrioritySwap(t, l, tok, us)
    BY DEF Contends, LockLoop
  <2>4. QED BY <1>1, <2>1, <2>2, <2>3, SwapFacts
<1>6. \A m \in Lock : m # l => \A u \in users[m] : u \in Task \ us /\ u # t
  <2> TAKE m \in Lock
  <2> HAVE m # l
  <2> TAKE u \in users[m]
  <2>1. u \in Task /\ u # t
    BY <1>4 DEF IndInv, TypeOK
  <2>2. wait[u] = m \/ hold[u] = m
    BY <2>1 DEF IndInv, UsersAreInLock
  <2>3. u \in users[l] => wait[u] = l \/ hold[u] = l
    BY <2>1 DEF IndInv, UsersAreInLock
  <2>4. hold[u] = NoLock \/ wait[u] = NoLock
    BY <2>1 DEF IndInv, UsersAreInLock
  <2>5. QED BY <1>2, <2>1, <2>2, <2>3, <2>4, TaskAssumption
<1>7. \A m \in Lock : m # l => \A u \in users[m] : token'[u] = token[u]
  BY <1>1, <1>5, <1>6
<1>8. /\ Await(t, l) \/ Acquire(t, l)
      /\ UNCHANGED <<cur, leave, long_run>>
  BY DEF Contends, LockLoop, ntVars
<1>9. /\ \A u \in Task : u # t => /\ stopped'[u] = stopped[u] /\ wait'[u] = wait[u]
                                  /\ waiting'[u] = waiting[u] /\ hold'[u] = hold[u]
      /\ \A m \in Lock : m # l => owner'[m] = owner[m]
  BY <1>8 DEF Await, Acquire, IndInv, TypeOK
<1>10. priority[t] = BasePrio[t]
  BY <1>1, WaiterFacts
<1>11. QED BY <1>1, <1>2, <1>3, <1>4, <1>7, <1>8, <1>9, <1>10

(* t finds the lock free and takes it: it outranks the others that want    *)
(* it, whether they can run or wait for their turn.                        *)
LEMMA TakerOutranks ==
  ASSUME IndInv, IndInv', UrgencyInv,
         NEW t \in Task, NEW l \in Lock, NEW tok, NEW us,
         Contends(t, l, tok, us), Acquire(t, l), ~(token'[t] > leave[l])
  PROVE  /\ owner[l] = NoTask
         /\ \A u \in users[l] : BasePrio[u] <= BasePrio[t]
<1>1. owner[l] = NoTask
  <2> SUFFICES ASSUME owner[l] # NoTask PROVE FALSE
    OBVIOUS
  <2>1. owner[l] \in Task /\ hold[owner[l]] = l
    BY DEF IndInv, Exclusion, TypeOK
  <2>2. hold[t] = NoLock /\ \A u \in Task : u # t => hold'[u] = hold[u]
    BY ContendFacts
  <2>3. owner[l] # t /\ owner'[l] = t /\ hold'[owner[l]] = l
    <3>1. owner[l] # t
      BY <2>1, <2>2, TaskAssumption
    <3>2. owner'[l] = t
      <4>1. owner' = [owner EXCEPT ![l] = t]
        BY DEF Acquire
      <4>2. owner \in [Lock -> Task \cup {NoTask}]
        BY DEF IndInv, TypeOK
      <4>3. QED BY <4>1, <4>2
    <3>3. QED BY <2>1, <2>2, <3>1, <3>2
  <2>4. QED BY <2>1, <2>3 DEF IndInv, Exclusion
<1>2. \A u \in users[l] : u \in Task /\ wait[u] = l
  BY <1>1, WaiterFacts, TaskAssumption
<1>3. \A u \in users[l] : ~stopped[u] => BasePrio[u] <= BasePrio[t]
  BY <1>2, ContendFacts, TaskAssumption DEF UrgencyInv, RunnerOutranks
<1>4. /\ tok \in [Task -> Nat] /\ us \in SUBSET Task /\ t \in us
      /\ TokensFit(tok, us, leave[l], enter'[l])
      /\ leave[l] \in Nat /\ enter'[l] \in Nat
      /\ token' = PrioritySwap(t, l, tok, us)
      /\ \A u \in Task : u # t => tok[u] = token[u]
      /\ us = users[l] \cup {t}
  <2>1. us = users[l] \cup {t}
    BY ContendFacts
  <2>2. leave[l] \in Nat /\ enter'[l] \in Nat
    BY DEF IndInv, TypeOK
  <2>3. QED BY <2>1, <2>2 DEF Contends, EntersLoop, LockLoop
<1>5. PICK lp \in us :
        /\ tok[lp] = leave[l] /\ \A u \in us : tok[u] = leave[l] => u = lp
        /\ IF t # lp /\ priority[t] > priority[lp]
           THEN token'[t] = leave[l]
           ELSE token' = tok
  BY <1>1, <1>4, FreeLockSwap
<1>6. CASE t # lp
  <2>1. lp \in users[l] /\ token[lp] = leave[l] /\ lp \in Task
    BY <1>4, <1>5, <1>6
  <2>2. tok[t] \in Nat /\ tok[t] > leave[l]
    BY <1>4, <1>5, <1>6 DEF TokensFit
  <2>3. priority[t] > priority[lp]
    BY <1>5, <1>6, <2>2
  <2>4. priority[lp] = BasePrio[lp] /\ priority[t] = BasePrio[t]
    BY <1>2, <2>1, WaiterFacts, ContendFacts, TaskAssumption
  <2>5. \A u \in users[l] : stopped[u] => BasePrio[u] <= BasePrio[lp]
    BY <1>1, <2>1 DEF UrgencyInv, StoppedOutranked
  <2>6. \A u \in users[l] : stopped[u] => BasePrio[u] <= BasePrio[t]
    BY <1>2, <2>1, <2>3, <2>4, <2>5, WaiterFacts
  <2>7. QED BY <1>1, <1>3, <2>6
<1>7. CASE t = lp
  <2>1. CASE t \in users[l] /\ tok = token
    BY <1>1, <1>3, <1>5, <1>7, <2>1 DEF UrgencyInv, StoppedOutranked
  <2>2. CASE us = {t}
    BY <1>1, <1>4, <2>2, WaiterFacts
  <2>3. QED BY <1>5, <1>7, <2>1, <2>2 DEF Contends
<1>8. QED BY <1>6, <1>7

(* t waits: somebody owns the lock or its turn belongs to a task of no     *)
(* lower priority.                                                         *)
LEMMA WaiterOutranked ==
  ASSUME IndInv, IndInv', UrgencyInv,
         NEW t \in Task, NEW l \in Lock, NEW tok, NEW us,
         Contends(t, l, tok, us), Await(t, l), token'[t] > leave[l],
         owner[l] = NoTask
  PROVE  \E lp \in users[l] \ {t} :
            /\ token[lp] = leave[l] /\ BasePrio[t] <= BasePrio[lp]
            /\ token' = tok
<1>1. /\ tok \in [Task -> Nat] /\ us \in SUBSET Task /\ t \in us
      /\ TokensFit(tok, us, leave[l], enter'[l])
      /\ leave[l] \in Nat /\ enter'[l] \in Nat
      /\ token' = PrioritySwap(t, l, tok, us)
      /\ \A u \in Task : u # t => tok[u] = token[u]
      /\ us = users[l] \cup {t}
  <2>1. us = users[l] \cup {t}
    BY ContendFacts
  <2>2. leave[l] \in Nat /\ enter'[l] \in Nat
    BY DEF IndInv, TypeOK
  <2>3. QED BY <2>1, <2>2 DEF Contends, EntersLoop, LockLoop
<1>2. PICK lp \in us :
        /\ tok[lp] = leave[l] /\ \A u \in us : tok[u] = leave[l] => u = lp
        /\ IF t # lp /\ priority[t] > priority[lp]
           THEN token'[t] = leave[l]
           ELSE token' = tok
  BY <1>1, FreeLockSwap
<1>3. t # lp /\ ~(priority[t] > priority[lp]) /\ token' = tok
  BY <1>1, <1>2
<1>4. lp \in users[l] /\ lp \in Task /\ token[lp] = leave[l]
  BY <1>1, <1>2, <1>3
<1>5. priority[lp] = BasePrio[lp] /\ priority[t] = BasePrio[t]
  BY <1>4, WaiterFacts, ContendFacts, TaskAssumption
<1>6. BasePrio[t] \in Nat /\ BasePrio[lp] \in Nat
  BY <1>4, WaiterFacts
<1>7. QED BY <1>3, <1>4, <1>5, <1>6

(* The loop of lock_enter(), from the arrival or on a retry: the running   *)
(* task swaps its token with the next waiter if it is the more urgent one, *)
(* and takes the lock or stops for the user whose turn it is.              *)
LEMMA ContendUrgency ==
  ASSUME IndInv, IndInv', UrgencyInv,
         NEW t \in Task, NEW l \in Lock, NEW tok, NEW us,
         Contends(t, l, tok, us)
  PROVE  UrgencyInv' /\ LockSteps
<1> DEFINE ow == owner[l]
<1>1. /\ cur = t /\ nt = "-" /\ hold[t] = NoLock /\ wait[t] \in {NoLock, l}
      /\ us = users[l] \cup {t} /\ users'[l] = us
      /\ wait[t] = l <=> t \in users[l]
      /\ \A m \in Lock : m # l => /\ users'[m] = users[m] /\ owner'[m] = owner[m]
                                  /\ t \notin users[m]
                                  /\ \A u \in users[m] : token'[u] = token[u]
      /\ \A u \in Task : u # t => /\ stopped'[u] = stopped[u] /\ wait'[u] = wait[u]
                                  /\ waiting'[u] = waiting[u] /\ hold'[u] = hold[u]
      /\ UNCHANGED <<cur, leave, long_run>>
      /\ priority[t] = BasePrio[t]
  BY ContendFacts
<1>2. \A m \in Lock : users[m] \subseteq Task
  BY DEF IndInv, TypeOK
<1>3. \A m \in Lock : m # l => [Abstract(m)!Next]_(Abstract(m)!lock)
  BY <1>1 DEF Abstract!lock
<1>4. \A m \in Lock : m # l /\ owner'[m] = NoTask =>
        \A u, v \in users'[m] :
           stopped'[u] /\ token'[v] = leave'[m] => BasePrio[u] <= BasePrio[v]
  BY <1>1, <1>2 DEF UrgencyInv, StoppedOutranked
<1>5. /\ token'[t] > leave[l] => Await(t, l)
      /\ ~(token'[t] > leave[l]) => Acquire(t, l)
  BY DEF Contends, LockLoop
<1>6. CASE token'[t] > leave[l]
  <2>1. /\ wait' = [wait EXCEPT ![t] = l] /\ waiting' = [waiting EXCEPT ![t] = TRUE]
        /\ nt' = "none" /\ UNCHANGED <<owner, hold>>
        /\ wait'[t] = l /\ waiting'[t]
    BY SMTT(20), <1>5, <1>6 DEF Await, IndInv, TypeOK
  <2>2. \/ /\ ow # NoTask /\ ow \in Task /\ ow # t /\ hold[ow] = l
           /\ ~inverted[ow] /\ priority[t] > priority[ow]
           /\ priority' = [priority EXCEPT ![ow] = priority[t]]
           /\ inverted' = [inverted EXCEPT ![ow] = TRUE]
        \/ UNCHANGED <<priority, inverted>>
    <3>1. ow # NoTask => ow \in Task /\ ow # t /\ hold[ow] = l
      BY SMTT(20), <1>1, TaskAssumption DEF IndInv, Exclusion, TypeOK
    <3>2. QED BY <1>5, <1>6, <3>1 DEF Await, RaisesOwner, prioVars
  <2>3. StoppedOutranked'
    <3>1. CASE ow = NoTask
      <4>1. PICK lp \in users[l] \ {t} :
              token[lp] = leave[l] /\ BasePrio[t] <= BasePrio[lp] /\ token' = tok
        BY <1>5, <1>6, <3>1, WaiterOutranked
      <4>2. \A u \in users[l] : stopped[u] => BasePrio[u] <= BasePrio[lp]
        BY <3>1, <4>1 DEF UrgencyInv, StoppedOutranked
      <4>3. token'[lp] = token[lp]
        BY <1>2, <4>1 DEF Contends, EntersLoop
      <4>4. \A u, v \in users'[l] : token'[u] = token'[v] => u = v
        BY DEF IndInv, TokensAccountedFor
      <4>5. \A u \in users'[l] : stopped'[u] => BasePrio[u] <= BasePrio[lp]
        BY <1>1, <1>2, <4>1, <4>2
      <4>6. \A v \in users'[l] : token'[v] = leave'[l] => v = lp
        BY <1>1, <4>1, <4>3, <4>4
      <4>7. QED BY <1>4, <4>5, <4>6 DEF StoppedOutranked
    <3>2. CASE ow # NoTask
      BY <1>4, <2>1, <3>2 DEF StoppedOutranked
    <3>3. QED BY <3>1, <3>2
  <2>4. RunnerOutranks'
    BY <2>1 DEF RunnerOutranks
  <2>5. RaisedByWaiter'
    <3> SUFFICES ASSUME NEW x \in Task, inverted'[x]
                 PROVE  \E u \in Task \ {x} :
                          /\ wait'[u] = hold'[x] /\ waiting'[u]
                          /\ BasePrio[u] = priority'[x] /\ BasePrio[u] > BasePrio[x]
      BY DEF RaisedByWaiter
    <3>1. CASE inverted[x]
      <4>1. priority'[x] = priority[x]
        BY <2>2, <3>1 DEF IndInv, TypeOK
      <4>2. PICK u \in Task \ {x} :
              /\ wait[u] = hold[x] /\ waiting[u]
              /\ BasePrio[u] = priority[x] /\ BasePrio[u] > BasePrio[x]
        BY <3>1 DEF UrgencyInv, RaisedByWaiter
      <4>3. hold[x] \in Lock /\ hold'[x] = hold[x]
        BY <2>1, <3>1, WaiterFacts
      <4>4. wait'[u] = wait[u] /\ waiting'[u]
        BY <1>1, <2>1, <4>2, <4>3, TaskAssumption
      <4>5. QED BY <4>1, <4>2, <4>3, <4>4
    <3>2. CASE ~inverted[x]
      <4>1. /\ x = ow /\ x # t /\ hold[x] = l /\ hold'[x] = l
            /\ priority[t] > priority[x] /\ priority'[x] = priority[t]
        BY SMTT(20), <2>1, <2>2, <3>2 DEF IndInv, TypeOK
      <4>2. priority[x] = BasePrio[x]
        BY <3>2 DEF IndInv, PrioritiesSaved
      <4>3. QED BY <1>1, <2>1, <4>1, <4>2
    <3>3. QED BY <3>1, <3>2
  <2>6. LongRunnersOutside'
    BY <1>1, <2>1 DEF UrgencyInv, LongRunnersOutside
  <2>7. [Abstract(l)!Next]_(Abstract(l)!lock)
    <3>1. ow # t
      BY SMTT(20), <1>1, TaskAssumption DEF IndInv, Exclusion, TypeOK
    <3>2. CASE t \in users[l]
      <4>1. users'[l] = users[l] /\ owner'[l] = owner[l]
        BY <1>1, <2>1, <3>2
      <4>2. QED BY <4>1 DEF Abstract!lock
    <3>3. CASE t \notin users[l]
      <4>1. ow # NoTask \/ users[l] \ {ow} # {}
        <5>1. CASE ow = NoTask
          <6>1. PICK lp \in users[l] \ {t} : token[lp] = leave[l]
            BY <1>5, <1>6, <5>1, WaiterOutranked
          <6>2. lp # ow
            BY <1>2, <5>1, <6>1, TaskAssumption
          <6>3. QED BY <6>1, <6>2
        <5>2. CASE ow # NoTask
          BY <5>2
        <5>3. QED BY <5>1, <5>2
      <4>2. /\ users'[l] \ {owner'[l]} = (users[l] \ {ow}) \cup {t}
            /\ owner'[l] = owner[l] /\ t \notin users[l] \ {ow}
        BY <1>1, <2>1, <3>1, <3>3
      <4>3. Abstract(l)!Wait(t)
        BY <3>1, <4>1, <4>2 DEF Abstract!Wait
      <4>4. QED BY <4>3 DEF Abstract!Next
    <3>4. QED BY <3>2, <3>3
  <2>8. QED BY <1>3, <2>3, <2>4, <2>5, <2>6, <2>7 DEF UrgencyInv, LockSteps
<1>7. CASE ~(token'[t] > leave[l])
  <2>1. /\ owner'[l] = t /\ wait'[t] = NoLock /\ hold'[t] = l
        /\ UNCHANGED <<nt, stopped, waiting, priority, inverted>>
    BY <1>5, <1>7 DEF Acquire, prioVars, IndInv, TypeOK
  <2>2. ow = NoTask /\ \A u \in users[l] : BasePrio[u] <= BasePrio[t]
    BY <1>5, <1>7, TakerOutranks
  <2>3. StoppedOutranked'
    BY <1>4, <2>1, TaskAssumption DEF StoppedOutranked
  <2>4. RunnerOutranks'
    BY <1>1, <2>1 DEF UrgencyInv, RunnerOutranks
  <2>5. RaisedByWaiter'
    <3> SUFFICES ASSUME NEW x \in Task, inverted[x]
                 PROVE  \E u \in Task \ {x} :
                          /\ wait'[u] = hold'[x] /\ waiting'[u]
                          /\ BasePrio[u] = priority'[x] /\ BasePrio[u] > BasePrio[x]
      BY <2>1 DEF RaisedByWaiter
    <3>1. PICK u \in Task \ {x} :
            /\ wait[u] = hold[x] /\ waiting[u]
            /\ BasePrio[u] = priority[x] /\ BasePrio[u] > BasePrio[x]
      BY DEF UrgencyInv, RaisedByWaiter
    <3>2. hold[x] \in Lock /\ owner[hold[x]] = x /\ x # t
      BY <1>1, WaiterFacts, TaskAssumption
    <3>3. u # t
      BY <1>1, <2>2, <3>1, <3>2, TaskAssumption
    <3>4. QED BY <1>1, <2>1, <3>1, <3>2, <3>3
  <2>6. LongRunnersOutside'
    BY <1>1, <2>1, TaskAssumption DEF UrgencyInv, LongRunnersOutside
  <2>7. [Abstract(l)!Next]_(Abstract(l)!lock)
    <3>1. users[l] \ {ow} = users[l]
      BY <1>2, <2>2, TaskAssumption
    <3>2. users'[l] \ {owner'[l]} = users[l] \ {t}
      BY <1>1, <2>1
    <3>3. Abstract(l)!Outranks(t, users[l] \ {ow})
      BY <2>2, <3>1 DEF Abstract!Outranks
    <3>4. Abstract(l)!Take(t) \/ Abstract(l)!TakeAtOnce(t)
      BY <2>1, <2>2, <3>1, <3>2, <3>3 DEF Abstract!Take, Abstract!TakeAtOnce
    <3>5. QED BY <3>4 DEF Abstract!Next
  <2>8. QED BY <1>3, <2>3, <2>4, <2>5, <2>6, <2>7 DEF UrgencyInv, LockSteps
<1>8. QED BY <1>6, <1>7

(* The owner leaves: all waiters can run again, and if it had been raised  *)
(* the one who raised it runs before it does.                              *)
LEMMA LeaveUrgency ==
  ASSUME IndInv, UrgencyInv, NEW t \in Task, NEW l \in Lock, lock_leave(t, l)
  PROVE  UrgencyInv' /\ LockSteps
<1> DEFINE woken == WaitersToWake(t, l)
<1>1. /\ cur = t /\ nt = "-" /\ hold[t] = l
      /\ hold'    = [hold EXCEPT ![t] = NoLock]
      /\ token'   = [token EXCEPT ![t] = 0]
      /\ users'   = [users EXCEPT ![l] = @ \ {t}]
      /\ owner'   = [owner EXCEPT ![l] = NoTask]
      /\ waiting' = [u \in Task |-> waiting[u] /\ u \notin woken]
      /\ UNCHANGED <<cur, long_run, wait>>
      /\ RestorePriority(t) /\ AfterLeave(t, woken)
  BY DEF lock_leave, Running, ntVars
<1>2. owner[l] = t /\ t \in users[l] /\ wait[t] = NoLock
  BY <1>1, TaskAssumption DEF IndInv, Exclusion, UsersAreInLock
<1>3. \A u \in users[l] \ {t} : u \in Task /\ wait[u] = l
  BY <1>2, WaiterFacts
<1>4. \A u \in Task : wait[u] = l => u \in users[l] \ {t}
  BY <1>2, TaskAssumption DEF IndInv, UsersAreInLock
<1>5. /\ users'[l] = users[l] \ {t} /\ owner'[l] = NoTask
      /\ \A m \in Lock : m # l => /\ users'[m] = users[m] /\ owner'[m] = owner[m]
                                  /\ leave'[m] = leave[m] /\ t \notin users[m]
  <2>1. \A m \in Lock : m # l => leave'[m] = leave[m]
    BY DEF lock_leave, IndInv, TypeOK
  <2>2. QED BY <1>1, <1>2, <2>1, TaskAssumption DEF IndInv, TypeOK, UsersAreInLock
<1>6. \A u \in Task : u # t => /\ token'[u] = token[u] /\ hold'[u] = hold[u]
                               /\ stopped'[u] <=> (stopped[u] /\ u \notin woken)
  <2>1. \A u \in Task : u # t => token'[u] = token[u] /\ hold'[u] = hold[u]
    BY <1>1 DEF IndInv, TypeOK
  <2>2. \/ stopped' = [u \in Task |-> u = t \/ (stopped[u] /\ u \notin woken)]
        \/ stopped' = [u \in Task |-> stopped[u] /\ u \notin woken]
    BY <1>1 DEF AfterLeave, SleepSetup
  <2> HIDE DEF woken
  <2>3. QED BY <2>1, <2>2
<1>7. woken \subseteq users[l] \ {t}
  BY DEF WaitersToWake
<1>8. \A u \in users[l] \ {t} : stopped[u] => u \in woken
  BY <1>3, TaskAssumption DEF WaitersToWake, IndInv, WaitersAwaitTurn
<1>9. \A u \in Task : u # t => priority'[u] = priority[u] /\ inverted'[u] = inverted[u]
  BY <1>1 DEF RestorePriority, prioVars, IndInv, TypeOK
<1>10. /\ ~inverted'[t]
       /\ ~inverted[t] => priority'[t] = priority[t]
       /\ inverted[t] => priority'[t] = BasePrio[t]
  BY SMTT(20), <1>1, WaiterFacts DEF RestorePriority, prioVars, IndInv, TypeOK
<1>11. /\ nt' \in {"-", "none"}
       /\ nt' = "-" => \A u \in woken : ~(priority[u] > priority'[t])
  BY <1>1 DEF AfterLeave
<1>12. StoppedOutranked'
  <2> HIDE DEF woken
  <2>1. \A u \in users'[l] : ~stopped'[u]
    <3>1. \A u \in users'[l] : u \in users[l] \ {t} /\ u \in Task /\ u # t
      BY <1>3, <1>5
    <3>2. QED BY <1>6, <1>8, <3>1
  <2>2. ASSUME NEW m \in Lock, m # l, owner'[m] = NoTask,
               NEW u \in users'[m], NEW v \in users'[m],
               stopped'[u], token'[v] = leave'[m]
        PROVE  BasePrio[u] <= BasePrio[v]
    <3>1. u \in users[m] /\ v \in users[m] /\ u # t /\ v # t /\ owner[m] = NoTask
      BY <1>5, <2>2
    <3>2. u \in Task /\ v \in Task
      BY <3>1 DEF IndInv, TypeOK
    <3>3. stopped[u] /\ token[v] = leave[m]
      <4>1. leave'[m] = leave[m] /\ token'[v] = token[v]
        BY <1>5, <1>6, <2>2, <3>1, <3>2
      <4>2. stopped[u]
        BY <1>6, <2>2, <3>1, <3>2
      <4>3. QED BY <2>2, <4>1, <4>2
    <3>4. QED BY <3>1, <3>3 DEF UrgencyInv, StoppedOutranked
  <2>3. QED BY <2>1, <2>2 DEF StoppedOutranked
<1>13. RunnerOutranks'
  <2> SUFFICES ASSUME nt' = "-", NEW u \in Task, wait[u] # NoLock, ~stopped'[u]
               PROVE  BasePrio[u] <= priority'[t]
    BY <1>1 DEF RunnerOutranks
  <2>1. u # t /\ priority[u] = BasePrio[u] /\ BasePrio[u] \in Nat
    BY <1>2, WaiterFacts
  <2>2. priority'[t] \in Nat
    BY <1>10, WaiterFacts
  <2>3. CASE inverted[t]
    <3>1. PICK w \in Task \ {t} :
            /\ wait[w] = l /\ waiting[w]
            /\ BasePrio[w] = priority[t] /\ BasePrio[w] > BasePrio[t]
      BY <1>1, <2>3 DEF UrgencyInv, RaisedByWaiter
    <3>2. w \in woken
      BY <1>4, <3>1 DEF WaitersToWake
    <3>3. priority[w] = BasePrio[w]
      BY <3>1, WaiterFacts, TaskAssumption
    <3>4. QED BY <1>10, <1>11, <2>3, <3>1, <3>2, <3>3
  <2>4. CASE ~inverted[t]
    <3>1. CASE u \in woken
      BY <1>11, <2>1, <2>2, <3>1
    <3>2. CASE u \notin woken
      <4>1. ~stopped[u]
        BY <1>6, <2>1, <3>2
      <4>2. BasePrio[u] <= priority[t]
        BY <1>1, <4>1 DEF UrgencyInv, RunnerOutranks
      <4>3. QED BY <1>10, <2>4, <4>2
    <3>3. QED BY <3>1, <3>2
  <2>5. QED BY <2>3, <2>4
<1>14. RaisedByWaiter'
  <2> SUFFICES ASSUME NEW x \in Task, inverted'[x]
               PROVE  \E u \in Task \ {x} :
                        /\ wait'[u] = hold'[x] /\ waiting'[u]
                        /\ BasePrio[u] = priority'[x] /\ BasePrio[u] > BasePrio[x]
    BY DEF RaisedByWaiter
  <2>1. x # t /\ inverted[x]
    BY <1>9, <1>10
  <2>2. PICK u \in Task \ {x} :
          /\ wait[u] = hold[x] /\ waiting[u]
          /\ BasePrio[u] = priority[x] /\ BasePrio[u] > BasePrio[x]
    BY <2>1 DEF UrgencyInv, RaisedByWaiter
  <2>3. hold[x] \in Lock /\ owner[hold[x]] = x
    BY <2>1, WaiterFacts
  <2>4. wait[u] # l
    BY <1>2, <2>1, <2>2, <2>3
  <2>5. u \notin woken
    BY <1>3, <1>7, <2>4
  <2> HIDE DEF woken
  <2>6. waiting'[u]
    BY <1>1, <2>2, <2>5
  <2>7. QED BY <1>1, <1>6, <1>9, <2>1, <2>2, <2>6
<1>15. LongRunnersOutside'
  BY <1>1, <1>11 DEF UrgencyInv, LongRunnersOutside
<1>16. LockSteps
  <2>1. \A m \in Lock : m # l => [Abstract(m)!Next]_(Abstract(m)!lock)
    BY <1>5 DEF Abstract!lock
  <2>2. owner[l] # NoTask /\ users'[l] \ {owner'[l]} = users[l] \ {owner[l]}
    BY <1>2, <1>3, <1>5, TaskAssumption
  <2>3. Abstract(l)!Release
    BY <1>5, <2>2 DEF Abstract!Release
  <2>4. QED BY <2>1, <2>3 DEF LockSteps, Abstract!Next
<1>17. QED BY <1>12, <1>13, <1>14, <1>15, <1>16 DEF UrgencyInv
---------------------------------------------------------------------------
(* Every step keeps the urgency, and is for every lock a step of a         *)
(* priority lock.                                                          *)
LEMMA NextUrgency ==
  Careful /\ IndInv /\ IndInv' /\ UrgencyInv /\ [Next]_vars
    => UrgencyInv' /\ LockSteps
<1> SUFFICES ASSUME Careful, IndInv, IndInv', UrgencyInv, [Next]_vars
             PROVE  UrgencyInv' /\ LockSteps
  OBVIOUS
<1>1. CASE UNCHANGED vars
  <2>1. Outside /\ UNCHANGED <<owner, users>>
    BY <1>1 DEF Outside, vars, control, sleepVars, pendVars, prioVars, ntVars,
       taskLock, lockVars
  <2>2. QED BY <2>1, OutsideUrgency, QuietLocks
<1>2. CASE Schedule
  <2>1. PICK t \in Task, expired \in SUBSET {u \in Task : timer[u] # "none"},
             intr \in SUBSET {Itask}, longOk \in BOOLEAN :
                NextTask(t, expired, intr, longOk)
    BY <1>2 DEF Schedule
  <2>2. expired \in SUBSET Task
    OBVIOUS
  <2>3. UNCHANGED <<owner, users>>
    BY <2>1 DEF NextTask, lockVars
  <2>4. QED BY <2>1, <2>2, <2>3, ScheduleUrgency, QuietLocks
<1>3. CASE TaskCollect
  <2>1. UNCHANGED <<owner, users>>
    BY <1>3 DEF TaskCollect, lockVars
  <2>2. Main \in Task
    BY TaskAssumption
  <2>3. QED BY <1>3, <2>1, <2>2, SleeperUrgency, QuietLocks
<1>4. ASSUME NEW t \in Task,
             \/ \E param \in {"none", "busy", "long"} : Yield(t, param)
             \/ \E kind \in SleepKind : TaskSleep(t, kind)
             \/ SleepLoop(t)
             \/ \E u \in Task : \/ \E timed \in BOOLEAN : TaskSleepID(t, u, timed)
                                \/ \E cancel \in BOOLEAN : TaskWakeup(t, u, cancel)
      PROVE  UrgencyInv' /\ LockSteps
  <2>1. UNCHANGED <<owner, users>>
    BY <1>4 DEF Yield, TaskSleep, SleepLoop, TaskSleepID, TaskWakeup, lockVars
  <2>2. QED BY <1>4, <2>1, SleeperUrgency, QuietLocks
<1>5. ASSUME NEW t \in Task, NEW u \in Task, CreateTask(t, u) \/ TaskRemove(t, u)
      PROVE  UrgencyInv' /\ LockSteps
  <2>1. UNCHANGED <<owner, users>>
    BY <1>5 DEF CreateTask, TaskRemove, lockVars
  <2>2. QED BY <1>5, <2>1, TaskSlotUrgency, QuietLocks
<1>6. ASSUME NEW t \in Task, NEW l \in Lock, lock_enter(t, l)
      PROVE  UrgencyInv' /\ LockSteps
  <2>1. Contends(t, l, [token EXCEPT ![t] = enter[l]], users[l] \cup {t})
    BY <1>6, EnterEntersLoop DEF Contends
  <2>2. QED BY <2>1, ContendUrgency
<1>7. ASSUME NEW t \in Task, lock_retry(t)
      PROVE  UrgencyInv' /\ LockSteps
  <2>1. wait[t] \in Lock /\ Contends(t, wait[t], token, users[wait[t]])
    BY <1>7, RetryEntersLoop DEF Contends
  <2>2. QED BY <2>1, ContendUrgency
<1>8. ASSUME NEW t \in Task, NEW l \in Lock, lock_leave(t, l)
      PROVE  UrgencyInv' /\ LockSteps
  BY <1>8, LeaveUrgency
<1>9. QED
  BY <1>1, <1>2, <1>3, <1>4, <1>5, <1>6, <1>7, <1>8 DEF Next

(* The waiters' urgency is respected in every state.                       *)
THEOREM UrgencyInvariance == Careful => (Spec => []UrgencyInv)
<1> SUFFICES ASSUME Careful PROVE Spec => []UrgencyInv
  OBVIOUS
<1>1. Spec => []IndInv
  BY Invariance
<1>2. IndInv /\ IndInv' /\ UrgencyInv /\ [Next]_vars => UrgencyInv'
  BY NextUrgency
<1>3. QED BY <1>1, <1>2, InitUrgency, PTL DEF Spec

(* Every lock is a priority lock: with any tasks, priorities and locks,    *)
(* and whatever priorities are raised and given back meanwhile, a free     *)
(* lock goes to the most urgent of the tasks that want it.                 *)
THEOREM LocksImplementPriorityLocks == Careful => (Spec => LocksArePriorityLocks)
<1> SUFFICES ASSUME Careful PROVE Spec => LocksArePriorityLocks
  OBVIOUS
<1>1. Init => \A l \in Lock : Abstract(l)!Init
  BY InitLocks
<1>2. IndInv /\ IndInv' /\ UrgencyInv /\ [Next]_vars => LockSteps
  BY NextUrgency
<1>3. LockSteps => [\A l \in Lock : [Abstract(l)!Next]_(Abstract(l)!lock)]_vars
  BY DEF LockSteps
<1>4. QED
  BY <1>1, <1>2, <1>3, Invariance, UrgencyInvariance, PTL
     DEF Spec, LocksArePriorityLocks
---------------------------------------------------------------------------
(* Tasks of one priority.                                                  *)
OneRank == \A t, u \in Task : BasePrio[t] = BasePrio[u]

(* Those in a lock before and after a step keep their order, and nobody    *)
(* who comes gets in front of them.                                        *)
InOrder(l) ==
  \A u \in users[l] \cap users'[l] :
    /\ \A v \in users[l] \cap users'[l] :
         token[u] < token[v] => token'[u] < token'[v]
    /\ \A v \in users'[l] \ users[l] : token'[u] < token'[v]

(* Nobody is raised for an equal, and nobody swaps with one.               *)
LEMMA EqualsDoNotSwap ==
  ASSUME OneRank, IndInv, RaisedByWaiter, NEW t \in Task, NEW l \in Lock,
         NEW tok, NEW us, EntersLoop(t, l, tok, us)
  PROVE  PrioritySwap(t, l, tok, us) = tok
<1> DEFINE lp == CHOOSE u \in us : tok[u] = LowestWaiting(l)
<1>1. \A u \in Task : BasePrio[u] \in Nat /\ priority[u] = BasePrio[u]
  <2>1. ASSUME NEW u \in Task PROVE ~inverted[u]
    BY TaskAssumption DEF OneRank, RaisedByWaiter
  <2>2. QED BY <2>1, TaskAssumption DEF IndInv, PrioritiesSaved
<1>2. CASE tok[t] > leave[l]
  <2>1. /\ tok \in [Task -> Nat] /\ us \in SUBSET Task /\ t \in us
        /\ TokensFit(tok, us, leave[l], enter'[l])
        /\ leave[l] \in Nat /\ enter'[l] \in Nat
    BY DEF EntersLoop, IndInv, TypeOK
  <2>2. LowestWaiting(l) \in leave[l]..(enter'[l] - 1)
    BY <1>2, <2>1 DEF LowestWaiting, TokensFit
  <2>3. lp \in us
    BY <2>1, <2>2 DEF TokensFit
  <2> HIDE DEF lp
  <2>4. ~(priority[t] > priority[lp])
    BY <1>1, <2>1, <2>3 DEF OneRank
  <2>5. QED BY <2>4 DEF PrioritySwap, lp
<1>3. CASE ~(tok[t] > leave[l])
  BY <1>3 DEF PrioritySwap
<1>4. QED BY <1>2, <1>3

(* No step lets a task overtake another of its priority: only the swap of  *)
(* lock_enter() moves a token, and it needs a more urgent arrival.         *)
LEMMA NextInOrder ==
  ASSUME OneRank, IndInv, RaisedByWaiter, Next
  PROVE  \A l \in Lock : InOrder(l)
<1>1. /\ token \in [Task -> Nat] /\ users \in [Lock -> SUBSET Task]
      /\ \A l \in Lock : enter[l] \in Nat
      /\ \A l \in Lock : \A u \in users[l] : u \in Task /\ token[u] < enter[l]
  <2>1. /\ token \in [Task -> Nat] /\ users \in [Lock -> SUBSET Task]
        /\ enter \in [Lock -> Nat] /\ leave \in [Lock -> Nat]
    BY DEF IndInv, TypeOK
  <2>2. \A l \in Lock : \A u \in users[l] : token[u] \in leave[l]..(enter[l] - 1)
    BY DEF IndInv, TokensAccountedFor
  <2>3. QED BY <2>1, <2>2
<1>2. ASSUME UNCHANGED <<token, users>> PROVE \A l \in Lock : InOrder(l)
  BY <1>2 DEF InOrder
<1>3. \A t \in Task, l \in Lock : t \in users[l] => /\ wait[t] = l \/ hold[t] = l
                                                    /\ slot[t] = "valid"
  BY TaskAssumption DEF IndInv, UsersAreInLock, InLock
<1>4. ASSUME NEW t \in Task, NEW l \in Lock, lock_enter(t, l)
      PROVE  \A m \in Lock : InOrder(m)
  <2>1. PICK tok, us : tok = [token EXCEPT ![t] = enter[l]] /\ us = users[l] \cup {t}
    OBVIOUS
  <2>2. EntersLoop(t, l, tok, us) /\ token' = PrioritySwap(t, l, tok, us)
    BY <1>4, <2>1, EnterEntersLoop DEF LockLoop
  <2>3. token' = tok
    BY <2>2, EqualsDoNotSwap
  <2>4. users' = [users EXCEPT ![l] = users[l] \cup {t}]
    BY <1>4 DEF lock_enter
  <2>5. \A m \in Lock : t \notin users[m]
    <3>1. hold[t] = NoLock /\ pc[t] = "run"
      BY <1>4 DEF lock_enter, Running
    <3>2. wait[t] = NoLock
      BY <3>1 DEF IndInv, UsersAreInLock
    <3>3. QED BY <1>3, <3>1, <3>2, TaskAssumption
  <2>6. /\ token'[t] = enter[l]
        /\ \A m \in Lock : \A u \in users[m] : token'[u] = token[u]
    BY <1>1, <2>1, <2>3, <2>5
  <2>7. \A m \in Lock : users'[m] = IF m = l THEN users[m] \cup {t} ELSE users[m]
    BY <1>1, <2>4
  <2>8. QED BY <1>1, <2>5, <2>6, <2>7 DEF InOrder
<1>5. ASSUME NEW t \in Task, lock_retry(t)
      PROVE  \A m \in Lock : InOrder(m)
  <2>1. PICK l \in Lock : l = wait[t] /\ EntersLoop(t, l, token, users[l])
    BY <1>5, RetryEntersLoop
  <2>2. token' = PrioritySwap(t, l, token, users[l]) /\ users' = users
    BY <1>5, <2>1 DEF lock_retry, LockLoop
  <2>3. token' = token
    BY <2>1, <2>2, EqualsDoNotSwap
  <2>4. QED BY <1>2, <2>2, <2>3
<1>6. ASSUME NEW t \in Task, NEW l \in Lock, lock_leave(t, l)
      PROVE  \A m \in Lock : InOrder(m)
  <2>1. /\ token' = [token EXCEPT ![t] = 0] /\ hold[t] = l
        /\ users' = [users EXCEPT ![l] = @ \ {t}]
    BY <1>6 DEF lock_leave
  <2>2. wait[t] = NoLock
    BY <2>1, TaskAssumption DEF IndInv, UsersAreInLock
  <2>3. \A m \in Lock : t \in users[m] => m = l
    BY <1>3, <2>1, <2>2, TaskAssumption
  <2>4. \A m \in Lock : users'[m] = users[m] \ {t}
    BY <1>1, <2>1, <2>3
  <2>5. \A m \in Lock : \A u \in users[m] \ {t} : token'[u] = token[u]
    BY <1>1, <2>1
  <2>6. QED BY <2>4, <2>5 DEF InOrder
<1>7. ASSUME NEW t \in Task, NEW u \in Task, CreateTask(t, u)
      PROVE  \A m \in Lock : InOrder(m)
  <2>1. token' = [token EXCEPT ![u] = 0] /\ users' = users /\ slot[u] = "free"
    BY <1>7 DEF CreateTask, lockVars
  <2>2. \A m \in Lock : u \notin users[m]
    BY <1>3, <2>1
  <2>3. \A m \in Lock : \A v \in users[m] : token'[v] = token[v]
    BY <1>1, <2>1, <2>2
  <2>4. QED BY <2>1, <2>3 DEF InOrder
<1>8. ASSUME \/ Schedule \/ TaskCollect
             \/ \E t \in Task :
                  \/ \E param \in {"none", "busy", "long"} : Yield(t, param)
                  \/ \E kind \in SleepKind : TaskSleep(t, kind)
                  \/ SleepLoop(t)
                  \/ \E u \in Task :
                       \/ \E timed \in BOOLEAN : TaskSleepID(t, u, timed)
                       \/ \E cancel \in BOOLEAN : TaskWakeup(t, u, cancel)
                       \/ TaskRemove(t, u)
      PROVE  UNCHANGED <<token, users>>
  <2>1. CASE Schedule
    BY <2>1 DEF Schedule, NextTask, taskLock, lockVars
  <2>2. CASE TaskCollect
    BY <2>2 DEF TaskCollect, taskLock, lockVars
  <2>3. ASSUME NEW t \in Task,
               \/ \E param \in {"none", "busy", "long"} : Yield(t, param)
               \/ \E kind \in SleepKind : TaskSleep(t, kind)
               \/ SleepLoop(t)
        PROVE  UNCHANGED <<token, users>>
    BY <2>3 DEF Yield, TaskSleep, SleepLoop, taskLock, lockVars
  <2>4. ASSUME NEW t \in Task, NEW u \in Task,
               \/ \E timed \in BOOLEAN : TaskSleepID(t, u, timed)
               \/ \E cancel \in BOOLEAN : TaskWakeup(t, u, cancel)
        PROVE  UNCHANGED <<token, users>>
    BY <2>4 DEF TaskSleepID, TaskWakeup, taskLock, lockVars
  <2>5. ASSUME NEW t \in Task, NEW u \in Task, TaskRemove(t, u)
        PROVE  UNCHANGED <<token, users>>
    BY <2>5 DEF TaskRemove, taskLock, lockVars
  <2>6. QED BY <1>8, <2>1, <2>2, <2>3, <2>4, <2>5
<1>9. QED BY <1>2, <1>4, <1>5, <1>6, <1>7, <1>8 DEF Next

(* Locks serve tasks of one priority in the order of their arrival,        *)
(* however many there are and whatever else they do.                       *)
THEOREM EqualsServedInOrder ==
  Careful /\ OneRank => (Spec => FirstComeFirstServed)
<1> SUFFICES ASSUME Careful, OneRank PROVE Spec => FirstComeFirstServed
  OBVIOUS
<1>1. IndInv /\ UrgencyInv /\ [Next]_vars => [\A l \in Lock : InOrder(l)]_vars
  BY NextInOrder DEF UrgencyInv
<1>2. (\A l \in Lock : InOrder(l)) =>
        \A l \in Lock : \A u \in users[l] \cap users'[l] :
          /\ \A v \in users[l] \cap users'[l] :
               token[u] < token[v] => token'[u] < token'[v]
          /\ \A v \in users'[l] \ users[l] : token'[u] < token'[v]
  BY DEF InOrder
<1>3. QED
  BY <1>1, <1>2, Invariance, UrgencyInvariance, PTL DEF Spec, FirstComeFirstServed
=============================================================================
