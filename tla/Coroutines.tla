---------------------------- MODULE Coroutines ----------------------------
(***************************************************************************)
(* The cooperative tasks of the server and the locks they share            *)
(* (support/coroutines.cpp).                                               *)
(*                                                                         *)
(* One task runs at a time and gives the processor up only inside          *)
(* _NextTask(), so one step of this module is what the running task does   *)
(* between two places where it can lose the processor.  A step that ends   *)
(* in a call of _NextTask() sets nt to the call's parameter; the next step *)
(* is then NextTask, which selects the task that resumes.                  *)
(*                                                                         *)
(* Time is abstract: a deadline may be found expired, and the word that a  *)
(* wakeup test watches may be found set, in any pass of the scheduler.     *)
(***************************************************************************)
EXTENDS Naturals, Sequences, SequencesExt

CONSTANTS Task,        \* the slots of Tasks[]
          Main,        \* the slot of the main task, TID_MAIN
          Lock,        \* the locks
          NoTask,      \* a NULL task pointer
          NoLock,      \* a NULL lock pointer
          BasePrio,    \* the priority each slot's task is created with
          NoPrioInv,   \* the tasks created with CTF_NO_PRIO_INV
          BusyHelper,  \* the CTF_BUSY_HELPER task (spi_pump), or NoTask
          Itask,       \* the CTF_POLL_INTR task (data_pump), or NoTask
          LongRunner,  \* the tasks that yield with NT_LONG_RUN
          Sleepable,   \* the tasks others put to sleep with TaskSleepID
          Ephemeral,   \* the tasks that get removed
          RemovesWaiters, \* TRUE: a removed task may be waiting for a lock
          SleepKind,   \* what the sleeps in use wait for, a subset of Timer
          MaxTicket    \* bound on a lock's enter counter

\* What ends a sleep besides TaskWakeup(): nothing, a deadline, or a word
\* that becomes nonzero.
Timer == {"none", "deadline", "test"}

Prio == {BasePrio[t] : t \in Task}

ASSUME TaskAssumption ==
  /\ Main \in Task
  /\ NoTask \notin Task
  /\ NoLock \notin Lock
  /\ BasePrio \in [Task -> Nat]
  /\ NoPrioInv \subseteq Task /\ LongRunner \subseteq Task
  /\ Sleepable \subseteq Task /\ Ephemeral \subseteq Task \ {Main}
  /\ BusyHelper \in (Task \cup {NoTask}) \ Ephemeral
  /\ Itask \in (Task \cup {NoTask}) \ Ephemeral
  /\ RemovesWaiters \in BOOLEAN
  /\ SleepKind \subseteq Timer
  /\ MaxTicket \in Nat

VARIABLES
  cur,           \* cur_task
  nt,            \* "-", or the parameter of the _NextTask() call of cur
  pc,            \* pc[t]: the loop t resumes in, or "run"
  slot,          \* slot[t]: "free", "valid" or "removed" (stack not collected)
  stopped, sleeping, wakeup,        \* TASK fields of the same names
  timer,         \* timer[t]: "deadline" if deadline > 0, "test" if wakeup_test
  pending_sleep, pending_usec,      \* pending_usec: TRUE if > 0
  priority, saved_priority,
  inverted,      \* the flag CTF_PRIO_INVERSION
  busy_wait, long_run,
  TaskQ,         \* TaskQ[p]: the tasks of priority p, and the last one run
  token, wait, hold, waiting,       \* the fields of TASK.lock
  enter, leave, owner, users        \* the fields of lock_t

control   == <<cur, nt, pc, slot>>
sleepVars == <<stopped, sleeping, wakeup, timer>>
pendVars  == <<pending_sleep, pending_usec>>
prioVars  == <<priority, saved_priority, inverted, TaskQ>>
ntVars    == <<busy_wait, long_run>>
taskLock  == <<token, wait, hold, waiting>>
lockVars  == <<enter, leave, owner, users>>
vars == <<control, sleepVars, pendVars, prioVars, ntVars, taskLock, lockVars>>
---------------------------------------------------------------------------
(* Task queues.  A queue is searched from the task after last_run.         *)

Without(tasks, t) ==
  IF t \in Range(tasks)
  THEN RemoveAt(tasks, CHOOSE i \in DOMAIN tasks : tasks[i] = t)
  ELSE tasks

TenQ(q, t, p) == [q EXCEPT ![p].tasks = Cons(t, @)]

\* Faulty variant: the queue's round-robin pointer outlives its task.
TdeQ_KeepsLastRun(q, t, p) ==
  [q EXCEPT ![p].tasks = Without(@, t)]

TdeQ(q, t, p) ==
  [q EXCEPT ![p] = [tasks    |-> Without(@.tasks, t),
                    last_run |-> IF @.last_run = t THEN NoTask ELSE @.last_run]]

Requeue(q, t, from, to) == TenQ(TdeQ(q, t, from), t, to)

\* Faulty variant: the search always starts at the head of the queue.
IsNextInQueue_FromHead(q, E, t) ==
  \E k \in DOMAIN q.tasks :
     /\ q.tasks[k] = t /\ t \in E
     /\ \A j \in 1..(k - 1) : q.tasks[j] \notin E

\* t is the first task of the set E after the last one run, round robin.
IsNextInQueue(q, E, t) ==
  LET n     == Len(q.tasks)
      After == {i \in 1..n : q.tasks[i] = q.last_run}
      start == IF After = {} THEN 0 ELSE CHOOSE i \in After : TRUE
      At(k) == q.tasks[((start + k) % n) + 1]
  IN \E k \in 0..(n - 1) :
        /\ At(k) = t /\ t \in E
        /\ \A j \in 0..(k - 1) : At(j) \notin E

Valid == {t \in Task : slot[t] = "valid"}

\* t executes its own code, outside the scheduler and outside the loops
\* of lock_enter() and _TaskSleep().
Running(t) == cur = t /\ nt = "-" /\ pc[t] = "run"
---------------------------------------------------------------------------
\* Faulty variant: the task is made runnable without the flag its sleep
\* waits for.
RunnableYes_NoFlag(S) ==
  /\ stopped'  = [t \in Task |-> stopped[t] /\ t \notin S]
  /\ sleeping' = [t \in Task |-> sleeping[t] /\ t \notin S]
  /\ UNCHANGED wakeup

(* RUNNABLE_YES of every task of the set S.                                *)
RunnableYes(S) ==
  /\ stopped'  = [t \in Task |-> stopped[t] /\ t \notin S]
  /\ sleeping' = [t \in Task |-> sleeping[t] /\ t \notin S]
  /\ wakeup'   = [t \in Task |-> wakeup[t] \/ t \in S]

(* taskSleepSetup() of t, RUNNABLE_NO included; the tasks of S, the waiters*)
(* of a lock just left, become runnable in the same step.                  *)
SleepSetup(t, kind, S) ==
  /\ timer'    = [timer EXCEPT ![t] = kind]
  /\ stopped'  = [u \in Task |-> u = t \/ (stopped[u] /\ u \notin S)]
  /\ sleeping' = [sleeping EXCEPT ![t] = TRUE]
  /\ wakeup'   = [wakeup EXCEPT ![t] = FALSE]
---------------------------------------------------------------------------
(* _NextTask(): wake the expired sleepers of the queue that is searched,   *)
(* the interrupt task if its interrupt is pending (intr) and, the second   *)
(* time in a row the caller busy-waits, the busy helper; then switch to t, *)
(* the next runnable task of the highest priority that has one.  A task    *)
(* that yielded for a long run is passed over unless the interrupt task    *)
(* has just run (longOk).  Passes that select nobody change nothing.       *)

LastRunMarked ==
  [TaskQ EXCEPT ![priority[cur]].last_run =
      IF slot[cur] = "valid" THEN cur ELSE NoTask]

HelperWoken ==
  IF nt = "busy" /\ busy_wait[cur] THEN {BusyHelper} \ {NoTask} ELSE {}

Expirable(p) == {u \in Valid : timer[u] # "none" /\ priority[u] = p}

NextTask(t, expired, intr, longOk) ==
  LET up       == expired \cup intr \cup HelperWoken
      long     == [long_run EXCEPT ![cur] = @ \/ nt = "long"]
      runnable == {u \in Valid : ~stopped[u]} \cup up
      eligible == {u \in runnable : long[u] => longOk}
  IN  /\ nt # "-"
      /\ expired \subseteq Expirable(priority[t])
      /\ intr \subseteq {u \in Valid \cap {Itask} : sleeping[u]}
      /\ \A u \in eligible : priority[u] <= priority[t]
      /\ IsNextInQueue(LastRunMarked[priority[t]], eligible, t)
      /\ RunnableYes(up)
      /\ timer' = [u \in Task |-> IF u \in expired THEN "none" ELSE timer[u]]
      /\ busy_wait' = [busy_wait EXCEPT ![cur] = nt = "busy" /\ ~@]
      /\ long_run' = [long EXCEPT ![t] = FALSE]
      /\ TaskQ' = LastRunMarked
      /\ cur' = t /\ nt' = "-"
      /\ UNCHANGED <<pc, slot, pendVars, priority, saved_priority, inverted,
                     taskLock, lockVars>>

\* A task offers the processor to the others.
Yield(t, param) ==
  /\ Running(t)
  /\ param = "long" => t \in LongRunner
  /\ param = "busy" => BusyHelper \in Valid
  /\ nt' = param
  /\ UNCHANGED <<cur, pc, slot, sleepVars, pendVars, prioVars, ntVars,
                 taskLock, lockVars>>
---------------------------------------------------------------------------
TaskSleep(t, kind) ==
  /\ Running(t)
  /\ SleepSetup(t, kind, {})
  /\ nt' = "none" /\ pc' = [pc EXCEPT ![t] = "TaskSleep"]
  /\ UNCHANGED <<cur, slot, pendVars, prioVars, ntVars, taskLock, lockVars>>

\* The loop of _TaskSleep() when t is resumed in it.
SleepLoop(t) ==
  /\ cur = t /\ nt = "-" /\ pc[t] = "TaskSleep"
  /\ IF wakeup[t]
     THEN /\ timer' = [timer EXCEPT ![t] = IF @ = "deadline" THEN "none" ELSE @]
          /\ stopped'  = [stopped EXCEPT ![t] = FALSE]
          /\ sleeping' = [sleeping EXCEPT ![t] = FALSE]
          /\ wakeup'   = [wakeup EXCEPT ![t] = FALSE]
          /\ pc' = [pc EXCEPT ![t] = "run"]
          /\ UNCHANGED nt
     ELSE /\ nt' = "none"
          /\ UNCHANGED <<pc, sleepVars>>
  /\ UNCHANGED <<cur, slot, pendVars, prioVars, ntVars, taskLock, lockVars>>

\* Faulty variant: a waiter for a lock is not seen to be in a lock.
InLock_OwnerOnly(u) == hold[u] # NoLock

InLock(u) == hold[u] # NoLock \/ wait[u] # NoLock

\* TaskSleepID(u, usec) called by another task than u.
TaskSleepID(t, u, timed) ==
  /\ Running(t) /\ u \in (Sleepable \cap Valid) \ {t}
  /\ IF InLock(u)
     THEN /\ pending_sleep' = [pending_sleep EXCEPT ![u] = TRUE]
          /\ pending_usec'  = [pending_usec EXCEPT ![u] = timed]
          /\ UNCHANGED sleepVars
     ELSE /\ SleepSetup(u, IF timed THEN "deadline" ELSE "none", {})
          /\ UNCHANGED pendVars
  /\ UNCHANGED <<control, prioVars, ntVars, taskLock, lockVars>>

\* _TaskWakeup(u, flags); cancel stands for TWF_CANCEL_DEADLINE.
TaskWakeup(t, u, cancel) ==
  /\ Running(t) /\ u \in Valid
  /\ timer[u] = "deadline" => cancel
  /\ timer' = [timer EXCEPT ![u] = IF @ = "deadline" THEN "none" ELSE @]
  /\ IF sleeping[u]
     THEN /\ stopped'  = [stopped EXCEPT ![u] = FALSE]
          /\ sleeping' = [sleeping EXCEPT ![u] = FALSE]
          /\ wakeup'   = [wakeup EXCEPT ![u] = TRUE]
          /\ nt' = IF priority[u] > priority[t] THEN "none" ELSE nt
          /\ UNCHANGED pendVars
     ELSE /\ pending_sleep' = [pending_sleep EXCEPT ![u] = FALSE]
          /\ UNCHANGED <<stopped, sleeping, wakeup, nt, pending_usec>>
  /\ UNCHANGED <<cur, pc, slot, prioVars, ntVars, taskLock, lockVars>>
---------------------------------------------------------------------------
(* Locks.  A task takes a token when it enters; the lock belongs to the    *)
(* user whose token equals leave.                                          *)

\* Faulty variant: the owner's token counts as a waiter's.
LowestWaiting_Owner(l) == leave[l]

LowestWaiting(l) == leave[l] + (IF owner[l] = NoTask THEN 0 ELSE 1)

\* Faulty variants: no swap, a swap among equals, and a swap of one side only.
PrioritySwap_None(t, l, tok, us) == tok

PrioritySwap_Equals(t, l, tok, us) ==
  LET lp == CHOOSE u \in us : tok[u] = LowestWaiting(l)
  IN  IF tok[t] > leave[l] /\ priority[t] >= priority[lp]
      THEN [tok EXCEPT ![t] = tok[lp], ![lp] = tok[t]]
      ELSE tok

PrioritySwap_OneSided(t, l, tok, us) ==
  LET lp == CHOOSE u \in us : tok[u] = LowestWaiting(l)
  IN  IF tok[t] > leave[l] /\ priority[t] > priority[lp]
      THEN [tok EXCEPT ![t] = tok[lp]]
      ELSE tok

\* LOCK_PRIORITY_SWAP: t takes the token of the next waiter in turn if that
\* waiter has a lower priority.
PrioritySwap(t, l, tok, us) ==
  LET lp == CHOOSE u \in us : tok[u] = LowestWaiting(l)
  IN  IF tok[t] > leave[l] /\ priority[t] > priority[lp]
      THEN [tok EXCEPT ![t] = tok[lp], ![lp] = tok[t]]
      ELSE tok

\* Faulty variant: an owner that was raised before is raised again.
RaisesOwner_Again(t, l) ==
  LET ow == owner[l]
  IN  ow # NoTask /\ priority[t] > priority[ow] /\ ow \notin NoPrioInv

\* LOCK_PRIORITY_INVERSION: the owner runs at the priority of the waiter t.
RaisesOwner(t, l) ==
  LET ow == owner[l]
  IN  /\ ow # NoTask
      /\ priority[t] > priority[ow]
      /\ ow \notin NoPrioInv /\ ~inverted[ow]

Acquire(t, l) ==
  /\ owner' = [owner EXCEPT ![l] = t]
  /\ wait'  = [wait EXCEPT ![t] = NoLock]
  /\ hold'  = [hold EXCEPT ![t] = l]
  /\ pc'    = [pc EXCEPT ![t] = "run"]
  /\ UNCHANGED <<nt, stopped, waiting, prioVars>>

Await(t, l) ==
  /\ wait'    = [wait EXCEPT ![t] = l]
  /\ waiting' = [waiting EXCEPT ![t] = TRUE]
  /\ stopped' = [stopped EXCEPT ![t] = TRUE]
  /\ pc'      = [pc EXCEPT ![t] = "lock_enter"]
  /\ nt'      = "none"
  /\ IF RaisesOwner(t, l)
     THEN LET ow == owner[l]
          IN /\ saved_priority' = [saved_priority EXCEPT ![ow] = priority[ow]]
             /\ priority' = [priority EXCEPT ![ow] = priority[t]]
             /\ inverted' = [inverted EXCEPT ![ow] = TRUE]
             /\ TaskQ' = Requeue(TaskQ, ow, priority[ow], priority[t])
     ELSE UNCHANGED prioVars
  /\ UNCHANGED <<owner, hold>>

\* The loop of lock_enter(), with the tokens tok and the users us.
LockLoop(t, l, tok, us) ==
  /\ token' = PrioritySwap(t, l, tok, us)
  /\ IF token'[t] > leave[l] THEN Await(t, l) ELSE Acquire(t, l)
  /\ UNCHANGED <<cur, slot, sleeping, wakeup, timer, pendVars, ntVars, leave>>

lock_enter(t, l) ==
  /\ Running(t) /\ hold[t] = NoLock
  /\ enter[l] < MaxTicket
  /\ enter' = [enter EXCEPT ![l] = @ + 1]
  /\ users' = [users EXCEPT ![l] = @ \cup {t}]
  /\ LockLoop(t, l, [token EXCEPT ![t] = enter[l]], users[l] \cup {t})

\* A waiter that became runnable goes round the loop of lock_enter().
lock_retry(t) ==
  /\ cur = t /\ nt = "-" /\ pc[t] = "lock_enter"
  /\ LockLoop(t, wait[t], token, users[wait[t]])
  /\ UNCHANGED <<enter, users>>

\* Faulty variant: the flag of the inversion stays up.
RestorePriority_KeepsFlag(t) ==
  IF inverted[t]
  THEN /\ priority' = [priority EXCEPT ![t] = saved_priority[t]]
       /\ saved_priority' = [saved_priority EXCEPT ![t] = 0]
       /\ TaskQ' = Requeue(TaskQ, t, priority[t], saved_priority[t])
       /\ UNCHANGED inverted
  ELSE UNCHANGED prioVars

\* The end of a priority inversion.
RestorePriority(t) ==
  IF inverted[t]
  THEN /\ priority' = [priority EXCEPT ![t] = saved_priority[t]]
       /\ saved_priority' = [saved_priority EXCEPT ![t] = 0]
       /\ inverted' = [inverted EXCEPT ![t] = FALSE]
       /\ TaskQ' = Requeue(TaskQ, t, priority[t], saved_priority[t])
  ELSE UNCHANGED prioVars

\* Faulty variant: nobody is told that the lock is free.
WaitersToWake_None(t, l) == {}

WaitersToWake(t, l) == {u \in users[l] \ {t} : waiting[u]}

\* Faulty variant: the pending sleep is forgotten.
AfterLeave_NoSleep(t, woken) ==
  /\ stopped' = [u \in Task |-> stopped[u] /\ u \notin woken]
  /\ nt' = IF \E u \in woken : priority[u] > priority'[t] THEN "none" ELSE nt
  /\ UNCHANGED <<pc, pending_sleep, sleeping, wakeup, timer>>

\* Having left a lock t goes to sleep if a TaskSleepID() was made pending,
\* else it lets a more urgent waiter run.
AfterLeave(t, woken) ==
  IF pending_sleep[t]
  THEN /\ pending_sleep' = [pending_sleep EXCEPT ![t] = FALSE]
       /\ SleepSetup(t, IF pending_usec[t] THEN "deadline" ELSE "none", woken)
       /\ nt' = "none" /\ pc' = [pc EXCEPT ![t] = "TaskSleep"]
  ELSE /\ stopped' = [u \in Task |-> stopped[u] /\ u \notin woken]
       /\ nt' = IF \E u \in woken : priority[u] > priority'[t]
                THEN "none" ELSE nt
       /\ UNCHANGED <<pc, pending_sleep, sleeping, wakeup, timer>>

\* All waiters are woken and lock_enter() picks the next owner; the counters
\* restart when nobody is left.
lock_leave(t, l) ==
  LET woken == WaitersToWake(t, l)
  IN  /\ Running(t) /\ hold[t] = l
      /\ RestorePriority(t)
      /\ hold'    = [hold EXCEPT ![t] = NoLock]
      /\ token'   = [token EXCEPT ![t] = 0]
      /\ users'   = [users EXCEPT ![l] = @ \ {t}]
      /\ owner'   = [owner EXCEPT ![l] = NoTask]
      /\ waiting' = [u \in Task |-> waiting[u] /\ u \notin woken]
      /\ IF leave[l] + 1 = enter[l]
         THEN /\ enter' = [enter EXCEPT ![l] = 0]
              /\ leave' = [leave EXCEPT ![l] = 0]
         ELSE /\ leave' = [leave EXCEPT ![l] = @ + 1]
              /\ UNCHANGED enter
      /\ AfterLeave(t, woken)
      /\ UNCHANGED <<cur, slot, pending_usec, ntVars, wait>>
---------------------------------------------------------------------------
\* The slot of a removed task is reused once TaskCollect() rebuilt its stack.
CreateTask(t, u) ==
  /\ Running(t) /\ slot[u] = "free"
  /\ slot' = [slot EXCEPT ![u] = "valid"]
  /\ pc' = [pc EXCEPT ![u] = "run"]
  /\ stopped'  = [stopped EXCEPT ![u] = FALSE]
  /\ sleeping' = [sleeping EXCEPT ![u] = FALSE]
  /\ wakeup'   = [wakeup EXCEPT ![u] = FALSE]
  /\ timer'    = [timer EXCEPT ![u] = "none"]
  /\ pending_sleep' = [pending_sleep EXCEPT ![u] = FALSE]
  /\ pending_usec'  = [pending_usec EXCEPT ![u] = FALSE]
  /\ priority' = [priority EXCEPT ![u] = BasePrio[u]]
  /\ saved_priority' = [saved_priority EXCEPT ![u] = 0]
  /\ inverted'  = [inverted EXCEPT ![u] = FALSE]
  /\ busy_wait' = [busy_wait EXCEPT ![u] = FALSE]
  /\ long_run'  = [long_run EXCEPT ![u] = FALSE]
  /\ TaskQ' = TenQ(TaskQ, u, BasePrio[u])
  /\ token' = [token EXCEPT ![u] = 0]
  /\ wait'  = [wait EXCEPT ![u] = NoLock]
  /\ hold'  = [hold EXCEPT ![u] = NoLock]
  /\ waiting' = [waiting EXCEPT ![u] = FALSE]
  /\ UNCHANGED <<cur, nt, lockVars>>

\* Removing a task that holds a lock panics; one that waits is not noticed.
TaskRemove(t, u) ==
  /\ Running(t) /\ u \in Ephemeral \cap Valid
  /\ hold[u] = NoLock
  /\ wait[u] = NoLock \/ RemovesWaiters
  /\ slot' = [slot EXCEPT ![u] = "removed"]
  /\ stopped' = [stopped EXCEPT ![u] = TRUE]
  /\ TaskQ' = TdeQ(TaskQ, u, priority[u])
  /\ nt' = "none"
  /\ UNCHANGED <<cur, pc, sleeping, wakeup, timer, pendVars, priority,
                 saved_priority, inverted, ntVars, taskLock, lockVars>>

TaskCollect ==
  /\ Running(Main) /\ \E u \in Task : slot[u] = "removed"
  /\ slot' = [u \in Task |-> IF slot[u] = "removed" THEN "free" ELSE slot[u]]
  /\ UNCHANGED <<cur, nt, pc, sleepVars, pendVars, prioVars, ntVars,
                 taskLock, lockVars>>
---------------------------------------------------------------------------
Init ==
  /\ cur = Main /\ nt = "-"
  /\ pc = [t \in Task |-> "run"]
  /\ slot = [t \in Task |-> IF t = Main THEN "valid" ELSE "free"]
  /\ stopped = [t \in Task |-> FALSE]
  /\ sleeping = [t \in Task |-> FALSE]
  /\ wakeup = [t \in Task |-> FALSE]
  /\ timer = [t \in Task |-> "none"]
  /\ pending_sleep = [t \in Task |-> FALSE]
  /\ pending_usec = [t \in Task |-> FALSE]
  /\ priority = BasePrio
  /\ saved_priority = [t \in Task |-> 0]
  /\ inverted = [t \in Task |-> FALSE]
  /\ busy_wait = [t \in Task |-> FALSE]
  /\ long_run = [t \in Task |-> FALSE]
  /\ TaskQ = [p \in Prio |->
                [tasks    |-> IF p = BasePrio[Main] THEN <<Main>> ELSE <<>>,
                 last_run |-> NoTask]]
  /\ token = [t \in Task |-> 0]
  /\ wait = [t \in Task |-> NoLock]
  /\ hold = [t \in Task |-> NoLock]
  /\ waiting = [t \in Task |-> FALSE]
  /\ enter = [l \in Lock |-> 0]
  /\ leave = [l \in Lock |-> 0]
  /\ owner = [l \in Lock |-> NoTask]
  /\ users = [l \in Lock |-> {}]

Schedule ==
  \E t \in Task, expired \in SUBSET {u \in Task : timer[u] # "none"}, intr \in SUBSET {Itask},
     longOk \in BOOLEAN : NextTask(t, expired, intr, longOk)

Next ==
  \/ Schedule
  \/ TaskCollect
  \/ \E t \in Task :
       \/ \E param \in {"none", "busy", "long"} : Yield(t, param)
       \/ \E kind \in SleepKind : TaskSleep(t, kind)
       \/ SleepLoop(t)
       \/ lock_retry(t)
       \/ \E l \in Lock : lock_enter(t, l) \/ lock_leave(t, l)
       \/ \E u \in Task :
            \/ \E timed \in BOOLEAN : TaskSleepID(t, u, timed)
            \/ \E cancel \in BOOLEAN : TaskWakeup(t, u, cancel)
            \/ CreateTask(t, u) \/ TaskRemove(t, u)

Spec == Init /\ [][Next]_vars

(* What the server does to be live: the scheduler keeps looking for a task,*)
(* every task gives the processor up after a while, deadlines expire, and  *)
(* a task that holds a lock leaves it after having run often enough.       *)
Expires(u) ==
  \E t \in Task, expired \in SUBSET {v \in Task : timer[v] # "none"},
     intr \in SUBSET {Itask} :
        u \in expired /\ NextTask(t, expired, intr, TRUE)

Fairness ==
  /\ WF_vars(Schedule)
  /\ \A t \in Task :
       /\ WF_vars(Yield(t, "none")) /\ WF_vars(SleepLoop(t))
       /\ WF_vars(lock_retry(t))
       /\ SF_vars(Expires(t))
       /\ \A l \in Lock : SF_vars(lock_leave(t, l))

FairSpec == Spec /\ Fairness
---------------------------------------------------------------------------
TaskQueue == [tasks : Seq(Task), last_run : Task \cup {NoTask}]

(* Type correctness of the scheduler's and the locks' state.               *)
TypeOK ==
  /\ cur \in Task /\ nt \in {"-", "none", "busy", "long"}
  /\ pc \in [Task -> {"run", "TaskSleep", "lock_enter"}]
  /\ slot \in [Task -> {"free", "valid", "removed"}]
  /\ stopped \in [Task -> BOOLEAN]
  /\ sleeping \in [Task -> BOOLEAN]
  /\ wakeup \in [Task -> BOOLEAN]
  /\ timer \in [Task -> Timer]
  /\ pending_sleep \in [Task -> BOOLEAN]
  /\ pending_usec \in [Task -> BOOLEAN]
  /\ priority \in [Task -> Prio]
  /\ saved_priority \in [Task -> Prio \cup {0}]
  /\ inverted \in [Task -> BOOLEAN]
  /\ busy_wait \in [Task -> BOOLEAN]
  /\ long_run \in [Task -> BOOLEAN]
  /\ TaskQ \in [Prio -> TaskQueue]
  /\ token \in [Task -> Nat]
  /\ wait \in [Task -> Lock \cup {NoLock}]
  /\ hold \in [Task -> Lock \cup {NoLock}]
  /\ waiting \in [Task -> BOOLEAN]
  /\ enter \in [Lock -> Nat]
  /\ leave \in [Lock -> Nat]
  /\ owner \in [Lock -> Task \cup {NoTask}]
  /\ users \in [Lock -> SUBSET Task]

(* A lock excludes: the task that holds it is its owner, the owner holds   *)
(* it, and it is the owner's turn, although tokens are swapped between     *)
(* waiters and the owner may sleep or be preempted in the middle           *)
(* (lock_enter: assert(owner->lock.token == lock->leave), and              *)
(* assert(token == lock->leave) on the way out).                           *)
Exclusion ==
  \A l \in Lock :
    /\ \A t \in Task : hold[t] = l => owner[l] = t
    /\ owner[l] # NoTask => /\ hold[owner[l]] = l
                            /\ owner[l] \in users[l]
                            /\ token[owner[l]] = leave[l]

(* No token is lost or handed out twice: the tokens of a lock's users are  *)
(* those from leave to enter - 1, so the search of lock_enter() for the    *)
(* lowest one (assert(lp != NULL)) finds a task and every user's turn      *)
(* comes.                                                                  *)
TokensAccountedFor ==
  \A l \in Lock :
    /\ leave[l] <= enter[l]
    /\ \A u \in users[l] : token[u] \in leave[l]..(enter[l] - 1)
    /\ \A k \in leave[l]..(enter[l] - 1) : \E u \in users[l] : token[u] = k
    /\ \A u, v \in users[l] : token[u] = token[v] => u = v

(* No hung lock, the condition lock_check() panics on: of the users of a   *)
(* lock, the one whose turn it is owns it or is able to run and take it.   *)
NoHungLock ==
  \A l \in Lock : users[l] # {} =>
    \E u \in users[l] : /\ token[u] = leave[l] /\ slot[u] = "valid"
                        /\ owner[l] = u \/ ~stopped[u]

(* A task that cannot run is asleep, or waits for a lock that somebody     *)
(* will leave, who will then wake it: it is among the lock's users with    *)
(* its waiting flag up, and it is never asleep (lock_enter: "a lock        *)
(* _waiter_ should never be sleeping", _TaskWakeup:                        *)
(* assert(!t->stopped || (t->stopped && t->lock.wait))).                   *)
StoppedTaskHasWaker ==
  \A t \in Valid :
    /\ stopped[t] /\ ~sleeping[t] =>
         /\ wait[t] # NoLock /\ waiting[t]
         /\ \E u \in users[wait[t]] : token[u] < token[t]
    /\ wait[t] # NoLock => ~sleeping[t] /\ t \in users[wait[t]]

(* A priority raised for the sake of a lock's waiter is given back: a task *)
(* that holds no lock has the priority it was created with.                *)
PriorityGivenBack ==
  \A t \in Valid : hold[t] = NoLock =>
    priority[t] = BasePrio[t] /\ ~inverted[t]

(* The task queues hold every valid task once, at its current priority,    *)
(* also after a priority inversion moved it or a task was removed by       *)
(* another one, and no queue's round robin restarts from a task that left. *)
QueuesConsistent ==
  \A p \in Prio :
    LET q == TaskQ[p].tasks
    IN  /\ Range(q) = {t \in Valid : priority[t] = p}
        /\ \A i, j \in DOMAIN q : q[i] = q[j] => i = j
        /\ TaskQ[p].last_run # NoTask => TaskQ[p].last_run \in Range(q)

(* A sleep requested by TaskSleepID() of a task in a lock is not left      *)
(* pending after the task is out of the lock.                              *)
PendingSleepServed ==
  \A t \in Valid : pending_sleep[t] => hold[t] # NoLock \/ wait[t] # NoLock

(* A task woken up by TaskWakeup() or the scheduler is able to run until   *)
(* it runs: the flag that ends the loop of _TaskSleep() is never up on a   *)
(* task that sleeps (TWF_CHECK_WAKING: assert(!t->wakeup)), and a task in  *)
(* that loop is resumed only with the flag up.                             *)
WakeupMakesRunnable ==
  \A t \in Valid :
    /\ sleeping[t] => stopped[t] /\ ~wakeup[t]
    /\ pc[t] = "TaskSleep" => (wakeup[t] <=> ~stopped[t])

(* Every lock is a lock in which the most urgent contender goes first:     *)
(* mutual exclusion, no waiting for a lock that nobody wants, and every    *)
(* grant to a task of the highest priority among the contenders, whatever  *)
(* the order they arrived in (LOCK_PRIORITY_SWAP: "If we're higher         *)
(* priority than lowest token waiter swap tokens with them so we'll run    *)
(* before they do").                                                       *)
Abstract(l) == INSTANCE PriorityLock WITH
  Client <- Task, None <- NoTask, Rank <- BasePrio,
  holder <- owner[l], contenders <- users[l] \ {owner[l]}

LocksArePriorityLocks ==
  /\ \A l \in Lock : Abstract(l)!Init
  /\ [][\A l \in Lock : [Abstract(l)!Next]_(Abstract(l)!lock)]_vars

(* Locks serve their users in the order of their arrival: "critical        *)
(* section "first come, first served"", the heading of the locks' code.    *)
FirstComeFirstServed ==
  [][\A l \in Lock : \A u \in users[l] \cap users'[l] :
       /\ \A v \in users[l] \cap users'[l] :
            token[u] < token[v] => token'[u] < token'[v]
       /\ \A v \in users'[l] \ users[l] : token'[u] < token'[v]]_vars

(* Every task that waits for a lock gets it.  With tasks of one priority:  *)
(* a lock_leave() that hands over to the next token, and a scheduler that  *)
(* goes round the queue, starve nobody.                                    *)
EveryWaiterServed ==
  \A t \in Task : wait[t] # NoLock ~> hold[t] # NoLock
---------------------------------------------------------------------------
(* The inductive invariant: what ties the fields of TASK.lock to those of  *)
(* lock_t at the places where the processor can be lost.                   *)

UsersAreInLock ==
  \A t \in Task :
    /\ pc[t] = "lock_enter" <=> wait[t] # NoLock
    /\ hold[t] = NoLock \/ wait[t] = NoLock
    /\ \A l \in Lock : t \in users[l] <=> (wait[t] = l \/ hold[t] = l)
    /\ InLock(t) => slot[t] = "valid"

PrioritiesSaved ==
  \A t \in Task :
    IF inverted[t]
    THEN hold[t] # NoLock /\ saved_priority[t] = BasePrio[t]
    ELSE priority[t] = BasePrio[t]

WaitersAwaitTurn ==
  \A t \in Task :
    /\ wait[t] # NoLock =>
         /\ ~sleeping[t]
         /\ stopped[t] => waiting[t] /\ token[t] > leave[wait[t]]
    /\ slot[t] = "valid" /\ stopped[t] /\ ~sleeping[t] => wait[t] # NoLock

CurrentTaskValid ==
  /\ nt = "-" => slot[cur] = "valid"
  /\ nt = "busy" => BusyHelper \in Valid

SleepersStopped ==
  /\ \A t \in Task : sleeping[t] => stopped[t]
  /\ nt = "-" => ~stopped[cur]

(* The facts above hold together in every state and each step relies on    *)
(* all of them: a stopped waiter has its waiting flag up and its turn is   *)
(* still to come, whoever swapped tokens with it, woke it or tried to put  *)
(* it to sleep meanwhile.                                                  *)
IndInv == /\ TypeOK /\ Exclusion /\ TokensAccountedFor
          /\ UsersAreInLock /\ PrioritiesSaved /\ WaitersAwaitTurn
          /\ CurrentTaskValid /\ SleepersStopped
=============================================================================
