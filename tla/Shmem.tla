------------------------------- MODULE Shmem -------------------------------
(***************************************************************************)
(* Handing work to child processes through shared memory and a signal      *)
(* (support/shmem.cpp).                                                    *)
(*                                                                         *)
(* The server and its children run in parallel, so a step is one access to *)
(* the shared words request[] and done[].  The server's tasks share one    *)
(* thread: cur is the use of a channel that is being executed in           *)
(* shmem_ipc_invoke() or shmem_ipc_poll(), and no other task runs until it *)
(* sleeps or leaves.  The words are plain variables that two processes     *)
(* access without synchronisation: where one statement stores two of them, *)
(* or one expression loads two of them, either may come first.             *)
(***************************************************************************)
EXTENDS Naturals, FiniteSets

CONSTANTS Ipc,         \* the channels, one signal and one child each
          N,           \* a channel serves the calls numbered 0..N-1
          Use,         \* the pairs <<channel, which>> in use
          NoWait,      \* the uses that call with NO_WAIT and then poll
          Abandoned,   \* the uses whose polling task may get removed
          MaxPending,  \* the instances of a signal that the kernel queues
          None

Which == 0..(N - 1)

ASSUME UseAssumption ==
  /\ N \in Nat \ {0}
  /\ Use \subseteq Ipc \X Which
  /\ NoWait \subseteq Use /\ Abandoned \subseteq NoWait
  /\ None \notin Use
  /\ MaxPending \in Nat \ {0}

VARIABLES
  cur,              \* the use whose task executes, or None
  pc,               \* pc[u]: the next statement of the task of the use u
  request, done,    \* the words of shmem_ipc_t, by use
  no_wait,
  which_hiwat,      \* by channel
  pending,          \* by channel: the signals sent and not yet delivered
  child_signalled,
  cpc, i,           \* by channel: the child's next statement, its loop index
  ran               \* history: func ran since the last invoke of the use

parent == <<cur, pc>>
words  == <<request, done, no_wait, which_hiwat>>
child  == <<child_signalled, cpc, i>>
vars   == <<parent, words, pending, child, ran>>

Asleep == {"idle", "asleep", "poll"}

At(u, s) == cur = u /\ pc[u] = s
Goto(u, s) == /\ pc' = [pc EXCEPT ![u] = s]
              /\ cur' = IF s \in Asleep THEN None ELSE u

\* kill(): an instance of the signal beyond those the kernel queues is merged.
Signal(s) ==
  pending' = [pending EXCEPT ![s] = IF @ < MaxPending THEN @ + 1 ELSE @]
---------------------------------------------------------------------------
(* The server: shmem_ipc_invoke() and shmem_ipc_poll().                    *)

\* A NO_WAIT caller's next call comes minutes after the last one: by then
\* the child is past the two stores that end its work.
Settled(u) ==
  u \in NoWait => ~(i[u[1]] = u[2] /\ cpc[u[1]] \in {"no_wait", "unrequest"})

\* Faulty variants: the child scans as far as the last call, or past the end.
HiWater_Last(u) == u[2]
HiWater_PastEnd(u) == u[2] + 1

HiWater(u) ==
  IF u[2] > which_hiwat[u[1]] THEN u[2] ELSE which_hiwat[u[1]]

\* Up to the reentrancy check; a request still up is a panic.
shmem_ipc_invoke(u) ==
  /\ cur = None /\ pc[u] = "idle" /\ Settled(u)
  /\ which_hiwat' = [which_hiwat EXCEPT ![u[1]] = HiWater(u)]
  /\ Goto(u, IF request[u] # 0 THEN "panic" ELSE "request")
  /\ UNCHANGED <<request, done, no_wait, pending, child, ran>>

Request(u) ==
  /\ At(u, "request")
  /\ request' = [request EXCEPT ![u] = 1]
  /\ ran' = [ran EXCEPT ![u] = FALSE]
  /\ Goto(u, "no_wait")
  /\ UNCHANGED <<done, no_wait, which_hiwat, pending, child>>

SetNoWait(u) ==
  /\ At(u, "no_wait")
  /\ no_wait' = [no_wait EXCEPT ![u] = u \in NoWait]
  /\ Goto(u, "kill")
  /\ UNCHANGED <<request, done, which_hiwat, pending, child, ran>>

Kill(u) ==
  /\ At(u, "kill")
  /\ Signal(u[1])
  /\ Goto(u, IF u \in NoWait THEN "poll" ELSE "test")
  /\ UNCHANGED <<words, child, ran>>

\* The loop around TaskSleepWakeupTest(): the scheduler wakes the task when
\* it sees done set, or for another reason.
TestDone(u) ==
  /\ \/ At(u, "test")
     \/ cur = None /\ pc[u] = "asleep"
  /\ Goto(u, IF done[u] = 0 THEN "asleep" ELSE "clear")
  /\ UNCHANGED <<words, pending, child, ran>>

shmem_ipc_poll(u) ==
  /\ cur = None /\ pc[u] = "poll"
  /\ done[u] # 0
  /\ Goto(u, "clear")
  /\ UNCHANGED <<words, pending, child, ran>>

\* Faulty variant: only the request is taken back.
Clear_KeepsDone(u) ==
  /\ At(u, "clear") /\ Goto(u, "idle")
  /\ request' = [request EXCEPT ![u] = 0]
  /\ UNCHANGED <<done, no_wait, which_hiwat, pending, child, ran>>

\* Faulty variant: the request is left to the child.
Clear_KeepsRequest(u) ==
  /\ At(u, "clear") /\ Goto(u, "idle")
  /\ done' = [done EXCEPT ![u] = 0]
  /\ UNCHANGED <<request, no_wait, which_hiwat, pending, child, ran>>

\* "request = done = 0" and "done = request = 0": two stores.
Clear(u) ==
  /\ \/ /\ At(u, "clear") /\ Goto(u, "clear_request")
        /\ done' = [done EXCEPT ![u] = 0]
        /\ UNCHANGED request
     \/ /\ At(u, "clear") /\ Goto(u, "clear_done")
        /\ request' = [request EXCEPT ![u] = 0]
        /\ UNCHANGED done
     \/ /\ At(u, "clear_done") /\ Goto(u, "idle")
        /\ done' = [done EXCEPT ![u] = 0]
        /\ UNCHANGED request
     \/ /\ At(u, "clear_request") /\ Goto(u, "idle")
        /\ request' = [request EXCEPT ![u] = 0]
        /\ UNCHANGED done
  /\ UNCHANGED <<no_wait, which_hiwat, pending, child, ran>>

\* The task that polls is removed (wspr_close()), the request stays.
Abandon(u) ==
  /\ cur = None /\ pc[u] = "poll" /\ u \in Abandoned
  /\ Goto(u, "idle")
  /\ UNCHANGED <<words, pending, child, ran>>
---------------------------------------------------------------------------
(* The child of the channel s: shmem_child_task().                         *)

CAt(s, l) == cpc[s] = l
CGoto(s, l) == cpc' = [cpc EXCEPT ![s] = l]
Item(s) == <<s, i[s]>>

\* The loop goes on with the next call number.
NextItem(s) == /\ CGoto(s, "scan")
               /\ i' = [i EXCEPT ![s] = @ + 1]

\* Faulty variant: the signal is not blocked outside sigsuspend().
Deliver_Anywhere(s) ==
  /\ pending[s] > 0
  /\ pending' = [pending EXCEPT ![s] = @ - 1]
  /\ child_signalled' = [child_signalled EXCEPT ![s] = TRUE]
  /\ UNCHANGED <<parent, words, cpc, i, ran>>

\* sigsuspend() lets one signal in, whose handler sets the flag.
Deliver(s) ==
  /\ CAt(s, "suspend") /\ ~child_signalled[s]
  /\ pending[s] > 0
  /\ pending' = [pending EXCEPT ![s] = @ - 1]
  /\ child_signalled' = [child_signalled EXCEPT ![s] = TRUE]
  /\ UNCHANGED <<parent, words, cpc, i, ran>>

StartScan(s) ==
  /\ CAt(s, "suspend") /\ child_signalled[s]
  /\ CGoto(s, "scan") /\ i' = [i EXCEPT ![s] = 0]
  /\ UNCHANGED <<parent, words, pending, child_signalled, ran>>

\* "request[i] > done[i]": two loads.  A word that decides the comparison
\* alone (request 0, done 1) ends it.
Compare(s) ==
  /\ i[s] <= which_hiwat[s] /\ Item(s) \in Use
  /\ \/ CAt(s, "scan") /\ IF request[Item(s)] = 0
                          THEN NextItem(s)
                          ELSE CGoto(s, "load_done") /\ UNCHANGED i
     \/ CAt(s, "scan") /\ IF done[Item(s)] = 1
                          THEN NextItem(s)
                          ELSE CGoto(s, "load_request") /\ UNCHANGED i
     \/ CAt(s, "load_done") /\ IF done[Item(s)] = 1
                               THEN NextItem(s)
                               ELSE CGoto(s, "func") /\ UNCHANGED i
     \/ CAt(s, "load_request") /\ IF request[Item(s)] = 0
                                  THEN NextItem(s)
                                  ELSE CGoto(s, "func") /\ UNCHANGED i
  /\ UNCHANGED <<parent, words, pending, child_signalled, ran>>

\* A call number nobody uses has request 0.
SkipUnused(s) ==
  /\ CAt(s, "scan") /\ i[s] <= which_hiwat[s] /\ Item(s) \notin Use
  /\ NextItem(s)
  /\ UNCHANGED <<parent, words, pending, child_signalled, ran>>

\* The end of func(i).
Func(s) ==
  /\ CAt(s, "func") /\ CGoto(s, "done")
  /\ ran' = [ran EXCEPT ![Item(s)] = TRUE]
  /\ UNCHANGED <<parent, words, pending, child_signalled, i>>

SetDone(s) ==
  /\ CAt(s, "done") /\ CGoto(s, "no_wait")
  /\ done' = [done EXCEPT ![Item(s)] = 1]
  /\ UNCHANGED <<parent, request, no_wait, which_hiwat, pending,
                 child_signalled, i, ran>>

TestNoWait(s) ==
  /\ CAt(s, "no_wait")
  /\ IF no_wait[Item(s)] THEN CGoto(s, "unrequest") /\ UNCHANGED i
                         ELSE NextItem(s)
  /\ UNCHANGED <<parent, words, pending, child_signalled, ran>>

Unrequest(s) ==
  /\ CAt(s, "unrequest") /\ NextItem(s)
  /\ request' = [request EXCEPT ![Item(s)] = 0]
  /\ UNCHANGED <<parent, done, no_wait, which_hiwat, pending,
                 child_signalled, ran>>

Unsignal(s) ==
  /\ CAt(s, "scan") /\ i[s] > which_hiwat[s]
  /\ CGoto(s, "suspend")
  /\ child_signalled' = [child_signalled EXCEPT ![s] = FALSE]
  /\ i' = [i EXCEPT ![s] = 0]
  /\ UNCHANGED <<parent, words, pending, ran>>
---------------------------------------------------------------------------
\* shmem_ipc_setup(): everything zero, the child waiting for its signal.
Init ==
  /\ cur = None
  /\ pc = [u \in Use |-> "idle"]
  /\ request = [u \in Use |-> 0]
  /\ done = [u \in Use |-> 0]
  /\ no_wait = [u \in Use |-> FALSE]
  /\ which_hiwat = [s \in Ipc |-> 0]
  /\ pending = [s \in Ipc |-> 0]
  /\ child_signalled = [s \in Ipc |-> FALSE]
  /\ cpc = [s \in Ipc |-> "suspend"]
  /\ i = [s \in Ipc |-> 0]
  /\ ran = [u \in Use |-> FALSE]

ParentStep(u) ==
  \/ Request(u) \/ SetNoWait(u) \/ Kill(u) \/ TestDone(u)
  \/ shmem_ipc_poll(u) \/ Clear(u)

ChildStep(s) ==
  \/ Deliver(s) \/ StartScan(s) \/ Compare(s) \/ SkipUnused(s) \/ Func(s)
  \/ SetDone(s) \/ TestNoWait(s) \/ Unrequest(s) \/ Unsignal(s)

Next ==
  \/ \E u \in Use : shmem_ipc_invoke(u) \/ ParentStep(u) \/ Abandon(u)
  \/ \E s \in Ipc : ChildStep(s)

Spec == Init /\ [][Next]_vars

(* The child is a process of its own and the server's tasks are scheduled: *)
(* each of them goes on, also where it can only while no other task runs.  *)
(* Nobody has to call.                                                     *)
Fairness ==
  /\ \A u \in Use : SF_vars(ParentStep(u))
  /\ \A s \in Ipc : WF_vars(ChildStep(s))

FairSpec == Spec /\ Fairness
---------------------------------------------------------------------------
(* Type correctness.                                                       *)
TypeOK ==
  /\ cur \in Use \cup {None}
  /\ pc \in [Use -> Asleep \cup {"request", "no_wait", "kill", "test", "clear",
                                 "clear_done", "clear_request", "panic"}]
  /\ request \in [Use -> 0..1] /\ done \in [Use -> 0..1]
  /\ no_wait \in [Use -> BOOLEAN]
  /\ which_hiwat \in [Ipc -> Which]
  /\ pending \in [Ipc -> Nat]
  /\ child_signalled \in [Ipc -> BOOLEAN]
  /\ cpc \in [Ipc -> {"suspend", "scan", "load_done", "load_request", "func",
                      "done", "no_wait", "unrequest"}]
  /\ i \in [Ipc -> 0..N]
  /\ ran \in [Use -> BOOLEAN]

Called(u) == pc[u] \notin {"idle", "request", "panic"}

(* The shared data is handed over: while the child runs func(which) the    *)
(* caller of which is waiting for it, and it is the first run of that call *)
(* (shmem_ipc_invoke: "invoke compute_frame()", one run per call).         *)
HandOver ==
  \A s \in Ipc : cpc[s] = "func" =>
    /\ pc[Item(s)] \in {"no_wait", "kill", "test", "asleep", "poll"}
    /\ ~ran[Item(s)]

(* shmem_ipc_invoke() never meets its own earlier request, which would be  *)
(* the panic "reentrant": the child clears the request of a caller that is *)
(* not waiting "so the caller doesn't get a reentrancy fault".             *)
NotReentrant == \A u \in Use : pc[u] # "panic"

(* No request is forgotten: one that was signalled and is not done will be *)
(* found by a scan, the one in progress or one that a signal in the queue  *)
(* starts ("no race with set in child since child_sig blocked").           *)
RequestNotForgotten ==
  \A u \in Use : pc[u] \in {"test", "asleep", "poll"} /\ done[u] = 0 =>
    LET s == u[1]
    IN  \/ pending[s] > 0
        \/ child_signalled[s] /\ (i[s] <= u[2] \/ cpc[s] = "suspend")

\* The uses with a channel of their own: no other call makes the child look
\* at their words.
Alone == {u \in Use : \A v \in Use : v[1] = u[1] => v = u}

(* A call carries through the phases of a remote call: a call that returns *)
(* or is polled as done was served by one run of func, made after it was   *)
(* requested.  On a shared channel one call can be served twice (HandOver).*)
PhaseOf(u) ==
  IF cpc[u[1]] = "func" /\ i[u[1]] = u[2] THEN "running"
  ELSE IF ~Called(u) THEN "idle"
  ELSE IF ran[u] THEN "served" ELSE "called"

Abstract == INSTANCE RemoteCall WITH
  Use <- Alone, phase <- [u \in Alone |-> PhaseOf(u)]

EachCallServedOnce == Abstract!Spec

(* Every call returns: neither the signal of a call made while the child   *)
(* scans nor the wakeup of a caller about to sleep is lost.                *)
EveryCallReturns == \A u \in Use : pc[u] = "request" ~> pc[u] = "idle"
=============================================================================
