---------------------------- MODULE Shmem_proofs ----------------------------
(***************************************************************************)
(* Safety of the calls through shared memory, for every set of channels    *)
(* and of uses, whichever of them poll, and every queue of signals.        *)
(***************************************************************************)
EXTENDS Shmem, TLAPS

InLoop  == {"load_done", "load_request", "func", "done", "no_wait", "unrequest"}
Ending  == {"no_wait", "unrequest"}
Waiting == {"test", "asleep", "poll"}

(* The child works on a call number in use, below the high-water mark, and *)
(* only the polled calls have a request to be taken back.                  *)
ChildOnUse ==
  \A s \in Ipc :
    /\ cpc[s] \in InLoop => i[s] <= which_hiwat[s] /\ Item(s) \in Use
    /\ cpc[s] # "suspend" => child_signalled[s]
    /\ cpc[s] = "unrequest" => Item(s) \in NoWait

(* The high-water mark covers every call made.                             *)
CallerKnown ==
  \A u \in Use :
    /\ pc[u] # "idle" => u[2] <= which_hiwat[u[1]]
    /\ no_wait[u] => u \in NoWait
    /\ pc[u] \in {"test", "asleep"} => u \notin NoWait
    /\ pc[u] = "poll" => u \in NoWait

Base == TypeOK /\ ChildOnUse /\ CallerKnown

(* The scan in progress, or the one about to start, comes to the use u.    *)
Pursued(u) ==
  LET s == u[1]
  IN  /\ child_signalled[s]
      /\ \/ cpc[s] = "suspend" \/ i[s] < u[2]
         \/ i[s] = u[2] /\ cpc[s] \notin Ending

Active(u) == pending[u[1]] > 0 \/ Pursued(u)

(* A request stays up until its call is done, and the child that takes it  *)
(* back takes back that one.                                               *)
RequestUp ==
  \A u \in Use :
    /\ pc[u] \in {"no_wait", "kill"} \cup Waiting /\ done[u] = 0
       => request[u] = 1
    /\ /\ u \in NoWait /\ Item(u[1]) = u /\ cpc[u[1]] \in Ending
       /\ pc[u] \in {"request", "no_wait", "kill", "poll"}
       => done[u] = 1

(* The caller that waits is found.                                         *)
WaiterFound ==
  \A u \in Use : pc[u] \in Waiting /\ done[u] = 0 => Active(u)

FoundInv == Base /\ RequestUp /\ WaiterFound

(* A caller that is never removed takes its own request back.              *)
RequestTakenBack ==
  \A u \in Use \ Abandoned :
    /\ pc[u] \in {"idle", "clear_done"} => request[u] = 0
    /\ pc[u] # "panic"

(* A channel with one use: its child is signalled once for each call, and  *)
(* func has run when the call is done.                                     *)
ServedAt(u) ==
  LET s == u[1]
  IN  /\ Active(u) => pc[u] \in Waiting /\ done[u] = 0
      /\ pending[s] <= 1
      /\ pending[s] > 0 => ~Pursued(u)
      /\ pc[u] \in {"idle", "request", "no_wait", "kill", "clear_request"}
         => done[u] = 0
      /\ pc[u] \in {"no_wait", "kill"} => ~ran[u]
      /\ pc[u] \in Waiting => (ran[u] <=> \/ done[u] = 1
                                          \/ cpc[s] = "done" /\ i[s] = u[2])
      /\ pc[u] \in {"clear", "clear_done", "clear_request"} => ran[u]
      /\ u \in NoWait /\ i[s] = u[2] /\ cpc[s] \in Ending
         => pc[u] \notin {"request", "no_wait", "kill"}

ServedOnce == \A u \in Alone \ Abandoned : ServedAt(u)

ServedInv == FoundInv /\ RequestTakenBack /\ ServedOnce
---------------------------------------------------------------------------
(* A use is a pair of a channel and a call number.                         *)
LEMMA UseShape ==
  /\ \A u \in Use : u[1] \in Ipc /\ u[2] \in 0..(N - 1) /\ u = <<u[1], u[2]>>
  /\ N \in Nat \ {0}
  BY UseAssumption DEF Which

(* The child is at the call number of a use.                               *)
LEMMA ItemIs ==
  \A u \in Use : \A s \in Ipc : Item(s) = u <=> s = u[1] /\ i[s] = u[2]
  BY UseShape DEF Item

(* Another use of the channel of an alone use is that use.                 *)
LEMMA AloneIs ==
  \A u \in Alone : u \in Use /\ \A v \in Use : v[1] = u[1] => v = u
  BY DEF Alone

(* A step that leaves a use and its channel alone.                         *)
LEMMA ServedFrame ==
  ASSUME NEW u \in Use,
         pc'[u] = pc[u], done'[u] = done[u], ran'[u] = ran[u],
         pending'[u[1]] = pending[u[1]], cpc'[u[1]] = cpc[u[1]],
         i'[u[1]] = i[u[1]], child_signalled'[u[1]] = child_signalled[u[1]],
         ServedAt(u)
  PROVE  ServedAt(u)'
  BY DEF ServedAt, Active, Pursued

LEMMA InitServed == Init => ServedInv
<1> SUFFICES ASSUME Init PROVE ServedInv
  OBVIOUS
<1> USE UseShape, UseAssumption DEF Init
<1>1. Base
  BY DEF Base, TypeOK, Asleep, Which, ChildOnUse, CallerKnown, InLoop
<1>2. RequestUp /\ WaiterFound /\ RequestTakenBack
  BY DEF RequestUp, WaiterFound, RequestTakenBack, Waiting, Ending
<1>3. ServedOnce
  BY AloneIs DEF ServedOnce, ServedAt, Active, Pursued, Waiting, Ending
<1>4. QED BY <1>1, <1>2, <1>3 DEF ServedInv, FoundInv

LEMMA InvokeStep ==
  ASSUME ServedInv, NEW u \in Use, shmem_ipc_invoke(u)
  PROVE  ServedInv'
<1> USE UseShape, UseAssumption DEF ServedInv, FoundInv, shmem_ipc_invoke, At, Goto, parent, words, child, Settled, HiWater
<1>1. TypeOK'
  BY ItemIs DEF Base, TypeOK, Asleep, Which, ChildOnUse, InLoop
<1>2. ChildOnUse'
  BY ItemIs DEF Base, TypeOK, Which, ChildOnUse, InLoop, Item, CallerKnown
<1>3. CallerKnown'
  BY ItemIs DEF Base, TypeOK, Which, CallerKnown
<1>4. RequestUp'
  BY ItemIs DEF Base, TypeOK, Asleep, ChildOnUse, CallerKnown, RequestUp, Waiting, Ending, Item
<1>5. WaiterFound'
  BY ItemIs DEF Base, TypeOK, Asleep, ChildOnUse, CallerKnown, RequestUp, WaiterFound, Active, Pursued, Waiting, Ending, InLoop
<1>6. RequestTakenBack'
  BY ItemIs DEF Base, TypeOK, ChildOnUse, RequestTakenBack
<1>7. ServedOnce'
  <2> SUFFICES ASSUME NEW w \in Alone \ Abandoned PROVE ServedAt(w)'
    BY DEF ServedOnce
  <2>1. /\ ServedAt(w) /\ w \in Use
        /\ \A v \in Use : v[1] = w[1] => v = w
    BY AloneIs DEF ServedOnce
  <2>2. CASE w # u
    BY <2>1, <2>2, ServedFrame, ItemIs DEF Base, TypeOK, ChildOnUse, InLoop
  <2>3. CASE w = u
    BY SMTT(20), <2>1, <2>3, ItemIs DEF Base, TypeOK, ChildOnUse, CallerKnown, RequestUp, WaiterFound, RequestTakenBack, ServedAt, Active, Pursued, Waiting, Ending, InLoop
  <2>4. QED BY <2>2, <2>3
<1>8. QED BY <1>1, <1>2, <1>3, <1>4, <1>5, <1>6, <1>7 DEF Base

LEMMA RequestStep ==
  ASSUME ServedInv, NEW u \in Use, Request(u)
  PROVE  ServedInv'
<1> USE UseShape, UseAssumption DEF ServedInv, FoundInv, Request, At, Goto, parent, words, child
<1>1. TypeOK'
  BY ItemIs DEF Base, TypeOK, Asleep, Which, ChildOnUse, InLoop
<1>2. ChildOnUse'
  BY ItemIs DEF Base, TypeOK, Which, ChildOnUse, InLoop, Item, CallerKnown
<1>3. CallerKnown'
  BY ItemIs DEF Base, TypeOK, Which, CallerKnown
<1>4. RequestUp'
  BY ItemIs DEF Base, TypeOK, Asleep, ChildOnUse, CallerKnown, RequestUp, Waiting, Ending, Item
<1>5. WaiterFound'
  BY ItemIs DEF Base, TypeOK, Asleep, ChildOnUse, CallerKnown, RequestUp, WaiterFound, Active, Pursued, Waiting, Ending, InLoop
<1>6. RequestTakenBack'
  BY ItemIs DEF Base, TypeOK, ChildOnUse, RequestTakenBack
<1>7. ServedOnce'
  <2> SUFFICES ASSUME NEW w \in Alone \ Abandoned PROVE ServedAt(w)'
    BY DEF ServedOnce
  <2>1. /\ ServedAt(w) /\ w \in Use
        /\ \A v \in Use : v[1] = w[1] => v = w
    BY AloneIs DEF ServedOnce
  <2>2. CASE w # u
    <3>1. /\ pc'[w] = pc[w] /\ done'[w] = done[w] /\ ran'[w] = ran[w]
          /\ pending'[w[1]] = pending[w[1]] /\ cpc'[w[1]] = cpc[w[1]]
          /\ i'[w[1]] = i[w[1]] /\ child_signalled'[w[1]] = child_signalled[w[1]]
      BY <2>1, <2>2, ItemIs DEF Base, TypeOK, ChildOnUse, InLoop
    <3>2. QED BY <2>1, <3>1, ServedFrame
  <2>3. CASE w = u
    <3>1. /\ pc[u] = "request" /\ pc'[u] = "no_wait" /\ ran'[u] = FALSE
          /\ UNCHANGED <<done, pending, child>>
      BY DEF Base, TypeOK
    <3> HIDE DEF Request, child
    <3>2. QED
      BY <2>1, <2>3, <3>1 DEF ServedAt, Active, Pursued, Waiting, child
  <2>4. QED BY <2>2, <2>3
<1>8. QED BY <1>1, <1>2, <1>3, <1>4, <1>5, <1>6, <1>7 DEF Base

LEMMA SetNoWaitStep ==
  ASSUME ServedInv, NEW u \in Use, SetNoWait(u)
  PROVE  ServedInv'
<1> USE UseShape, UseAssumption DEF ServedInv, FoundInv, SetNoWait, At, Goto, parent, words, child
<1>1. TypeOK'
  BY ItemIs DEF Base, TypeOK, Asleep, Which, ChildOnUse, InLoop
<1>2. ChildOnUse'
  BY ItemIs DEF Base, TypeOK, Which, ChildOnUse, InLoop, Item, CallerKnown
<1>3. CallerKnown'
  BY ItemIs DEF Base, TypeOK, Which, CallerKnown
<1>4. RequestUp'
  BY ItemIs DEF Base, TypeOK, Asleep, ChildOnUse, CallerKnown, RequestUp, Waiting, Ending, Item
<1>5. WaiterFound'
  BY ItemIs DEF Base, TypeOK, Asleep, ChildOnUse, CallerKnown, RequestUp, WaiterFound, Active, Pursued, Waiting, Ending, InLoop
<1>6. RequestTakenBack'
  BY ItemIs DEF Base, TypeOK, ChildOnUse, RequestTakenBack
<1>7. ServedOnce'
  <2> SUFFICES ASSUME NEW w \in Alone \ Abandoned PROVE ServedAt(w)'
    BY DEF ServedOnce
  <2>1. /\ ServedAt(w) /\ w \in Use
        /\ \A v \in Use : v[1] = w[1] => v = w
    BY AloneIs DEF ServedOnce
  <2>2. CASE w # u
    BY <2>1, <2>2, ServedFrame, ItemIs DEF Base, TypeOK, ChildOnUse, InLoop
  <2>3. CASE w = u
    BY SMTT(20), <2>1, <2>3, ItemIs DEF Base, TypeOK, ChildOnUse, CallerKnown, RequestUp, WaiterFound, RequestTakenBack, ServedAt, Active, Pursued, Waiting, Ending, InLoop
  <2>4. QED BY <2>2, <2>3
<1>8. QED BY <1>1, <1>2, <1>3, <1>4, <1>5, <1>6, <1>7 DEF Base

LEMMA KillStep ==
  ASSUME ServedInv, NEW u \in Use, Kill(u)
  PROVE  ServedInv'
<1> USE UseShape, UseAssumption DEF ServedInv, FoundInv, Kill, At, Goto, parent, words, child, Signal
<1>1. TypeOK'
  BY ItemIs DEF Base, TypeOK, Asleep, Which, ChildOnUse, InLoop
<1>2. ChildOnUse'
  BY ItemIs DEF Base, TypeOK, Which, ChildOnUse, InLoop, Item, CallerKnown
<1>3. CallerKnown'
  BY ItemIs DEF Base, TypeOK, Which, CallerKnown
<1>4. RequestUp'
  BY ItemIs DEF Base, TypeOK, Asleep, ChildOnUse, CallerKnown, RequestUp, Waiting, Ending, Item
<1>5. WaiterFound'
  BY ItemIs DEF Base, TypeOK, Asleep, ChildOnUse, CallerKnown, RequestUp, WaiterFound, Active, Pursued, Waiting, Ending, InLoop
<1>6. RequestTakenBack'
  BY ItemIs DEF Base, TypeOK, ChildOnUse, RequestTakenBack
<1>7. ServedOnce'
  <2> SUFFICES ASSUME NEW w \in Alone \ Abandoned PROVE ServedAt(w)'
    BY DEF ServedOnce
  <2>1. /\ ServedAt(w) /\ w \in Use
        /\ \A v \in Use : v[1] = w[1] => v = w
    BY AloneIs DEF ServedOnce
  <2>2. CASE w # u
    BY <2>1, <2>2, ServedFrame, ItemIs DEF Base, TypeOK, ChildOnUse, InLoop
  <2>3. CASE w = u
    BY SMTT(20), <2>1, <2>3, ItemIs DEF Base, TypeOK, ChildOnUse, CallerKnown, RequestUp, WaiterFound, RequestTakenBack, ServedAt, Active, Pursued, Waiting, Ending, InLoop
  <2>4. QED BY <2>2, <2>3
<1>8. QED BY <1>1, <1>2, <1>3, <1>4, <1>5, <1>6, <1>7 DEF Base

LEMMA TestDoneStep ==
  ASSUME ServedInv, NEW u \in Use, TestDone(u)
  PROVE  ServedInv'
<1> USE UseShape, UseAssumption DEF ServedInv, FoundInv, TestDone, At, Goto, parent, words, child
<1>1. TypeOK'
  BY ItemIs DEF Base, TypeOK, Asleep, Which, ChildOnUse, InLoop
<1>2. ChildOnUse'
  BY ItemIs DEF Base, TypeOK, Which, ChildOnUse, InLoop, Item, CallerKnown
<1>3. CallerKnown'
  BY ItemIs DEF Base, TypeOK, Which, CallerKnown
<1>4. RequestUp'
  BY ItemIs DEF Base, TypeOK, Asleep, ChildOnUse, CallerKnown, RequestUp, Waiting, Ending, Item
<1>5. WaiterFound'
  BY ItemIs DEF Base, TypeOK, Asleep, ChildOnUse, CallerKnown, RequestUp, WaiterFound, Active, Pursued, Waiting, Ending, InLoop
<1>6. RequestTakenBack'
  BY ItemIs DEF Base, TypeOK, ChildOnUse, RequestTakenBack
<1>7. ServedOnce'
  <2> SUFFICES ASSUME NEW w \in Alone \ Abandoned PROVE ServedAt(w)'
    BY DEF ServedOnce
  <2>1. /\ ServedAt(w) /\ w \in Use
        /\ \A v \in Use : v[1] = w[1] => v = w
    BY AloneIs DEF ServedOnce
  <2>2. CASE w # u
    BY <2>1, <2>2, ServedFrame, ItemIs DEF Base, TypeOK, ChildOnUse, InLoop
  <2>3. CASE w = u
    BY SMTT(20), <2>1, <2>3, ItemIs DEF Base, TypeOK, ChildOnUse, CallerKnown, RequestUp, WaiterFound, RequestTakenBack, ServedAt, Active, Pursued, Waiting, Ending, InLoop
  <2>4. QED BY <2>2, <2>3
<1>8. QED BY <1>1, <1>2, <1>3, <1>4, <1>5, <1>6, <1>7 DEF Base

LEMMA PollStep ==
  ASSUME ServedInv, NEW u \in Use, shmem_ipc_poll(u)
  PROVE  ServedInv'
<1> USE UseShape, UseAssumption DEF ServedInv, FoundInv, shmem_ipc_poll, At, Goto, parent, words, child
<1>1. TypeOK'
  BY ItemIs DEF Base, TypeOK, Asleep, Which, ChildOnUse, InLoop
<1>2. ChildOnUse'
  BY ItemIs DEF Base, TypeOK, Which, ChildOnUse, InLoop, Item, CallerKnown
<1>3. CallerKnown'
  BY ItemIs DEF Base, TypeOK, Which, CallerKnown
<1>4. RequestUp'
  BY ItemIs DEF Base, TypeOK, Asleep, ChildOnUse, CallerKnown, RequestUp, Waiting, Ending, Item
<1>5. WaiterFound'
  BY ItemIs DEF Base, TypeOK, Asleep, ChildOnUse, CallerKnown, RequestUp, WaiterFound, Active, Pursued, Waiting, Ending, InLoop
<1>6. RequestTakenBack'
  BY ItemIs DEF Base, TypeOK, ChildOnUse, RequestTakenBack
<1>7. ServedOnce'
  <2> SUFFICES ASSUME NEW w \in Alone \ Abandoned PROVE ServedAt(w)'
    BY DEF ServedOnce
  <2>1. /\ ServedAt(w) /\ w \in Use
        /\ \A v \in Use : v[1] = w[1] => v = w
    BY AloneIs DEF ServedOnce
  <2>2. CASE w # u
    BY <2>1, <2>2, ServedFrame, ItemIs DEF Base, TypeOK, ChildOnUse, InLoop
  <2>3. CASE w = u
    BY SMTT(20), <2>1, <2>3, ItemIs DEF Base, TypeOK, ChildOnUse, CallerKnown, RequestUp, WaiterFound, RequestTakenBack, ServedAt, Active, Pursued, Waiting, Ending, InLoop
  <2>4. QED BY <2>2, <2>3
<1>8. QED BY <1>1, <1>2, <1>3, <1>4, <1>5, <1>6, <1>7 DEF Base

LEMMA ClearStep ==
  ASSUME ServedInv, NEW u \in Use, Clear(u)
  PROVE  ServedInv'
<1> USE UseShape, UseAssumption DEF ServedInv, FoundInv, Clear, At, Goto, parent, words, child
<1>1. TypeOK'
  <2>1. /\ done' \in [Use -> 0..1] /\ request' \in [Use -> 0..1]
        /\ UNCHANGED <<no_wait, which_hiwat, pending, child, ran>>
    BY DEF Base, TypeOK
  <2>2. /\ cur' \in Use \cup {None}
        /\ \E l \in {"idle", "clear_done", "clear_request"} :
             pc' = [pc EXCEPT ![u] = l]
    OBVIOUS
  <2> HIDE DEF Clear
  <2>3. QED BY <2>1, <2>2 DEF Base, TypeOK, Asleep
<1>2. ChildOnUse'
  BY ItemIs DEF Base, TypeOK, Which, ChildOnUse, InLoop, Item, CallerKnown
<1>3. CallerKnown'
  BY ItemIs DEF Base, TypeOK, Which, CallerKnown
<1>4. RequestUp'
  BY ItemIs DEF Base, TypeOK, Asleep, ChildOnUse, CallerKnown, RequestUp, Waiting, Ending, Item
<1>5. WaiterFound'
  BY ItemIs DEF Base, TypeOK, Asleep, ChildOnUse, CallerKnown, RequestUp, WaiterFound, Active, Pursued, Waiting, Ending, InLoop
<1>6. RequestTakenBack'
  BY ItemIs DEF Base, TypeOK, ChildOnUse, RequestTakenBack
<1>7. ServedOnce'
  <2> SUFFICES ASSUME NEW w \in Alone \ Abandoned PROVE ServedAt(w)'
    BY DEF ServedOnce
  <2>1. /\ ServedAt(w) /\ w \in Use
        /\ \A v \in Use : v[1] = w[1] => v = w
    BY AloneIs DEF ServedOnce
  <2>2. CASE w # u
    BY <2>1, <2>2, ServedFrame, ItemIs DEF Base, TypeOK, ChildOnUse, InLoop
  <2>3. CASE w = u
    <3>1. /\ pc[u] \in {"clear", "clear_done", "clear_request"}
          /\ pc'[u] \in {"idle", "clear_done", "clear_request"}
          /\ pc[u] = "clear_done" \/ pc'[u] = "clear_request" => done'[u] = 0
          /\ pc[u] = "clear_request" => done'[u] = done[u]
          /\ pc'[u] = "idle" => pc[u] \in {"clear_done", "clear_request"}
          /\ UNCHANGED <<pending, child, ran>>
      BY DEF Base, TypeOK
    <3> HIDE DEF Clear, child
    <3>2. QED
      BY <2>1, <2>3, <3>1 DEF ServedAt, Active, Pursued, Waiting, child
  <2>4. QED BY <2>2, <2>3
<1>8. QED BY <1>1, <1>2, <1>3, <1>4, <1>5, <1>6, <1>7 DEF Base

LEMMA AbandonStep ==
  ASSUME ServedInv, NEW u \in Use, Abandon(u)
  PROVE  ServedInv'
<1> USE UseShape, UseAssumption DEF ServedInv, FoundInv, Abandon, At, Goto, parent, words, child
<1>1. TypeOK'
  BY ItemIs DEF Base, TypeOK, Asleep, Which, ChildOnUse, InLoop
<1>2. ChildOnUse'
  BY ItemIs DEF Base, TypeOK, Which, ChildOnUse, InLoop, Item, CallerKnown
<1>3. CallerKnown'
  BY ItemIs DEF Base, TypeOK, Which, CallerKnown
<1>4. RequestUp'
  BY ItemIs DEF Base, TypeOK, Asleep, ChildOnUse, CallerKnown, RequestUp, Waiting, Ending, Item
<1>5. WaiterFound'
  BY ItemIs DEF Base, TypeOK, Asleep, ChildOnUse, CallerKnown, RequestUp, WaiterFound, Active, Pursued, Waiting, Ending, InLoop
<1>6. RequestTakenBack'
  BY ItemIs DEF Base, TypeOK, ChildOnUse, RequestTakenBack
<1>7. ServedOnce'
  <2> SUFFICES ASSUME NEW w \in Alone \ Abandoned PROVE ServedAt(w)'
    BY DEF ServedOnce
  <2>1. /\ ServedAt(w) /\ w \in Use
        /\ \A v \in Use : v[1] = w[1] => v = w
    BY AloneIs DEF ServedOnce
  <2>2. CASE w # u
    BY <2>1, <2>2, ServedFrame, ItemIs DEF Base, TypeOK, ChildOnUse, InLoop
  <2>3. CASE w = u
    BY <2>1, <2>3, ItemIs DEF Base, TypeOK, ChildOnUse, CallerKnown, RequestUp, WaiterFound, RequestTakenBack, ServedAt, Active, Pursued, Waiting, Ending, InLoop
  <2>4. QED BY <2>2, <2>3
<1>8. QED BY <1>1, <1>2, <1>3, <1>4, <1>5, <1>6, <1>7 DEF Base

LEMMA DeliverStep ==
  ASSUME ServedInv, NEW s \in Ipc, Deliver(s)
  PROVE  ServedInv'
<1> USE UseShape, UseAssumption DEF ServedInv, FoundInv, Deliver, CAt, CGoto, parent, words, child
<1>1. TypeOK'
  BY ItemIs DEF Base, TypeOK, Asleep, Which, ChildOnUse, InLoop
<1>2. ChildOnUse'
  BY ItemIs DEF Base, TypeOK, Which, ChildOnUse, InLoop, Item, CallerKnown
<1>3. CallerKnown'
  BY ItemIs DEF Base, TypeOK, Which, CallerKnown
<1>4. RequestUp'
  BY ItemIs DEF Base, TypeOK, Asleep, ChildOnUse, CallerKnown, RequestUp, Waiting, Ending, Item
<1>5. WaiterFound'
  BY ItemIs DEF Base, TypeOK, Asleep, ChildOnUse, CallerKnown, RequestUp, WaiterFound, Active, Pursued, Waiting, Ending, InLoop
<1>6. RequestTakenBack'
  BY ItemIs DEF Base, TypeOK, ChildOnUse, RequestTakenBack
<1>7. ServedOnce'
  <2> SUFFICES ASSUME NEW w \in Alone \ Abandoned PROVE ServedAt(w)'
    BY DEF ServedOnce
  <2>1. /\ ServedAt(w) /\ w \in Use
        /\ \A v \in Use : v[1] = w[1] => v = w
    BY AloneIs DEF ServedOnce
  <2>2. CASE w[1] # s
    <3>1. /\ pc'[w] = pc[w] /\ done'[w] = done[w] /\ ran'[w] = ran[w]
          /\ pending'[w[1]] = pending[w[1]] /\ cpc'[w[1]] = cpc[w[1]]
          /\ i'[w[1]] = i[w[1]] /\ child_signalled'[w[1]] = child_signalled[w[1]]
      BY <2>1, <2>2, ItemIs DEF Base, TypeOK, ChildOnUse, InLoop
    <3>2. QED BY <2>1, <3>1, ServedFrame
  <2>3. CASE w[1] = s
    <3>1. /\ pending[s] = 1 /\ pending'[s] = 0 /\ child_signalled'[s]
          /\ ~child_signalled[s] /\ cpc[s] = "suspend"
          /\ UNCHANGED <<parent, words, cpc, i, ran>>
      BY <2>1, <2>3 DEF Base, TypeOK, ServedAt
    <3> HIDE DEF Deliver, parent, words
    <3>2. QED
      BY <2>1, <2>3, <3>1 DEF ServedAt, Active, Pursued, parent, words
  <2>4. QED BY <2>2, <2>3
<1>8. QED BY <1>1, <1>2, <1>3, <1>4, <1>5, <1>6, <1>7 DEF Base

LEMMA StartScanStep ==
  ASSUME ServedInv, NEW s \in Ipc, StartScan(s)
  PROVE  ServedInv'
<1> USE UseShape, UseAssumption DEF ServedInv, FoundInv, StartScan, CAt, CGoto, parent, words, child
<1>1. TypeOK'
  BY ItemIs DEF Base, TypeOK, Asleep, Which, ChildOnUse, InLoop
<1>2. ChildOnUse'
  BY ItemIs DEF Base, TypeOK, Which, ChildOnUse, InLoop, Item, CallerKnown
<1>3. CallerKnown'
  BY ItemIs DEF Base, TypeOK, Which, CallerKnown
<1>4. RequestUp'
  BY ItemIs DEF Base, TypeOK, Asleep, ChildOnUse, CallerKnown, RequestUp, Waiting, Ending, Item
<1>5. WaiterFound'
  BY ItemIs DEF Base, TypeOK, Asleep, ChildOnUse, CallerKnown, RequestUp, WaiterFound, Active, Pursued, Waiting, Ending, InLoop
<1>6. RequestTakenBack'
  BY ItemIs DEF Base, TypeOK, ChildOnUse, RequestTakenBack
<1>7. ServedOnce'
  <2> SUFFICES ASSUME NEW w \in Alone \ Abandoned PROVE ServedAt(w)'
    BY DEF ServedOnce
  <2>1. /\ ServedAt(w) /\ w \in Use
        /\ \A v \in Use : v[1] = w[1] => v = w
    BY AloneIs DEF ServedOnce
  <2>2. CASE w[1] # s
    <3>1. /\ UNCHANGED <<pc, done, ran, pending, child_signalled>>
          /\ cpc' = [cpc EXCEPT ![s] = "scan"]
          /\ i' = [i EXCEPT ![s] = 0]
      <4> HIDE DEF ServedInv
      <4>1. QED OBVIOUS
    <3> HIDE DEF StartScan
    <3>2. /\ cpc'[w[1]] = cpc[w[1]] /\ i'[w[1]] = i[w[1]]
          /\ child_signalled'[w[1]] = child_signalled[w[1]]
      BY <2>1, <2>2, <3>1 DEF Base, TypeOK
    <3> HIDE DEF ServedInv
    <3>3. QED BY <2>1, <3>1, <3>2, ServedFrame
  <2>3. CASE w[1] = s
    BY <2>1, <2>3, ItemIs DEF Base, TypeOK, ChildOnUse, CallerKnown, RequestUp, WaiterFound, RequestTakenBack, ServedAt, Active, Pursued, Waiting, Ending, InLoop
  <2>4. QED BY <2>2, <2>3
<1>8. QED BY <1>1, <1>2, <1>3, <1>4, <1>5, <1>6, <1>7 DEF Base

LEMMA CompareStep ==
  ASSUME ServedInv, NEW s \in Ipc, Compare(s)
  PROVE  ServedInv'
<1> USE UseShape, UseAssumption DEF ServedInv, FoundInv, Compare, CAt, CGoto, parent, words, child, NextItem
<1>a. \/ /\ cpc' = [cpc EXCEPT ![s] = "scan"] /\ i' = [i EXCEPT ![s] = @ + 1]
         /\ request[Item(s)] = 0 \/ done[Item(s)] = 1
      \/ /\ \E l \in {"load_done", "load_request", "func"} :
               cpc' = [cpc EXCEPT ![s] = l]
         /\ i' = i
  OBVIOUS
<1>0. /\ cpc[s] \in {"scan", "load_done", "load_request"}
      /\ Item(s) \in Use /\ i[s] <= which_hiwat[s]
      /\ \/ /\ cpc'[s] = "scan" /\ i'[s] = i[s] + 1
            /\ request[Item(s)] = 0 \/ done[Item(s)] = 1
         \/ cpc'[s] \in {"load_done", "load_request", "func"} /\ i'[s] = i[s]
      /\ \A r \in Ipc : r # s => cpc'[r] = cpc[r] /\ i'[r] = i[r]
      /\ UNCHANGED <<parent, words, pending, child_signalled, ran>>
  <2>1. /\ cpc[s] \in {"scan", "load_done", "load_request"}
        /\ Item(s) \in Use /\ i[s] <= which_hiwat[s]
        /\ UNCHANGED <<parent, words, pending, child_signalled, ran>>
    OBVIOUS
  <2> HIDE DEF Compare
  <2>2. QED BY <2>1, <1>a DEF Base, TypeOK
<1>1. TypeOK'
  <2>1. cpc' \in [Ipc -> {"suspend", "scan", "load_done", "load_request",
                          "func", "done", "no_wait", "unrequest"}]
    <3> HIDE DEF Compare
    <3>1. \E l \in {"scan", "load_done", "load_request", "func"} :
            cpc' = [cpc EXCEPT ![s] = l]
      BY <1>a
    <3>2. QED BY <3>1 DEF Base, TypeOK
  <2>2. i' \in [Ipc -> 0..N]
    <3> HIDE DEF Compare
    <3>1. i' = i \/ i' = [i EXCEPT ![s] = @ + 1]
      BY <1>a
    <3>2. i[s] \in Nat /\ i[s] + 1 <= N
      BY <1>0 DEF Base, TypeOK, Which
    <3>3. QED BY <3>1, <3>2 DEF Base, TypeOK
  <2> HIDE DEF Compare
  <2>3. QED BY <1>0, <2>1, <2>2 DEF Base, TypeOK, Asleep
<1>2. ChildOnUse'
  <2> HIDE DEF Compare
  <2> SUFFICES ASSUME NEW r \in Ipc
               PROVE  /\ cpc'[r] \in InLoop
                         => i'[r] <= which_hiwat'[r] /\ Item(r)' \in Use
                      /\ cpc'[r] # "suspend" => child_signalled'[r]
                      /\ cpc'[r] = "unrequest" => Item(r)' \in NoWait
    BY DEF ChildOnUse
  <2>1. UNCHANGED <<which_hiwat, child_signalled>>
    BY <1>0
  <2>2. CASE r # s
    BY <1>0, <2>1, <2>2 DEF Base, ChildOnUse, Item
  <2>3. CASE r = s
    <3>1. child_signalled[s] /\ \A u \in Use : no_wait[u] => u \in NoWait
      BY <1>0 DEF Base, ChildOnUse, CallerKnown
    <3>2. QED BY <1>0, <2>1, <2>3, <3>1 DEF InLoop, Item
  <2>4. QED BY <2>2, <2>3
<1>3. CallerKnown'
  BY ItemIs DEF Base, TypeOK, Which, CallerKnown
<1>4. RequestUp'
  <2> HIDE DEF Compare
  <2>1. QED
    BY <1>0, ItemIs DEF Base, TypeOK, Asleep, ChildOnUse, CallerKnown, RequestUp, Waiting, Ending, Item
<1>5. WaiterFound'
  <2> HIDE DEF Compare
  <2> SUFFICES ASSUME NEW w \in Use, pc[w] \in Waiting, done[w] = 0
               PROVE  Active(w)'
    BY <1>0 DEF WaiterFound
  <2>1. /\ Active(w) /\ request[w] = 1 /\ w[2] <= which_hiwat[w[1]]
        /\ pending'[w[1]] = pending[w[1]]
    BY <1>0 DEF WaiterFound, Base, CallerKnown, RequestUp, Waiting
  <2>2. CASE w[1] # s
    BY <1>0, <2>1, <2>2 DEF Active, Pursued
  <2>3. CASE w[1] = s
    BY <1>0, <2>1, <2>3, ItemIs DEF Active, Pursued, Base, TypeOK, Ending, Which
  <2>4. QED BY <2>2, <2>3
<1>6. RequestTakenBack'
  BY ItemIs DEF Base, TypeOK, ChildOnUse, RequestTakenBack
<1>7. ServedOnce'
  <2> SUFFICES ASSUME NEW w \in Alone \ Abandoned PROVE ServedAt(w)'
    BY DEF ServedOnce
  <2>1. /\ ServedAt(w) /\ w \in Use
        /\ \A v \in Use : v[1] = w[1] => v = w
    BY AloneIs DEF ServedOnce
  <2>2. CASE w[1] # s
    BY <2>1, <2>2, ServedFrame, ItemIs DEF Base, TypeOK, ChildOnUse, InLoop
  <2>3. CASE w[1] = s
    BY SMTT(20), <2>1, <2>3, ItemIs DEF Base, TypeOK, ChildOnUse, CallerKnown, RequestUp, WaiterFound, RequestTakenBack, ServedAt, Active, Pursued, Waiting, Ending, InLoop
  <2>4. QED BY <2>2, <2>3
<1>8. QED BY <1>1, <1>2, <1>3, <1>4, <1>5, <1>6, <1>7 DEF Base

LEMMA SkipUnusedStep ==
  ASSUME ServedInv, NEW s \in Ipc, SkipUnused(s)
  PROVE  ServedInv'
<1> USE UseShape, UseAssumption DEF ServedInv, FoundInv, SkipUnused, CAt, CGoto, parent, words, child, NextItem
<1>1. TypeOK'
  BY ItemIs DEF Base, TypeOK, Asleep, Which, ChildOnUse, InLoop
<1>2. ChildOnUse'
  BY ItemIs DEF Base, TypeOK, Which, ChildOnUse, InLoop, Item, CallerKnown
<1>3. CallerKnown'
  BY ItemIs DEF Base, TypeOK, Which, CallerKnown
<1>4. RequestUp'
  BY ItemIs DEF Base, TypeOK, Asleep, ChildOnUse, CallerKnown, RequestUp, Waiting, Ending, Item
<1>5. WaiterFound'
  BY ItemIs DEF Base, TypeOK, Asleep, ChildOnUse, CallerKnown, RequestUp, WaiterFound, Active, Pursued, Waiting, Ending, InLoop
<1>6. RequestTakenBack'
  BY ItemIs DEF Base, TypeOK, ChildOnUse, RequestTakenBack
<1>7. ServedOnce'
  <2> SUFFICES ASSUME NEW w \in Alone \ Abandoned PROVE ServedAt(w)'
    BY DEF ServedOnce
  <2>1. /\ ServedAt(w) /\ w \in Use
        /\ \A v \in Use : v[1] = w[1] => v = w
    BY AloneIs DEF ServedOnce
  <2>2. CASE w[1] # s
    <3>1. /\ UNCHANGED <<pc, done, ran, pending, child_signalled>>
          /\ cpc' = [cpc EXCEPT ![s] = "scan"]
          /\ i' = [i EXCEPT ![s] = @ + 1]
      <4> HIDE DEF ServedInv
      <4>1. QED OBVIOUS
    <3> HIDE DEF SkipUnused
    <3>2. /\ cpc'[w[1]] = cpc[w[1]] /\ i'[w[1]] = i[w[1]]
          /\ child_signalled'[w[1]] = child_signalled[w[1]]
      BY <2>1, <2>2, <3>1 DEF Base, TypeOK
    <3> HIDE DEF ServedInv
    <3>3. QED BY <2>1, <3>1, <3>2, ServedFrame
  <2>3. CASE w[1] = s
    BY SMTT(20), <2>1, <2>3, ItemIs DEF Base, TypeOK, ChildOnUse, CallerKnown, RequestUp, WaiterFound, RequestTakenBack, ServedAt, Active, Pursued, Waiting, Ending, InLoop
  <2>4. QED BY <2>2, <2>3
<1>8. QED BY <1>1, <1>2, <1>3, <1>4, <1>5, <1>6, <1>7 DEF Base

LEMMA FuncStep ==
  ASSUME ServedInv, NEW s \in Ipc, Func(s)
  PROVE  ServedInv'
<1> USE UseShape, UseAssumption DEF ServedInv, FoundInv, Func, CAt, CGoto, parent, words, child
<1>1. TypeOK'
  BY ItemIs DEF Base, TypeOK, Asleep, Which, ChildOnUse, InLoop
<1>2. ChildOnUse'
  BY ItemIs DEF Base, TypeOK, Which, ChildOnUse, InLoop, Item, CallerKnown
<1>3. CallerKnown'
  BY ItemIs DEF Base, TypeOK, Which, CallerKnown
<1>4. RequestUp'
  BY ItemIs DEF Base, TypeOK, Asleep, ChildOnUse, CallerKnown, RequestUp, Waiting, Ending, Item
<1>5. WaiterFound'
  BY ItemIs DEF Base, TypeOK, Asleep, ChildOnUse, CallerKnown, RequestUp, WaiterFound, Active, Pursued, Waiting, Ending, InLoop
<1>6. RequestTakenBack'
  BY ItemIs DEF Base, TypeOK, ChildOnUse, RequestTakenBack
<1>7. ServedOnce'
  <2> SUFFICES ASSUME NEW w \in Alone \ Abandoned PROVE ServedAt(w)'
    BY DEF ServedOnce
  <2>1. /\ ServedAt(w) /\ w \in Use
        /\ \A v \in Use : v[1] = w[1] => v = w
    BY AloneIs DEF ServedOnce
  <2>2. CASE w[1] # s
    <3>1. /\ UNCHANGED <<pc, done, pending, i, child_signalled>>
          /\ ran' = [ran EXCEPT ![Item(s)] = TRUE]
          /\ cpc' = [cpc EXCEPT ![s] = "done"]
      <4> HIDE DEF ServedInv
      <4>1. QED OBVIOUS
    <3> HIDE DEF Func
    <3>2. ran \in [Use -> BOOLEAN] /\ Item(s) # w /\ w[1] \in Ipc
      BY <2>1, <2>2 DEF Base, TypeOK, Item
    <3>3. cpc'[w[1]] = cpc[w[1]]
      BY <2>2, <3>1, <3>2 DEF Base, TypeOK
    <3>4. ran'[w] = ran[w]
      BY <2>1, <3>1, <3>2
    <3> HIDE DEF ServedInv
    <3>5. QED BY <2>1, <3>1, <3>3, <3>4, ServedFrame
  <2>3. CASE w[1] = s
    <3>1. /\ cpc[s] = "func" /\ cpc'[s] = "done"
          /\ UNCHANGED <<parent, words, pending, child_signalled, i>>
      BY DEF Base, TypeOK
    <3>2. Item(s) = w /\ i[s] = w[2] /\ child_signalled[s] /\ ran'[w] = TRUE
      <4>1. Item(s) \in Use /\ child_signalled[s]
        BY <3>1 DEF Base, ChildOnUse, InLoop
      <4>2. Item(s) = w
        BY <2>1, <2>3, <4>1 DEF Item
      <4>3. ran' = [ran EXCEPT ![w] = TRUE] /\ ran \in [Use -> BOOLEAN]
        BY <4>2 DEF Base, TypeOK
      <4>4. QED BY <2>1, <4>1, <4>2, <4>3, ItemIs
    <3> HIDE DEF Func, parent, words
    <3>3. QED
      BY <2>1, <2>3, <3>1, <3>2 DEF ServedAt, Active, Pursued, Waiting, Ending, parent, words
  <2>4. QED BY <2>2, <2>3
<1>8. QED BY <1>1, <1>2, <1>3, <1>4, <1>5, <1>6, <1>7 DEF Base

LEMMA SetDoneStep ==
  ASSUME ServedInv, NEW s \in Ipc, SetDone(s)
  PROVE  ServedInv'
<1> USE UseShape, UseAssumption DEF ServedInv, FoundInv, SetDone, CAt, CGoto, parent, words, child
<1>1. TypeOK'
  BY ItemIs DEF Base, TypeOK, Asleep, Which, ChildOnUse, InLoop
<1>2. ChildOnUse'
  BY ItemIs DEF Base, TypeOK, Which, ChildOnUse, InLoop, Item, CallerKnown
<1>3. CallerKnown'
  BY ItemIs DEF Base, TypeOK, Which, CallerKnown
<1>4. RequestUp'
  BY ItemIs DEF Base, TypeOK, Asleep, ChildOnUse, CallerKnown, RequestUp, Waiting, Ending, Item
<1>5. WaiterFound'
  BY ItemIs DEF Base, TypeOK, Asleep, ChildOnUse, CallerKnown, RequestUp, WaiterFound, Active, Pursued, Waiting, Ending, InLoop
<1>6. RequestTakenBack'
  BY ItemIs DEF Base, TypeOK, ChildOnUse, RequestTakenBack
<1>7. ServedOnce'
  <2> SUFFICES ASSUME NEW w \in Alone \ Abandoned PROVE ServedAt(w)'
    BY DEF ServedOnce
  <2>1. /\ ServedAt(w) /\ w \in Use
        /\ \A v \in Use : v[1] = w[1] => v = w
    BY AloneIs DEF ServedOnce
  <2>2. CASE w[1] # s
    BY <2>1, <2>2, ServedFrame, ItemIs DEF Base, TypeOK, ChildOnUse, InLoop
  <2>3. CASE w[1] = s
    BY <2>1, <2>3, ItemIs DEF Base, TypeOK, ChildOnUse, CallerKnown, RequestUp, WaiterFound, RequestTakenBack, ServedAt, Active, Pursued, Waiting, Ending, InLoop
  <2>4. QED BY <2>2, <2>3
<1>8. QED BY <1>1, <1>2, <1>3, <1>4, <1>5, <1>6, <1>7 DEF Base

LEMMA TestNoWaitStep ==
  ASSUME ServedInv, NEW s \in Ipc, TestNoWait(s)
  PROVE  ServedInv'
<1> USE UseShape, UseAssumption DEF ServedInv, FoundInv, TestNoWait, CAt, CGoto, parent, words, child, NextItem
<1>0. /\ cpc[s] = "no_wait" /\ Item(s) \in Use /\ i[s] <= which_hiwat[s]
      /\ \/ cpc'[s] = "scan" /\ i'[s] = i[s] + 1
         \/ no_wait[Item(s)] /\ cpc'[s] = "unrequest" /\ i'[s] = i[s]
      /\ \A r \in Ipc : r # s => cpc'[r] = cpc[r] /\ i'[r] = i[r]
      /\ UNCHANGED <<parent, words, pending, child_signalled, ran>>
  BY ItemIs DEF Base, TypeOK, ChildOnUse, InLoop
<1>1. TypeOK'
  BY ItemIs DEF Base, TypeOK, Asleep, Which, ChildOnUse, InLoop
<1>2. ChildOnUse'
  <2> HIDE DEF TestNoWait
  <2> SUFFICES ASSUME NEW r \in Ipc
               PROVE  /\ cpc'[r] \in InLoop
                         => i'[r] <= which_hiwat'[r] /\ Item(r)' \in Use
                      /\ cpc'[r] # "suspend" => child_signalled'[r]
                      /\ cpc'[r] = "unrequest" => Item(r)' \in NoWait
    BY DEF ChildOnUse
  <2>1. UNCHANGED <<which_hiwat, child_signalled>>
    BY <1>0
  <2>2. CASE r # s
    BY <1>0, <2>1, <2>2 DEF Base, ChildOnUse, Item
  <2>3. CASE r = s
    <3>1. child_signalled[s] /\ \A u \in Use : no_wait[u] => u \in NoWait
      BY <1>0 DEF Base, ChildOnUse, CallerKnown
    <3>2. QED BY <1>0, <2>1, <2>3, <3>1 DEF InLoop, Item
  <2>4. QED BY <2>2, <2>3
<1>3. CallerKnown'
  BY ItemIs DEF Base, TypeOK, Which, CallerKnown
<1>4. RequestUp'
  <2> HIDE DEF TestNoWait
  <2>1. QED
    BY <1>0, ItemIs DEF Base, TypeOK, Asleep, ChildOnUse, CallerKnown, RequestUp, Waiting, Ending, Item
<1>5. WaiterFound'
  <2> HIDE DEF TestNoWait
  <2> SUFFICES ASSUME NEW w \in Use, pc[w] \in Waiting, done[w] = 0
               PROVE  Active(w)'
    BY <1>0 DEF WaiterFound, parent, words
  <2>1. Active(w) /\ pending'[w[1]] = pending[w[1]]
        /\ child_signalled' = child_signalled
    BY <1>0 DEF WaiterFound
  <2>2. CASE w[1] # s
    BY <1>0, <2>1, <2>2 DEF Active, Pursued
  <2>3. CASE w[1] = s
    <3>1. pending[s] = 0 => child_signalled[s] /\ i[s] < w[2]
      BY <1>0, <2>1, <2>3 DEF Active, Pursued, Ending
    <3>2. i[s] \in Nat /\ w[2] \in Nat
      <4>1. i \in [Ipc -> 0..N] /\ N \in Nat /\ w[2] \in 0..(N - 1)
        BY UseShape DEF Base, TypeOK
      <4>2. QED BY <4>1
    <3>3. QED BY <1>0, <2>1, <2>3, <3>1, <3>2 DEF Active, Pursued, Ending
  <2>4. QED BY <2>2, <2>3
<1>6. RequestTakenBack'
  BY ItemIs DEF Base, TypeOK, ChildOnUse, RequestTakenBack
<1>7. ServedOnce'
  <2> SUFFICES ASSUME NEW w \in Alone \ Abandoned PROVE ServedAt(w)'
    BY DEF ServedOnce
  <2>1. /\ ServedAt(w) /\ w \in Use
        /\ \A v \in Use : v[1] = w[1] => v = w
    BY AloneIs DEF ServedOnce
  <2>2. CASE w[1] # s
    BY <2>1, <2>2, ServedFrame, ItemIs DEF Base, TypeOK, ChildOnUse, InLoop
  <2>3. CASE w[1] = s
    BY <2>1, <2>3, ItemIs DEF Base, TypeOK, ChildOnUse, CallerKnown, RequestUp, WaiterFound, RequestTakenBack, ServedAt, Active, Pursued, Waiting, Ending, InLoop
  <2>4. QED BY <2>2, <2>3
<1>8. QED BY <1>1, <1>2, <1>3, <1>4, <1>5, <1>6, <1>7 DEF Base

LEMMA UnrequestStep ==
  ASSUME ServedInv, NEW s \in Ipc, Unrequest(s)
  PROVE  ServedInv'
<1> USE UseShape, UseAssumption DEF ServedInv, FoundInv, Unrequest, CAt, CGoto, parent, words, child, NextItem
<1>0. /\ cpc[s] = "unrequest" /\ Item(s) \in NoWait
      /\ Item(s) \in Use /\ i[s] <= which_hiwat[s]
      /\ cpc'[s] = "scan" /\ i'[s] = i[s] + 1
      /\ request' = [request EXCEPT ![Item(s)] = 0]
      /\ \A r \in Ipc : r # s => cpc'[r] = cpc[r] /\ i'[r] = i[r]
      /\ UNCHANGED <<parent, done, no_wait, which_hiwat, pending, child_signalled, ran>>
  BY ItemIs DEF Base, TypeOK, ChildOnUse, InLoop
<1>1. TypeOK'
  BY ItemIs DEF Base, TypeOK, Asleep, Which, ChildOnUse, InLoop
<1>2. ChildOnUse'
  <2> HIDE DEF Unrequest
  <2>1. QED
    BY <1>0, ItemIs DEF Base, TypeOK, Which, ChildOnUse, InLoop, Item, CallerKnown
<1>3. CallerKnown'
  BY ItemIs DEF Base, TypeOK, Which, CallerKnown
<1>4. RequestUp'
  <2> HIDE DEF Unrequest
  <2>1. QED
    BY <1>0, ItemIs DEF Base, TypeOK, Asleep, ChildOnUse, CallerKnown, RequestUp, Waiting, Ending, Item
<1>5. WaiterFound'
  <2> HIDE DEF Unrequest
  <2> SUFFICES ASSUME NEW w \in Use, pc[w] \in Waiting, done[w] = 0
               PROVE  Active(w)'
    BY <1>0 DEF WaiterFound
  <2>1. /\ Active(w) /\ request[w] = 1 /\ w[2] <= which_hiwat[w[1]]
        /\ pending'[w[1]] = pending[w[1]]
    BY <1>0 DEF WaiterFound, Base, CallerKnown, RequestUp, Waiting
  <2>2. CASE w[1] # s
    BY <1>0, <2>1, <2>2 DEF Active, Pursued
  <2>3. CASE w[1] = s
    BY <1>0, <2>1, <2>3, ItemIs DEF Active, Pursued, Base, TypeOK, Ending, Which
  <2>4. QED BY <2>2, <2>3
<1>6. RequestTakenBack'
  BY ItemIs DEF Base, TypeOK, ChildOnUse, RequestTakenBack
<1>7. ServedOnce'
  <2> SUFFICES ASSUME NEW w \in Alone \ Abandoned PROVE ServedAt(w)'
    BY DEF ServedOnce
  <2>1. /\ ServedAt(w) /\ w \in Use
        /\ \A v \in Use : v[1] = w[1] => v = w
    BY AloneIs DEF ServedOnce
  <2>2. CASE w[1] # s
    BY <2>1, <2>2, ServedFrame, ItemIs DEF Base, TypeOK, ChildOnUse, InLoop
  <2>3. CASE w[1] = s
    BY <2>1, <2>3, ItemIs DEF Base, TypeOK, ChildOnUse, CallerKnown, RequestUp, WaiterFound, RequestTakenBack, ServedAt, Active, Pursued, Waiting, Ending, InLoop
  <2>4. QED BY <2>2, <2>3
<1>8. QED BY <1>1, <1>2, <1>3, <1>4, <1>5, <1>6, <1>7 DEF Base

LEMMA UnsignalStep ==
  ASSUME ServedInv, NEW s \in Ipc, Unsignal(s)
  PROVE  ServedInv'
<1> USE UseShape, UseAssumption DEF ServedInv, FoundInv, Unsignal, CAt, CGoto, parent, words, child
<1>0. /\ cpc[s] = "scan" /\ i[s] > which_hiwat[s]
      /\ cpc'[s] = "suspend" /\ i'[s] = 0
      /\ \A r \in Ipc : r # s => child_signalled'[r] = child_signalled[r]
      /\ \A r \in Ipc : r # s => cpc'[r] = cpc[r] /\ i'[r] = i[r]
      /\ UNCHANGED <<parent, words, pending, ran>>
  BY ItemIs DEF Base, TypeOK, ChildOnUse, InLoop
<1>1. TypeOK'
  BY ItemIs DEF Base, TypeOK, Asleep, Which, ChildOnUse, InLoop
<1>2. ChildOnUse'
  <2> HIDE DEF Unsignal
  <2>1. QED
    BY <1>0, ItemIs DEF Base, TypeOK, Which, ChildOnUse, InLoop, Item, CallerKnown
<1>3. CallerKnown'
  BY ItemIs DEF Base, TypeOK, Which, CallerKnown
<1>4. RequestUp'
  <2> HIDE DEF Unsignal
  <2>1. QED
    BY <1>0, ItemIs DEF Base, TypeOK, Asleep, ChildOnUse, CallerKnown, RequestUp, Waiting, Ending, Item
<1>5. WaiterFound'
  <2> HIDE DEF Unsignal
  <2> SUFFICES ASSUME NEW w \in Use, pc[w] \in Waiting, done[w] = 0
               PROVE  Active(w)'
    BY <1>0 DEF WaiterFound
  <2>1. /\ Active(w) /\ request[w] = 1 /\ w[2] <= which_hiwat[w[1]]
        /\ pending'[w[1]] = pending[w[1]]
    BY <1>0 DEF WaiterFound, Base, CallerKnown, RequestUp, Waiting
  <2>2. CASE w[1] # s
    BY <1>0, <2>1, <2>2 DEF Active, Pursued
  <2>3. CASE w[1] = s
    BY <1>0, <2>1, <2>3, ItemIs DEF Active, Pursued, Base, TypeOK, Ending, Which
  <2>4. QED BY <2>2, <2>3
<1>6. RequestTakenBack'
  BY ItemIs DEF Base, TypeOK, ChildOnUse, RequestTakenBack
<1>7. ServedOnce'
  <2> SUFFICES ASSUME NEW w \in Alone \ Abandoned PROVE ServedAt(w)'
    BY DEF ServedOnce
  <2>1. /\ ServedAt(w) /\ w \in Use
        /\ \A v \in Use : v[1] = w[1] => v = w
    BY AloneIs DEF ServedOnce
  <2>2. CASE w[1] # s
    <3>1. /\ UNCHANGED <<pc, done, ran, pending>>
          /\ cpc' = [cpc EXCEPT ![s] = "suspend"]
          /\ i' = [i EXCEPT ![s] = 0]
          /\ child_signalled' = [child_signalled EXCEPT ![s] = FALSE]
      <4> HIDE DEF ServedInv
      <4>1. QED OBVIOUS
    <3> HIDE DEF Unsignal
    <3>2. /\ cpc'[w[1]] = cpc[w[1]] /\ i'[w[1]] = i[w[1]]
          /\ child_signalled'[w[1]] = child_signalled[w[1]]
      BY <2>1, <2>2, <3>1 DEF Base, TypeOK
    <3> HIDE DEF ServedInv
    <3>3. QED BY <2>1, <3>1, <3>2, ServedFrame
  <2>3. CASE w[1] = s
    <3>1. /\ ServedAt(w) /\ UNCHANGED <<parent, words, pending, ran>>
          /\ cpc[s] = "scan" /\ cpc'[s] = "suspend" /\ i'[s] = 0
          /\ child_signalled'[s] = FALSE
      BY <1>0, <2>1 DEF Base, TypeOK
    <3> HIDE DEF Unsignal, ServedInv, FoundInv
    <3>2. ~Pursued(w)'
      BY <2>3, <3>1 DEF Pursued
    <3>3. Active(w)' => Active(w)
      BY <3>1, <3>2 DEF Active
    <3>4. QED BY <2>3, <3>1, <3>2, <3>3 DEF ServedAt, Ending, Waiting
  <2>4. QED BY <2>2, <2>3
<1>8. QED BY <1>1, <1>2, <1>3, <1>4, <1>5, <1>6, <1>7 DEF Base

LEMMA StutterStep ==
  ASSUME ServedInv, UNCHANGED vars
  PROVE  ServedInv'
<1> USE DEF vars, parent, words, child
<1>1. Base'
  BY DEF ServedInv, FoundInv, Base, TypeOK, ChildOnUse, CallerKnown, Item
<1>2. RequestUp'
  BY DEF ServedInv, FoundInv, RequestUp, Item
<1>3. WaiterFound'
  BY DEF ServedInv, FoundInv, WaiterFound, Active, Pursued
<1>4. RequestTakenBack'
  BY DEF ServedInv, RequestTakenBack
<1>5. ServedOnce'
  BY DEF ServedInv, ServedOnce, ServedAt, Active, Pursued
<1>6. QED BY <1>1, <1>2, <1>3, <1>4, <1>5 DEF ServedInv, FoundInv

(* Every step of a caller or of a child keeps the invariant.               *)
LEMMA ServedInvStep == ServedInv /\ [Next]_vars => ServedInv'
<1> SUFFICES ASSUME ServedInv, [Next]_vars PROVE ServedInv'
  OBVIOUS
<1>1. CASE \E u \in Use : shmem_ipc_invoke(u) \/ ParentStep(u) \/ Abandon(u)
  BY <1>1, InvokeStep, RequestStep, SetNoWaitStep, KillStep, TestDoneStep,
     PollStep, ClearStep, AbandonStep DEF ParentStep
<1>2. CASE \E s \in Ipc : ChildStep(s)
  BY <1>2, DeliverStep, StartScanStep, CompareStep, SkipUnusedStep, FuncStep,
     SetDoneStep, TestNoWaitStep, UnrequestStep, UnsignalStep DEF ChildStep
<1>3. CASE UNCHANGED vars
  BY <1>3, StutterStep
<1>4. QED BY <1>1, <1>2, <1>3 DEF Next

(* The inductive invariant holds in every state, whoever gets removed.     *)
THEOREM ServedInvariance == Spec => []ServedInv
  BY InitServed, ServedInvStep, PTL DEF Spec

(* The words, the signals and the child keep their types: in particular a  *)
(* scan stays within the calls of its channel.                             *)
THEOREM TypeCorrect == Spec => []TypeOK
<1>1. ServedInv => TypeOK
  BY DEF ServedInv, FoundInv, Base
<1>2. QED BY <1>1, ServedInvariance, PTL

(* No request is forgotten, also by a caller that is removed: one that is  *)
(* not done is found by the scan in progress or by the next one, however   *)
(* the signals were merged (shmem_child_task).                             *)
THEOREM NoRequestForgotten == Spec => []RequestNotForgotten
<1>1. ServedInv => RequestNotForgotten
  BY UseShape DEF ServedInv, FoundInv, Base, TypeOK, WaiterFound, Active,
     Pursued, Waiting, RequestNotForgotten
<1>2. QED BY <1>1, ServedInvariance, PTL

(* Where no polling task is removed, shmem_ipc_invoke() never meets its    *)
(* own earlier request.                                                    *)
THEOREM NeverReentrant ==
  ASSUME Abandoned = {}
  PROVE  Spec => []NotReentrant
<1>1. ServedInv => NotReentrant
  BY DEF ServedInv, RequestTakenBack, NotReentrant
<1>2. QED BY <1>1, ServedInvariance, PTL

(* Where every call has a channel of its own, the shared data is handed    *)
(* over: func runs while its caller waits, and once.  The calls that share *)
(* a channel have no such guarantee (HandOver is refuted by a run).        *)
THEOREM AloneHandsOver ==
  ASSUME Abandoned = {}, Alone = Use
  PROVE  Spec => []HandOver
<1>1. ServedInv => HandOver
  <2> SUFFICES ASSUME ServedInv, NEW s \in Ipc, cpc[s] = "func"
               PROVE  /\ pc[Item(s)] \in {"no_wait", "kill", "test", "asleep", "poll"}
                      /\ ~ran[Item(s)]
    BY DEF HandOver
  <2>1. Item(s) \in Use /\ child_signalled[s]
    BY DEF ServedInv, FoundInv, Base, ChildOnUse, InLoop
  <2>2. ServedAt(Item(s))
    BY <2>1 DEF ServedInv, ServedOnce
  <2>3. Item(s)[1] = s /\ Item(s)[2] = i[s]
    BY DEF Item
  <2>4. Pursued(Item(s))
    BY <2>1, <2>3 DEF Pursued, Ending
  <2>5. QED BY <2>2, <2>3, <2>4 DEF ServedAt, Active, Waiting
<1>2. QED BY <1>1, ServedInvariance, PTL
---------------------------------------------------------------------------
(* A call of its own channel is a remote call.                             *)

Moves == {<<"idle", "called">>, <<"called", "running">>,
          <<"running", "served">>, <<"served", "idle">>}

InFunc(u) == cpc[u[1]] = "func" /\ i[u[1]] = u[2]

(* func runs while its caller waits, and before anything is cleared; so    *)
(* the phase of the call can be read off.                                  *)
LEMMA InFuncWaits ==
  ASSUME ServedInv, NEW w \in Alone \ Abandoned
  PROVE  /\ InFunc(w) => pc[w] \in Waiting /\ ~ran[w]
         /\ pc[w] \in {"clear", "clear_done", "clear_request"} => ran[w]
         /\ PhaseOf(w) = IF InFunc(w) THEN "running"
                         ELSE IF ~Called(w) THEN "idle"
                         ELSE IF ran[w] THEN "served" ELSE "called"
<1>1. ServedAt(w) /\ w \in Use /\ w[1] \in Ipc
  BY AloneIs, UseShape DEF ServedInv, ServedOnce
<1>2. cpc[w[1]] = "func" => child_signalled[w[1]]
  BY <1>1 DEF ServedInv, FoundInv, Base, ChildOnUse
<1>3. InFunc(w) => Pursued(w) /\ i[w[1]] = w[2] /\ cpc[w[1]] = "func"
  BY <1>1, <1>2 DEF InFunc, Pursued, Ending
<1>4. QED BY <1>1, <1>3 DEF ServedAt, Active, Waiting, PhaseOf, InFunc

(* A step that leaves call, caller and child as they are keeps the phase.  *)
LEMMA PhaseFrame ==
  ASSUME NEW w \in Use,
         pc'[w] = pc[w] \/ (Called(w) <=> Called(w)'), ran'[w] = ran[w],
         InFunc(w)' <=> InFunc(w)
  PROVE  PhaseOf(w)' = PhaseOf(w)
  BY DEF PhaseOf, InFunc, Called

(* What the server's own steps do to the phase of their use.               *)
LEMMA ParentPhase ==
  ASSUME ServedInv, NEW u \in Use,
         shmem_ipc_invoke(u) \/ ParentStep(u) \/ Abandon(u),
         NEW w \in Alone \ Abandoned
  PROVE  /\ w # u => PhaseOf(w)' = PhaseOf(w)
         /\ \/ PhaseOf(w)' = PhaseOf(w)
            \/ <<PhaseOf(w), PhaseOf(w)'>> \in Moves
<1>0. w \in Use
  BY AloneIs
<1>1. InFunc(w)' <=> InFunc(w)
  BY DEF shmem_ipc_invoke, ParentStep, Abandon, Request, SetNoWait, Kill,
         TestDone, shmem_ipc_poll, Clear, child, InFunc
<1>2. CASE w # u
  <2>1. pc'[w] = pc[w] /\ ran'[w] = ran[w]
    BY <1>0, <1>2 DEF shmem_ipc_invoke, ParentStep, Abandon, Request,
       SetNoWait, Kill, TestDone, shmem_ipc_poll, Clear, Goto, ServedInv,
       FoundInv, Base, TypeOK
  <2>2. QED BY <1>0, <1>1, <1>2, <2>1, PhaseFrame
<1>3. CASE /\ w = u
           /\ \/ shmem_ipc_invoke(u) \/ Abandon(u) \/ SetNoWait(u) \/ Kill(u)
              \/ TestDone(u) \/ shmem_ipc_poll(u)
  <2>1. ran'[w] = ran[w]
    BY <1>3 DEF shmem_ipc_invoke, Abandon, SetNoWait, Kill, TestDone,
       shmem_ipc_poll
  <2>2. Called(w) <=> Called(w)'
    BY <1>0, <1>3 DEF shmem_ipc_invoke, Abandon, SetNoWait, Kill, TestDone,
       shmem_ipc_poll, Goto, At, Called, ServedInv, FoundInv, Base, TypeOK
  <2>3. QED BY <1>0, <1>1, <1>3, <2>1, <2>2, PhaseFrame
<1>4. CASE w = u /\ Request(u)
  <2>1. /\ pc[w] = "request" /\ pc'[w] = "no_wait" /\ ran'[w] = FALSE
    BY <1>0, <1>4 DEF Request, At, Goto, ServedInv, FoundInv, Base, TypeOK
  <2>2. ~InFunc(w)
    BY <2>1, InFuncWaits DEF Waiting
  <2>3. PhaseOf(w) = "idle" /\ PhaseOf(w)' = "called"
    BY <1>1, <2>1, <2>2 DEF PhaseOf, InFunc, Called
  <2>4. QED BY <1>4, <2>3 DEF Moves
<1>5. CASE w = u /\ Clear(u)
  <2>1. /\ pc[w] \in {"clear", "clear_done", "clear_request"}
        /\ pc'[w] \in {"idle", "clear_done", "clear_request"}
        /\ ran'[w] = ran[w]
    BY <1>0, <1>5 DEF Clear, At, Goto, ServedInv, FoundInv, Base, TypeOK
  <2>2. ~InFunc(w) /\ ran[w]
    BY <2>1, InFuncWaits DEF Waiting
  <2>3. PhaseOf(w) = "served" /\ PhaseOf(w)' \in {"idle", "served"}
    BY <1>1, <2>1, <2>2 DEF PhaseOf, InFunc, Called
  <2>4. QED BY <1>5, <2>3 DEF Moves
<1>6. QED BY <1>2, <1>3, <1>4, <1>5 DEF ParentStep

(* What the steps of a child do to the phase of the use of its channel.    *)
LEMMA ChildPhase ==
  ASSUME ServedInv, NEW s \in Ipc, ChildStep(s), NEW w \in Alone \ Abandoned
  PROVE  /\ w[1] # s => PhaseOf(w)' = PhaseOf(w)
         /\ \/ PhaseOf(w)' = PhaseOf(w)
            \/ <<PhaseOf(w), PhaseOf(w)'>> \in Moves
<1>0. w \in Use /\ w[1] \in Ipc
  BY AloneIs, UseShape
<1>1. UNCHANGED pc
  BY DEF ChildStep, Deliver, StartScan, Compare, SkipUnused, Func, SetDone,
         TestNoWait, Unrequest, Unsignal, parent
<1>2. ~Func(s) => UNCHANGED ran
  BY DEF ChildStep, Deliver, StartScan, Compare, SkipUnused, Func, SetDone,
         TestNoWait, Unrequest, Unsignal
<1>3. Func(s) => Item(s) \in Use /\ cpc[s] = "func" /\ cpc' = [cpc EXCEPT ![s] = "done"]
                 /\ UNCHANGED i /\ ran' = [ran EXCEPT ![Item(s)] = TRUE]
  BY DEF Func, CAt, CGoto, ServedInv, FoundInv, Base, ChildOnUse, InLoop
<1>4. CASE w[1] # s
  <2>1. cpc'[w[1]] = cpc[w[1]] /\ i'[w[1]] = i[w[1]]
    BY <1>0, <1>4 DEF ChildStep, Deliver, StartScan, Compare, SkipUnused, Func,
       SetDone, TestNoWait, Unrequest, Unsignal, NextItem, CGoto, ServedInv,
       FoundInv, Base, TypeOK
  <2>2. ran'[w] = ran[w]
    BY <1>0, <1>2, <1>3, <1>4, ItemIs DEF ServedInv, FoundInv, Base, TypeOK
  <2>3. QED BY <1>0, <1>1, <1>4, <2>1, <2>2, PhaseFrame DEF InFunc
<1>5. CASE w[1] = s /\ Func(s)
  <2>1. CASE Item(s) = w
    <3>1. InFunc(w) /\ ~InFunc(w)' /\ ran'[w] = TRUE
      BY <1>0, <1>3, <1>5, <2>1, ItemIs DEF InFunc, ServedInv, FoundInv, Base, TypeOK
    <3>2. Called(w) /\ Called(w)'
      BY <1>1, <3>1, InFuncWaits DEF Called, Waiting
    <3>3. PhaseOf(w) = "running" /\ PhaseOf(w)' = "served"
      BY <3>1, <3>2 DEF PhaseOf, InFunc
    <3>4. QED BY <1>5, <3>3 DEF Moves
  <2>2. CASE Item(s) # w
    <3>1. ran'[w] = ran[w]
      BY <1>0, <1>3, <1>5, <2>2 DEF ServedInv, FoundInv, Base, TypeOK
    <3>2. InFunc(w)' <=> InFunc(w)
      BY <1>0, <1>3, <1>5, <2>2, ItemIs DEF InFunc, ServedInv, FoundInv, Base, TypeOK
    <3>3. QED BY <1>0, <1>1, <1>5, <3>1, <3>2, PhaseFrame
  <2>3. QED BY <2>1, <2>2
<1>6. CASE w[1] = s /\ Compare(s)
  <2>1. ~InFunc(w) /\ ran'[w] = ran[w] /\ pc'[w] = pc[w]
    BY <1>0, <1>1, <1>6 DEF Compare, InFunc, CAt
  <2>2. CASE InFunc(w)'
    <3>1. /\ i'[s] = w[2] /\ cpc'[s] = "func"
          /\ i' = i /\ cpc[s] \in {"load_done", "load_request"}
      BY <1>0, <1>6, <2>2 DEF InFunc, Compare, NextItem, CAt, CGoto,
         ServedInv, FoundInv, Base, TypeOK
    <3>2. child_signalled[s]
      BY <3>1 DEF ServedInv, FoundInv, Base, ChildOnUse
    <3>3. Pursued(w) /\ ServedAt(w) /\ cpc[s] # "done"
      BY <1>0, <1>6, <3>1, <3>2 DEF Pursued, Ending, ServedInv, ServedOnce
    <3>4. pc[w] \in Waiting /\ ~ran[w]
      BY <1>6, <3>3 DEF ServedAt, Active, Waiting
    <3>5. PhaseOf(w) = "called" /\ PhaseOf(w)' = "running"
      BY <2>1, <2>2, <3>4 DEF PhaseOf, InFunc, Called, Waiting
    <3>6. QED BY <1>6, <3>5 DEF Moves
  <2>3. CASE ~InFunc(w)'
    BY <1>0, <1>6, <2>1, <2>3, PhaseFrame
  <2>4. QED BY <2>2, <2>3
<1>7. CASE w[1] = s /\ ~Func(s) /\ ~Compare(s)
  <2>1. InFunc(w)' <=> InFunc(w)
    BY <1>0, <1>7 DEF InFunc, ChildStep, Deliver, StartScan, SkipUnused,
       SetDone, TestNoWait, Unrequest, Unsignal, NextItem, CGoto, CAt,
       ServedInv, FoundInv, Base, TypeOK
  <2>2. QED BY <1>0, <1>1, <1>2, <1>7, <2>1, PhaseFrame
<1>8. QED BY <1>4, <1>5, <1>6, <1>7

(* A step moves one call by one phase at most.                             *)
LEMMA PhasesStep ==
  ASSUME Alone \cap Abandoned = {}, ServedInv, [Next]_vars
  PROVE  [Abstract!Next]_([u \in Alone |-> PhaseOf(u)])
<1> DEFINE ph == [u \in Alone |-> PhaseOf(u)]
<1> SUFFICES Abstract!Next \/ ph' = ph
  OBVIOUS
<1>1. ASSUME NEW v \in Use,
             \A w \in Alone : w # v => PhaseOf(w)' = PhaseOf(w),
             v \in Alone => \/ PhaseOf(v)' = PhaseOf(v)
                            \/ <<PhaseOf(v), PhaseOf(v)'>> \in Moves
      PROVE  Abstract!Next \/ ph' = ph
  <2>1. CASE v \in Alone /\ <<PhaseOf(v), PhaseOf(v)'>> \in Moves
    <3>1. ph' = [ph EXCEPT ![v] = PhaseOf(v)'] /\ ph[v] = PhaseOf(v)
      BY <1>1, <2>1
    <3>2. QED BY <2>1, <3>1 DEF Abstract!Next, Abstract!Advance, Moves
  <2>2. CASE ~(v \in Alone /\ <<PhaseOf(v), PhaseOf(v)'>> \in Moves)
    <3>1. \A w \in Alone : PhaseOf(w)' = PhaseOf(w)
      BY <1>1, <2>2
    <3>2. QED BY <3>1
  <2>3. QED BY <2>1, <2>2
<1>2. ASSUME NEW u \in Use, shmem_ipc_invoke(u) \/ ParentStep(u) \/ Abandon(u)
      PROVE  Abstract!Next \/ ph' = ph
  BY <1>1, <1>2, ParentPhase
<1>3. ASSUME NEW s \in Ipc, ChildStep(s)
      PROVE  Abstract!Next \/ ph' = ph
  <2>1. CASE \E v \in Alone : v[1] = s
    <3>1. PICK v \in Alone : v[1] = s
      BY <2>1
    <3>2. v \in Use /\ \A w \in Alone : w # v => w[1] # s
      BY <3>1, AloneIs
    <3>3. QED BY <1>1, <1>3, <3>1, <3>2, ChildPhase
  <2>2. CASE ~\E v \in Alone : v[1] = s
    <3>1. \A w \in Alone : PhaseOf(w)' = PhaseOf(w)
      BY <1>3, <2>2, ChildPhase
    <3>2. QED BY <3>1
  <2>3. QED BY <2>1, <2>2
<1>4. CASE UNCHANGED vars
  <2>1. \A w \in Alone : PhaseOf(w)' = PhaseOf(w)
    BY <1>4 DEF vars, parent, child, PhaseOf, Called
  <2>2. QED BY <2>1
<1>5. QED BY <1>2, <1>3, <1>4 DEF Next

(* A call with a channel of its own, whose task is not removed, is served  *)
(* by one run of func, made between the request and the return: Shmem      *)
(* implements RemoteCall.                                                  *)
THEOREM CallsImplementRemoteCall ==
  ASSUME Alone \cap Abandoned = {}
  PROVE  Spec => EachCallServedOnce
<1>1. Init => Abstract!Init
  BY AloneIs, UseShape DEF Init, Abstract!Init, PhaseOf, Called
<1>2. ServedInv /\ [Next]_vars => [Abstract!Next]_([u \in Alone |-> PhaseOf(u)])
  BY PhasesStep
<1>3. QED
  BY <1>1, <1>2, ServedInvariance, PTL DEF Spec, EachCallServedOnce, Abstract!Spec
=============================================================================
