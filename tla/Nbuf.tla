------------------------------- MODULE Nbuf -------------------------------
(***************************************************************************)
(* The queues of network buffers between the web server and the tasks of   *)
(* the connections (net/nbuf.cpp, and its callers in                       *)
(* web/web/web_server_7.14.cpp).                                           *)
(*                                                                         *)
(* Each connection has two queues, c2s and s2c.  A buffer is taken from a  *)
(* pool, enqueued by the producer, dequeued by the consumer, who may lose  *)
(* the processor while using it, marked done, and given back to the pool   *)
(* by a later call of the producer.  No task loses the processor inside an *)
(* operation, so each is one step.  The ttl of a queue is 0 in all its     *)
(* uses and left out.                                                      *)
(***************************************************************************)
EXTENDS Integers, Sequences, FiniteSets

CONSTANTS Ndesc,      \* the queues
          Data,       \* what is put in a buffer
          NNBUF,      \* the buffers in the pool
          ND_LOWAT, ND_HIWAT

ASSUME NbufAssumption ==
  /\ NNBUF \in Nat
  /\ ND_LOWAT \in Nat \ {0} /\ ND_HIWAT \in Nat /\ ND_LOWAT <= ND_HIWAT

VARIABLES
  busy,    \* the buffers of the pool that are not free
  q,       \* q[d]: the buffers of the queue, from q_head on
  cnt,     \* cnt[d]: those not yet dequeued
  ovfl,
  held     \* held[d]: the consumer uses the buffer it dequeued last

vars == <<busy, q, cnt, ovfl, held>>

Buffer == [data : Data, done : BOOLEAN, dequeued : BOOLEAN]

NewBuffer(x) == [data |-> x, done |-> FALSE, dequeued |-> FALSE]
---------------------------------------------------------------------------
\* Faulty variant: a buffer in use is collected as well.
Done_Dequeued(b) == b.dequeued

Done(b) == b.done

\* Faulty variant: nothing is collected.
DoneAtHead_None(s) == 0

\* The number of buffers at the head of s that are done.
DoneAtHead(s) ==
  CHOOSE k \in 0..Len(s) : /\ \A i \in 1..k : Done(s[i])
                           /\ k < Len(s) => ~Done(s[k + 1])

\* Faulty variant: the low water mark is not looked at.
Refused_NoHysteresis(d) == cnt[d] > ND_HIWAT

Refused(d) == (ovfl[d] /\ cnt[d] >= ND_LOWAT) \/ cnt[d] > ND_HIWAT

\* Faulty variant: a buffer that was not enqueued is not freed.
Unused_Leaks == 0
Unused == 1

\* nbuf_allocq(): nbuf_malloc(), which comes before the queue's done buffers
\* are collected and panics if the pool is empty, then nbuf_enqueue().
nbuf_allocq(d, x) ==
  LET k    == DoneAtHead(q[d])
      rest == SubSeq(q[d], k + 1, Len(q[d]))
  IN  /\ busy < NNBUF
      /\ IF Refused(d)
         THEN /\ q'    = [q EXCEPT ![d] = rest]
              /\ busy' = (busy + 1) - (k + Unused)
              /\ UNCHANGED cnt
         ELSE /\ q'    = [q EXCEPT ![d] = Append(rest, NewBuffer(x))]
              /\ busy' = (busy + 1) - k
              /\ cnt'  = [cnt EXCEPT ![d] = @ + 1]
      /\ ovfl' = [ovfl EXCEPT ![d] = Refused(d)]
      /\ UNCHANGED held

\* Faulty variant: the last buffer is taken.
FirstWaiting_Last(s) == Len(s)

\* The first buffer of s that was not dequeued.
FirstWaiting(s) ==
  CHOOSE i \in DOMAIN s : ~s[i].dequeued /\ \A j \in 1..(i - 1) : s[j].dequeued

nbuf_dequeue(d) ==
  /\ ~held[d]
  /\ \E i \in DOMAIN q[d] : ~q[d][i].dequeued
  /\ q'    = [q EXCEPT ![d][FirstWaiting(q[d])].dequeued = TRUE]
  /\ cnt'  = [cnt EXCEPT ![d] = @ - 1]
  /\ held' = [held EXCEPT ![d] = TRUE]
  /\ UNCHANGED <<busy, ovfl>>

\* The consumer has finished with its buffer: web_to_app_done(), or
\* iterate_callback() after mg_ws_send().
web_to_app_done(d) ==
  /\ held[d]
  /\ \E i \in DOMAIN q[d] :
       /\ q[d][i].dequeued /\ ~q[d][i].done
       /\ q' = [q EXCEPT ![d][i].done = TRUE]
  /\ held' = [held EXCEPT ![d] = FALSE]
  /\ UNCHANGED <<busy, cnt, ovfl>>

\* Faulty variant: the buffers outlive the connection.
nbuf_cleanup_KeepsBuffers(d) ==
  /\ cnt'  = [cnt EXCEPT ![d] = 0]
  /\ ovfl' = [ovfl EXCEPT ![d] = FALSE]
  /\ held' = [held EXCEPT ![d] = FALSE]
  /\ UNCHANGED <<q, busy>>

\* The connection is removed, and the task that consumed with it; internal
\* clients, which outlive their connection, are not modelled.
nbuf_cleanup(d) ==
  /\ q'    = [q EXCEPT ![d] = <<>>]
  /\ busy' = busy - Len(q[d])
  /\ cnt'  = [cnt EXCEPT ![d] = 0]
  /\ ovfl' = [ovfl EXCEPT ![d] = FALSE]
  /\ held' = [held EXCEPT ![d] = FALSE]

Init ==
  /\ busy = 0
  /\ q    = [d \in Ndesc |-> <<>>]
  /\ cnt  = [d \in Ndesc |-> 0]
  /\ ovfl = [d \in Ndesc |-> FALSE]
  /\ held = [d \in Ndesc |-> FALSE]

Next ==
  \E d \in Ndesc : \/ \E x \in Data : nbuf_allocq(d, x)
                   \/ nbuf_dequeue(d)
                   \/ web_to_app_done(d)
                   \/ nbuf_cleanup(d)

Spec == Init /\ [][Next]_vars
---------------------------------------------------------------------------
(* Type correctness.                                                       *)
TypeOK ==
  /\ busy \in Int
  /\ q \in [Ndesc -> Seq(Buffer)]
  /\ cnt \in [Ndesc -> Nat]
  /\ ovfl \in [Ndesc -> BOOLEAN]
  /\ held \in [Ndesc -> BOOLEAN]

\* The numbers of buffers of d that were dequeued, and that are done.
Dequeued(d) == Len(q[d]) - cnt[d]
Finished(d) == Dequeued(d) - (IF held[d] THEN 1 ELSE 0)

(* The buffers of a queue are the done ones, then the one in use, then     *)
(* those that wait, and cnt counts the latter: so the buffer a consumer    *)
(* uses, perhaps across a task switch, is not collected under it           *)
(* (web_to_app_done: assert(nb->expecting_done && !nb->done)), and         *)
(* nbuf_dequeue() never returns a buffer that is done (its assert).        *)
BufferInUseKept ==
  \A d \in Ndesc :
    /\ Finished(d) >= 0
    /\ \A i \in DOMAIN q[d] :
         /\ q[d][i].dequeued <=> i <= Dequeued(d)
         /\ q[d][i].done <=> i <= Finished(d)

(* A queue never occupies more than ND_HIWAT + 2 buffers of the pool,      *)
(* although done buffers are collected by the producer alone: at most      *)
(* ND_HIWAT + 1 wait, and by the time the queue grows the done ones are    *)
(* gone.                                                                   *)
QueueBounded ==
  \A d \in Ndesc : /\ cnt[d] <= ND_HIWAT + 1
                   /\ Len(q[d]) <= ND_HIWAT + 2

(* The buffers that are in a queue, by their place in it.                  *)
Enqueued == UNION {{d} \X DOMAIN q[d] : d \in Ndesc}

(* No buffer leaks: those that are not free are in a queue, whether the    *)
(* queue refused some, was drained, or its connection removed.             *)
NoLeak == busy = Cardinality(Enqueued)

(* Each queue is a bounded FIFO: what is dequeued is what was enqueued, in *)
(* that order, and what is refused is refused for the water marks alone.   *)
Abstract(d) == INSTANCE BoundedFifo WITH
  Low <- ND_LOWAT, High <- ND_HIWAT,
  waiting <- [i \in 1..cnt[d] |-> q[d][Dequeued(d) + i].data],
  full <- ovfl[d]

QueuesAreFifos ==
  /\ \A d \in Ndesc : Abstract(d)!Init
  /\ [][\A d \in Ndesc : [Abstract(d)!Next]_(Abstract(d)!fifo)]_vars
=============================================================================
