---------------------------- MODULE Nbuf_proofs ----------------------------
(* Proofs about the queues of network buffers.                             *)
EXTENDS Nbuf, SequenceTheorems, FiniteSetTheorems, TLAPS

USE NbufAssumption

Inv == TypeOK /\ BufferInUseKept /\ QueueBounded

(* The done buffers of a queue in its shape are the first ones.            *)
LEMMA DoneAtHeadIs ==
  ASSUME NEW s \in Seq(Buffer), NEW n \in 0..Len(s),
         \A i \in DOMAIN s : s[i].done <=> i <= n
  PROVE  DoneAtHead(s) = n
<1> DEFINE Fits(k) == /\ \A i \in 1..k : Done(s[i])
                      /\ k < Len(s) => ~Done(s[k + 1])
<1>1. Len(s) \in Nat /\ DOMAIN s = 1..Len(s)
  OBVIOUS
<1>2. Fits(n)
  BY <1>1 DEF Done
<1>3. ASSUME NEW k \in 0..Len(s), Fits(k)
      PROVE  k = n
  <2>1. CASE k < n
    BY <2>1, <1>1, <1>3 DEF Done
  <2>2. CASE k > n
    BY <2>2, <1>1, <1>3 DEF Done
  <2> QED
    BY <2>1, <2>2, <1>1
<1> QED
  BY <1>2, <1>3 DEF DoneAtHead

(* The first waiting buffer comes after those dequeued.                    *)
LEMMA FirstWaitingIs ==
  ASSUME NEW s \in Seq(Buffer), NEW n \in 0..Len(s), n < Len(s),
         \A i \in DOMAIN s : s[i].dequeued <=> i <= n
  PROVE  FirstWaiting(s) = n + 1
<1> DEFINE Fits(i) == ~s[i].dequeued /\ \A j \in 1..(i - 1) : s[j].dequeued
<1>1. Len(s) \in Nat /\ DOMAIN s = 1..Len(s)
  OBVIOUS
<1>2. n + 1 \in DOMAIN s /\ Fits(n + 1)
  BY <1>1
<1>3. ASSUME NEW k \in DOMAIN s, Fits(k)
      PROVE  k = n + 1
  <2>1. k > n
    BY <1>1, <1>3
  <2>2. CASE k > n + 1
    BY <2>2, <1>1, <1>3
  <2> QED
    BY <2>1, <2>2, <1>1
<1> QED
  BY <1>2, <1>3 DEF FirstWaiting
---------------------------------------------------------------------------
(* What a step does to the queue it works on, as the abstraction sees it.  *)

\* The shape of one queue.
Shape(s, n, h) ==
  /\ s \in Seq(Buffer) /\ n \in Nat /\ h \in BOOLEAN
  /\ n + (IF h THEN 1 ELSE 0) <= Len(s)
  /\ \A i \in 1..Len(s) :
       /\ s[i].dequeued <=> i <= Len(s) - n
       /\ s[i].done <=> i <= Len(s) - n - (IF h THEN 1 ELSE 0)
  /\ n <= ND_HIWAT + 1 /\ Len(s) <= ND_HIWAT + 2

\* The data that wait in it.
Waiting(s, n) == [i \in 1..n |-> s[Len(s) - n + i].data]

Rest(s) == SubSeq(s, DoneAtHead(s) + 1, Len(s))

\* What collecting the done buffers of s leaves.
Collected(s, n, h) ==
  /\ DoneAtHead(s) \in Nat
  /\ Shape(Rest(s), n, h)
  /\ Len(Rest(s)) = n + (IF h THEN 1 ELSE 0)
  /\ Len(Rest(s)) = Len(s) - DoneAtHead(s)
  /\ Waiting(Rest(s), n) = Waiting(s, n)

(* The producer collects exactly the buffers the consumer has finished     *)
(* with.                                                                   *)
LEMMA RestOfShape ==
  ASSUME NEW s, NEW n, NEW h, Shape(s, n, h)
  PROVE  Collected(s, n, h)
<1> DEFINE hh == IF h THEN 1 ELSE 0
           k  == Len(s) - n - hh
<1>1. s \in Seq(Buffer) /\ Len(s) \in Nat /\ n \in Nat /\ hh \in 0..1
  BY DEF Shape
<1>2. k \in 0..Len(s)
  BY <1>1 DEF Shape
<1>3. DoneAtHead(s) = k
  <2>1. \A i \in 1..Len(s) : s[i].done <=> i <= k
    BY DEF Shape
  <2>2. DOMAIN s = 1..Len(s)
    BY <1>1
  <2> QED
    BY <2>1, <2>2, <1>1, <1>2, DoneAtHeadIs
<1>4. Rest(s) = SubSeq(s, k + 1, Len(s))
  BY <1>3 DEF Rest
<1>5. /\ Rest(s) \in Seq(Buffer)
      /\ Len(Rest(s)) = n + hh
      /\ \A i \in 1..(n + hh) : Rest(s)[i] = s[k + i]
  BY <1>1, <1>2, <1>4
<1> HIDE DEF hh
<1>6. \A i \in 1..Len(Rest(s)) :
        /\ Rest(s)[i].dequeued <=> i <= Len(Rest(s)) - n
        /\ Rest(s)[i].done <=> i <= Len(Rest(s)) - n - hh
  <2>0. Len(Rest(s)) - n = hh /\ Len(Rest(s)) - n - hh = 0
    BY <1>1, <1>5
  <2> SUFFICES ASSUME NEW i \in 1..(n + hh)
               PROVE  /\ Rest(s)[i].dequeued <=> i <= hh
                      /\ Rest(s)[i].done <=> i <= 0
    BY <1>5, <2>0
  <2>1. k + i \in 1..Len(s)
    BY <1>1, <1>2
  <2>2. /\ s[k + i].dequeued <=> k + i <= Len(s) - n
        /\ s[k + i].done <=> k + i <= k
    BY <2>1 DEF Shape, hh
  <2>3. Rest(s)[i] = s[k + i]
    BY <1>5
  <2>4. (k + i <= Len(s) - n <=> i <= hh) /\ (k + i <= k <=> i <= 0)
    BY <1>1, <1>2
  <2> QED
    BY <2>2, <2>3, <2>4
<1>7. Shape(Rest(s), n, h)
  <2>1. h \in BOOLEAN /\ n <= ND_HIWAT + 1 /\ Len(s) <= ND_HIWAT + 2
    BY DEF Shape
  <2>2. Len(Rest(s)) <= ND_HIWAT + 2
    BY <2>1, <1>1, <1>2, <1>5
  <2> QED
    BY <2>1, <2>2, <1>1, <1>5, <1>6 DEF Shape, hh
<1>8. \A i \in 1..n : Rest(s)[Len(Rest(s)) - n + i] = s[Len(s) - n + i]
  <2> SUFFICES ASSUME NEW i \in 1..n
               PROVE  Rest(s)[hh + i] = s[k + (hh + i)]
    BY <1>1, <1>2, <1>5
  <2> QED
    BY <1>1, <1>5
<1>9. Waiting(Rest(s), n) = Waiting(s, n)
  BY <1>8 DEF Waiting
<1> QED
  BY <1>1, <1>2, <1>3, <1>5, <1>7, <1>9 DEF hh, Collected
---------------------------------------------------------------------------
(* The invariant, queue by queue.                                          *)
Types == /\ busy \in Int
         /\ q \in [Ndesc -> Seq(Buffer)] /\ cnt \in [Ndesc -> Nat]
         /\ ovfl \in [Ndesc -> BOOLEAN] /\ held \in [Ndesc -> BOOLEAN]

ShapeInv == Types /\ \A d \in Ndesc : Shape(q[d], cnt[d], held[d])

(* The shape, in the words of the types and properties of Nbuf.            *)
LEMMA InvIsShape == Inv <=> ShapeInv
<1>1. TypeOK <=> Types
  BY DEF TypeOK, Types
<1>2. ASSUME Types, NEW d \in Ndesc
      PROVE  /\ q[d] \in Seq(Buffer) /\ cnt[d] \in Nat /\ held[d] \in BOOLEAN
             /\ Len(q[d]) \in Nat /\ DOMAIN q[d] = 1..Len(q[d])
  BY <1>2 DEF Types
<1>3. ASSUME Inv PROVE ShapeInv
  <2>1. Types
    BY <1>1, <1>3 DEF Inv
  <2>2. ASSUME NEW d \in Ndesc PROVE Shape(q[d], cnt[d], held[d])
    <3>1. /\ Finished(d) >= 0
          /\ \A i \in DOMAIN q[d] : /\ q[d][i].dequeued <=> i <= Dequeued(d)
                                    /\ q[d][i].done <=> i <= Finished(d)
          /\ cnt[d] <= ND_HIWAT + 1 /\ Len(q[d]) <= ND_HIWAT + 2
      BY <1>3 DEF Inv, BufferInUseKept, QueueBounded
    <3> QED
      BY <3>1, <2>1, <1>2 DEF Shape, Dequeued, Finished
  <2> QED
    BY <2>1, <2>2 DEF ShapeInv
<1>4. ASSUME ShapeInv PROVE Inv
  <2>1. Types
    BY <1>4 DEF ShapeInv
  <2>2. ASSUME NEW d \in Ndesc
        PROVE  /\ Finished(d) >= 0
               /\ \A i \in DOMAIN q[d] :
                    /\ q[d][i].dequeued <=> i <= Dequeued(d)
                    /\ q[d][i].done <=> i <= Finished(d)
               /\ cnt[d] <= ND_HIWAT + 1 /\ Len(q[d]) <= ND_HIWAT + 2
    <3>1. Shape(q[d], cnt[d], held[d])
      BY <1>4 DEF ShapeInv
    <3>2. Finished(d) >= 0
      BY <3>1, <2>1, <1>2 DEF Shape, Dequeued, Finished
    <3>3. \A i \in 1..Len(q[d]) : /\ q[d][i].dequeued <=> i <= Dequeued(d)
                                  /\ q[d][i].done <=> i <= Finished(d)
      BY <3>1 DEF Shape, Dequeued, Finished
    <3>4. cnt[d] <= ND_HIWAT + 1 /\ Len(q[d]) <= ND_HIWAT + 2
      BY <3>1 DEF Shape
    <3> QED
      BY <3>2, <3>3, <3>4, <2>1, <1>2
  <2> QED
    BY <1>1, <2>1, <2>2 DEF Inv, BufferInUseKept, QueueBounded
<1> QED
  BY <1>3, <1>4

LEMMA BufferData ==
  ASSUME NEW s \in Seq(Buffer)
  PROVE  \A i \in 1..Len(s) : s[i].data \in Data
<1>1. \A b \in Buffer : b.data \in Data
  BY DEF Buffer
<1>2. \A i \in 1..Len(s) : s[i] \in Buffer
  OBVIOUS
<1> QED
  BY <1>1, <1>2

(* Enqueueing appends to the part that waits.                              *)
LEMMA AppendToShape ==
  ASSUME NEW s, NEW n, NEW h, Shape(s, n, h), NEW x \in Data,
         n <= ND_HIWAT, Len(s) = n + (IF h THEN 1 ELSE 0)
  PROVE  /\ Shape(Append(s, NewBuffer(x)), n + 1, h)
         /\ Waiting(Append(s, NewBuffer(x)), n + 1) = Append(Waiting(s, n), x)
<1> DEFINE t  == Append(s, NewBuffer(x))
           hh == IF h THEN 1 ELSE 0
<1>1. /\ s \in Seq(Buffer) /\ Len(s) \in Nat /\ n \in Nat
      /\ hh \in 0..1 /\ h \in BOOLEAN /\ Len(s) = n + hh
  BY DEF Shape
<1>2. NewBuffer(x) \in Buffer
  BY DEF NewBuffer, Buffer
<1>3. /\ t \in Seq(Buffer) /\ Len(t) = Len(s) + 1
      /\ \A i \in 1..Len(s) : t[i] = s[i]
      /\ t[Len(s) + 1] = NewBuffer(x)
  BY <1>1, <1>2
<1>4. \A i \in 1..Len(s) : /\ s[i].dequeued <=> i <= hh
                           /\ s[i].done <=> i <= 0
  BY <1>1 DEF Shape
<1> HIDE DEF hh, t
<1>5. \A i \in 1..Len(t) : /\ t[i].dequeued <=> i <= Len(t) - (n + 1)
                           /\ t[i].done <=> i <= Len(t) - (n + 1) - hh
  <2> SUFFICES ASSUME NEW i \in 1..(Len(s) + 1)
               PROVE  /\ t[i].dequeued <=> i <= hh
                      /\ t[i].done <=> i <= 0
    BY <1>1, <1>3
  <2>1. CASE i <= Len(s)
    BY <2>1, <1>1, <1>3, <1>4
  <2>2. CASE i = Len(s) + 1
    <3>1. ~t[i].dequeued /\ ~t[i].done
      BY <2>2, <1>3 DEF NewBuffer
    <3>2. ~(i <= 0)
      BY <2>2, <1>1
    <3>3. i <= hh => Len(s) + 1 <= hh
      BY <2>2
    <3>4. ~(i <= hh)
      BY <3>3, <1>1
    <3> QED
      BY <3>1, <3>2, <3>4
  <2> QED
    BY <2>1, <2>2, <1>1
<1>6. Shape(t, n + 1, h)
  BY <1>1, <1>3, <1>5 DEF Shape, hh
<1>7. Waiting(t, n + 1) = Append(Waiting(s, n), x)
  <2>1. Waiting(s, n) \in Seq(Data) /\ Len(Waiting(s, n)) = n
    <3>1. \A i \in 1..n : Len(s) - n + i \in 1..Len(s)
      BY <1>1
    <3>2. \A i \in 1..Len(s) : s[i].data \in Data
      BY <1>1, BufferData
    <3> QED
      BY <3>1, <3>2, <1>1 DEF Waiting
  <2>2. Waiting(t, n + 1) \in Seq(Data) /\ Len(Waiting(t, n + 1)) = n + 1
    <3>1. \A i \in 1..(n + 1) : Len(t) - (n + 1) + i \in 1..Len(t)
      BY <1>1, <1>3
    <3>2. \A i \in 1..Len(t) : t[i].data \in Data
      BY <1>3, BufferData
    <3> QED
      BY <3>1, <3>2, <1>1 DEF Waiting
  <2>3. ASSUME NEW i \in 1..(n + 1)
        PROVE  Waiting(t, n + 1)[i] = Append(Waiting(s, n), x)[i]
    <3>1. Waiting(t, n + 1)[i] = t[hh + i].data
      BY <1>1, <1>3 DEF Waiting
    <3>2. CASE i <= n
      <4>1. Append(Waiting(s, n), x)[i] = Waiting(s, n)[i]
        BY <3>2, <2>1, <1>1
      <4>2. Waiting(s, n)[i] = s[hh + i].data
        BY <3>2, <1>1 DEF Waiting
      <4>3. t[hh + i] = s[hh + i]
        BY <3>2, <1>1, <1>3
      <4> QED
        BY <3>1, <4>1, <4>2, <4>3
    <3>3. CASE i = n + 1
      <4>1. Append(Waiting(s, n), x)[i] = x
        BY <3>3, <2>1, <1>1
      <4>2. t[hh + i] = NewBuffer(x)
        BY <3>3, <1>1, <1>3
      <4> QED
        BY <3>1, <4>1, <4>2 DEF NewBuffer
    <3>4. i <= n \/ i = n + 1
      BY <1>1
    <3> QED
      BY <3>2, <3>3, <3>4
  <2>4. Append(Waiting(s, n), x) \in Seq(Data)
        /\ Len(Append(Waiting(s, n), x)) = n + 1
    BY <2>1, <1>1
  <2> QED
    BY <2>2, <2>3, <2>4, <1>1
<1> QED
  BY <1>6, <1>7 DEF t

(* Taking the first waiting buffer out marks it, and is the Tail of what   *)
(* waits.                                                                  *)
LEMMA DequeueFromShape ==
  ASSUME NEW s, NEW n, Shape(s, n, FALSE),
         \E i \in DOMAIN s : ~s[i].dequeued,
         NEW t, t = [s EXCEPT ![FirstWaiting(s)].dequeued = TRUE]
  PROVE  /\ n > 0
         /\ Shape(t, n - 1, TRUE)
         /\ Waiting(t, n - 1) = Tail(Waiting(s, n))
<1>1. s \in Seq(Buffer) /\ Len(s) \in Nat /\ DOMAIN s = 1..Len(s) /\ n \in Nat
  BY DEF Shape
<1>2. n <= Len(s) /\ \A i \in 1..Len(s) : /\ s[i].dequeued <=> i <= Len(s) - n
                                          /\ s[i].done <=> i <= Len(s) - n
  BY <1>1 DEF Shape
<1> DEFINE m == Len(s) - n
<1>3. n > 0 /\ m \in 0..Len(s) /\ m < Len(s)
  BY <1>1, <1>2
<1>4. FirstWaiting(s) = m + 1
  BY <1>1, <1>2, <1>3, FirstWaitingIs
<1> HIDE DEF m
<1>5. m + 1 \in 1..Len(s) /\ m \in Nat
  BY <1>1, <1>3
<1>6. /\ t \in Seq(Buffer) /\ Len(t) = Len(s)
      /\ t[m + 1] = [s[m + 1] EXCEPT !.dequeued = TRUE]
      /\ \A i \in 1..Len(s) : i # m + 1 => t[i] = s[i]
  <2> DEFINE b == [s[m + 1] EXCEPT !.dequeued = TRUE]
  <2>1. t = [s EXCEPT ![m + 1] = b]
    BY <1>4
  <2>2. s[m + 1] \in Buffer
    BY <1>1, <1>5
  <2>3. b \in Buffer
    BY <2>2 DEF Buffer
  <2> HIDE DEF b
  <2>4. /\ t \in Seq(Buffer) /\ Len(t) = Len(s)
        /\ t[m + 1] = b /\ \A i \in 1..Len(s) : i # m + 1 => t[i] = s[i]
    <3> DEFINE u == [s EXCEPT ![m + 1] = b]
    <3>1. /\ u \in Seq(Buffer) /\ Len(u) = Len(s)
          /\ \A i \in 1..Len(s) : u[i] = IF i = m + 1 THEN b ELSE s[i]
      BY <2>3, <1>1, <1>5, ExceptSeq
    <3> HIDE DEF u
    <3>2. t = u
      BY <2>1 DEF u
    <3>3. u[m + 1] = b
      BY <3>1, <1>5
    <3>4. \A i \in 1..Len(s) : i # m + 1 => u[i] = s[i]
      BY <3>1
    <3> QED
      BY <3>1, <3>2, <3>3, <3>4
  <2> QED
    BY <2>4 DEF b
<1>7. \A b \in Buffer : /\ [b EXCEPT !.dequeued = TRUE].dequeued = TRUE
                        /\ [b EXCEPT !.dequeued = TRUE].done = b.done
                        /\ [b EXCEPT !.dequeued = TRUE].data = b.data
  BY DEF Buffer
<1>8. s[m + 1] \in Buffer
  BY <1>1, <1>5
<1>9. \A i \in 1..Len(s) : /\ t[i].dequeued <=> i <= m + 1
                           /\ t[i].done <=> i <= m
                           /\ t[i].data = s[i].data
  <2> SUFFICES ASSUME NEW i \in 1..Len(s)
               PROVE  /\ t[i].dequeued <=> i <= m + 1
                      /\ t[i].done <=> i <= m
                      /\ t[i].data = s[i].data
    OBVIOUS
  <2>1. /\ s[i].dequeued <=> i <= m
        /\ s[i].done <=> i <= m
    BY <1>2 DEF m
  <2>2. CASE i = m + 1
    <3>1. t[i] = [s[i] EXCEPT !.dequeued = TRUE] /\ s[i] \in Buffer
      BY <2>2, <1>6, <1>8
    <3>2. t[i].dequeued = TRUE /\ t[i].done = s[i].done /\ t[i].data = s[i].data
      BY <3>1, <1>7
    <3>3. i <= m + 1
      BY <2>2, <1>5
    <3> QED
      BY <3>2, <3>3, <2>1
  <2>3. CASE i # m + 1
    <3>1. t[i] = s[i]
      BY <2>3, <1>6
    <3>2. i <= m + 1 <=> i <= m
      BY <2>3, <1>1, <1>5
    <3> QED
      BY <3>1, <3>2, <2>1
  <2> QED
    BY <2>2, <2>3
<1>10. Shape(t, n - 1, TRUE)
  <2>1. m + 1 = Len(t) - (n - 1) /\ m = Len(t) - (n - 1) - 1
    BY <1>1, <1>6 DEF m
  <2>2. /\ n - 1 \in Nat /\ (n - 1) + 1 <= Len(t)
        /\ n - 1 <= ND_HIWAT + 1 /\ Len(t) <= ND_HIWAT + 2
    BY <1>1, <1>2, <1>3, <1>6 DEF Shape
  <2>3. \A i \in 1..Len(t) : /\ t[i].dequeued <=> i <= Len(t) - (n - 1)
                             /\ t[i].done <=> i <= Len(t) - (n - 1) - 1
    BY <2>1, <1>6, <1>9
  <2> QED
    BY <2>2, <2>3, <1>6 DEF Shape
<1>11. Waiting(t, n - 1) = Tail(Waiting(s, n))
  <2>1. \A i \in 1..n : m + i \in 1..Len(s)
    BY <1>1, <1>3 DEF m
  <2>2. \A i \in 1..Len(s) : s[i].data \in Data
    BY <1>1, BufferData
  <2>3. Waiting(s, n) = [i \in 1..n |-> s[m + i].data]
    BY DEF Waiting, m
  <2>4. Waiting(s, n) \in Seq(Data) /\ Len(Waiting(s, n)) = n
    BY <2>1, <2>2, <2>3, <1>1
  <2>5. Waiting(t, n - 1) = [i \in 1..(n - 1) |-> t[(m + 1) + i].data]
    <3>1. Len(t) - (n - 1) = m + 1
      BY <1>1, <1>6 DEF m
    <3> QED
      BY <3>1 DEF Waiting
  <2>6. ASSUME NEW i \in 1..(n - 1)
        PROVE  (m + 1) + i = m + (i + 1) /\ i + 1 \in 1..n
    <3>1. n \in Nat /\ m \in Nat
      BY <1>1, <1>5
    <3> QED
      BY <3>1
  <2>7. \A i \in 1..(n - 1) : t[(m + 1) + i].data = Waiting(s, n)[i + 1]
    BY <2>1, <2>3, <2>6, <1>9
  <2>8. /\ Waiting(t, n - 1) \in Seq(Data) /\ Len(Waiting(t, n - 1)) = n - 1
        /\ \A i \in 1..(n - 1) : Waiting(t, n - 1)[i] = Waiting(s, n)[i + 1]
    <3>1. n - 1 \in Nat
      BY <1>1, <1>3
    <3>2. \A i \in 1..(n - 1) : Waiting(s, n)[i + 1] \in Data
      BY <2>4, <2>6
    <3>3. \A i \in 1..(n - 1) : t[(m + 1) + i].data \in Data
      BY <3>2, <2>7
    <3>4. Waiting(t, n - 1) \in Seq(Data) /\ Len(Waiting(t, n - 1)) = n - 1
      BY <3>1, <3>3, <2>5
    <3>5. \A i \in 1..(n - 1) : Waiting(t, n - 1)[i] = Waiting(s, n)[i + 1]
      BY <2>5, <2>7
    <3> QED
      BY <3>4, <3>5
  <2>9. /\ Tail(Waiting(s, n)) \in Seq(Data) /\ Len(Tail(Waiting(s, n))) = n - 1
        /\ \A i \in 1..(n - 1) : Tail(Waiting(s, n))[i] = Waiting(s, n)[i + 1]
    <3>1. Waiting(s, n) # <<>>
      BY <2>4, <1>1, <1>3
    <3> QED
      BY <3>1, <2>4, HeadTailProperties
  <2> QED
    BY <2>8, <2>9, SeqEqual
<1> QED
  BY <1>3, <1>10, <1>11

(* Only one buffer was dequeued and is not done: the consumer's; marking   *)
(* it done changes nothing of what waits.                                  *)
LEMMA DoneInShape ==
  ASSUME NEW s, NEW n, Shape(s, n, TRUE),
         NEW p \in DOMAIN s, s[p].dequeued, ~s[p].done,
         NEW t, t = [s EXCEPT ![p].done = TRUE]
  PROVE  Shape(t, n, FALSE) /\ Waiting(t, n) = Waiting(s, n)
<1>1. s \in Seq(Buffer) /\ Len(s) \in Nat /\ DOMAIN s = 1..Len(s) /\ n \in Nat
  BY DEF Shape
<1>2. \A i \in 1..Len(s) : /\ s[i].dequeued <=> i <= Len(s) - n
                           /\ s[i].done <=> i <= Len(s) - n - 1
  BY <1>1 DEF Shape
<1>3. n + 1 <= Len(s) /\ n <= ND_HIWAT + 1 /\ Len(s) <= ND_HIWAT + 2
  BY DEF Shape
<1>4. p \in 1..Len(s) /\ s[p] \in Buffer
  BY <1>1
<1>5. p = Len(s) - n
  BY <1>1, <1>2, <1>4
<1> DEFINE b == [s[p] EXCEPT !.done = TRUE]
<1>6. b \in Buffer
  BY <1>4 DEF Buffer
<1>7. \A c \in Buffer : /\ [c EXCEPT !.done = TRUE].done = TRUE
                        /\ [c EXCEPT !.done = TRUE].dequeued = c.dequeued
                        /\ [c EXCEPT !.done = TRUE].data = c.data
  BY DEF Buffer
<1>8. b.done = TRUE /\ b.dequeued = s[p].dequeued /\ b.data = s[p].data
  BY <1>4, <1>7
<1> HIDE DEF b
<1>9. /\ t \in Seq(Buffer) /\ Len(t) = Len(s)
      /\ t[p] = b /\ \A i \in 1..Len(s) : i # p => t[i] = s[i]
  <2> DEFINE u == [s EXCEPT ![p] = b]
  <2>1. /\ u \in Seq(Buffer) /\ Len(u) = Len(s)
        /\ \A i \in 1..Len(s) : u[i] = IF i = p THEN b ELSE s[i]
    BY <1>1, <1>4, <1>6, ExceptSeq
  <2>2. t = u
    BY DEF b
  <2> HIDE DEF u
  <2>3. u[p] = b
    BY <2>1, <1>4
  <2>4. \A i \in 1..Len(s) : i # p => u[i] = s[i]
    BY <2>1
  <2> QED
    BY <2>1, <2>2, <2>3, <2>4
<1>10. \A i \in 1..Len(s) : /\ t[i].dequeued <=> i <= Len(s) - n
                            /\ t[i].done <=> i <= Len(s) - n
                            /\ t[i].data = s[i].data
  <2> SUFFICES ASSUME NEW i \in 1..Len(s)
               PROVE  /\ t[i].dequeued <=> i <= Len(s) - n
                      /\ t[i].done <=> i <= Len(s) - n
                      /\ t[i].data = s[i].data
    OBVIOUS
  <2>1. CASE i = p
    <3>1. i <= Len(s) - n
      BY <2>1, <1>5, <1>1
    <3> QED
      BY <2>1, <3>1, <1>8, <1>9
  <2>2. CASE i # p
    <3>1. t[i] = s[i]
      BY <2>2, <1>9
    <3>2. i <= Len(s) - n <=> i <= Len(s) - n - 1
      BY <2>2, <1>1, <1>5
    <3> QED
      BY <3>1, <3>2, <1>2
  <2> QED
    BY <2>1, <2>2
<1>11. Shape(t, n, FALSE)
  <2>1. \A i \in 1..Len(t) : /\ t[i].dequeued <=> i <= Len(t) - n
                             /\ t[i].done <=> i <= Len(t) - n - 0
    BY <1>1, <1>9, <1>10
  <2>2. n + 0 <= Len(t) /\ n <= ND_HIWAT + 1 /\ Len(t) <= ND_HIWAT + 2
    BY <1>1, <1>3, <1>9
  <2> QED
    BY <2>1, <2>2, <1>1, <1>9 DEF Shape
<1>12. Waiting(t, n) = Waiting(s, n)
  <2>1. \A i \in 1..n : Len(s) - n + i \in 1..Len(s)
    BY <1>1, <1>3
  <2>2. \A i \in 1..n : t[Len(t) - n + i].data = s[Len(s) - n + i].data
    BY <2>1, <1>9, <1>10
  <2> QED
    BY <2>2 DEF Waiting
<1> QED
  BY <1>11, <1>12

LEMMA EmptyShape == Shape(<<>>, 0, FALSE) /\ Waiting(<<>>, 0) = <<>>
<1>1. <<>> \in Seq(Buffer) /\ Len(<<>>) = 0
  OBVIOUS
<1>2. Shape(<<>>, 0, FALSE)
  BY <1>1 DEF Shape
<1>3. Waiting(<<>>, 0) = <<>>
  <2>1. Waiting(<<>>, 0) \in Seq(Data) /\ Len(Waiting(<<>>, 0)) = 0
    BY DEF Waiting
  <2> QED
    BY <2>1
<1> QED
  BY <1>2, <1>3
---------------------------------------------------------------------------
(* The steps.                                                              *)

\* What a step does to a queue d: its shape is kept, and the bounded FIFO
\* takes a step or none.
Moves(d) == /\ Shape(q[d], cnt[d], held[d])'
            /\ [Abstract(d)!Next]_(Abstract(d)!fifo)

\* The other queues are left alone.
Others(d) == \A e \in Ndesc \ {d} : /\ q'[e] = q[e] /\ cnt'[e] = cnt[e]
                                    /\ ovfl'[e] = ovfl[e] /\ held'[e] = held[e]

(* A step of the abstract FIFO, in terms of the part that waits.           *)
LEMMA AbstractNext ==
  ASSUME ShapeInv, NEW d \in Ndesc
  PROVE  Abstract(d)!Next <=>
           LET w  == Waiting(q[d], cnt[d])
               w1 == Waiting(q[d], cnt[d])'
               R  == (ovfl[d] /\ Len(w) >= ND_LOWAT) \/ Len(w) > ND_HIWAT
           IN  \/ R /\ ovfl'[d] = TRUE /\ w1 = w
               \/ w # <<>> /\ w1 = Tail(w) /\ ovfl'[d] = ovfl[d]
               \/ w1 = <<>> /\ ovfl'[d] = FALSE
               \/ \E x \in Data : ~R /\ w1 = Append(w, x) /\ ovfl'[d] = FALSE
BY DEF Abstract!Next, Abstract!Drop, Abstract!Take, Abstract!Reset, Abstract!Accept,
       Abstract!Refusing, Waiting, Dequeued

\* The other queues are as they were, and all have their types.
Kept(d) == Types' /\ Others(d)

(* What waits in a queue is a sequence of data, cnt of them.               *)
LEMMA WaitingIs ==
  ASSUME NEW s, NEW n, NEW h \in BOOLEAN, Shape(s, n, h)
  PROVE  Waiting(s, n) \in Seq(Data) /\ Len(Waiting(s, n)) = n /\ n \in Nat
<1>1. /\ s \in Seq(Buffer) /\ Len(s) \in Nat /\ n \in Nat
      /\ n <= Len(s)
  BY DEF Shape
<1>2. \A i \in 1..n : Len(s) - n + i \in 1..Len(s)
  BY <1>1
<1>3. \A i \in 1..Len(s) : s[i].data \in Data
  BY <1>1, BufferData
<1> QED
  BY <1>1, <1>2, <1>3 DEF Waiting

LEMMA AllocqMoves ==
  ASSUME ShapeInv, NEW d \in Ndesc, NEW x \in Data, nbuf_allocq(d, x)
  PROVE  Kept(d) /\ Moves(d)
<1>1. /\ busy \in Int /\ q \in [Ndesc -> Seq(Buffer)] /\ cnt \in [Ndesc -> Nat]
      /\ ovfl \in [Ndesc -> BOOLEAN] /\ held \in [Ndesc -> BOOLEAN]
      /\ Shape(q[d], cnt[d], held[d])
  BY DEF ShapeInv, Types
<1> DEFINE s == q[d]
           n == cnt[d]
           h == held[d]
           r == Rest(s)
           k == DoneAtHead(s)
<1>2. /\ Shape(r, n, h) /\ Waiting(r, n) = Waiting(s, n)
      /\ Len(r) = n + (IF h THEN 1 ELSE 0) /\ k \in Nat
  <2>1. Collected(s, n, h)
    BY <1>1, RestOfShape
  <2> QED
    BY <2>1 DEF Collected
<1>3. Waiting(s, n) \in Seq(Data) /\ Len(Waiting(s, n)) = n /\ n \in Nat
  BY <1>1, WaitingIs
<1>4. r \in Seq(Buffer)
  BY <1>2 DEF Shape
<1>5. /\ ovfl' = [ovfl EXCEPT ![d] = Refused(d)] /\ held' = held
      /\ Refused(d) \in BOOLEAN
  <2>1. Refused(d) \in BOOLEAN
    BY DEF Refused
  <2> QED
    BY <2>1 DEF nbuf_allocq
<1>6. CASE Refused(d)
  <2>1. /\ q' = [q EXCEPT ![d] = r] /\ cnt' = cnt
        /\ busy' = (busy + 1) - (k + 1)
    BY <1>6 DEF nbuf_allocq, Unused, Rest
  <2> HIDE DEF r, k
  <2>2. q'[d] = r /\ cnt'[d] = n /\ held'[d] = h /\ ovfl'[d] = TRUE
    BY <2>1, <1>1, <1>5, <1>6
  <2>3. Kept(d)
    BY <2>1, <1>1, <1>2, <1>4, <1>5 DEF Kept, Types, Others
  <2>4. Shape(q[d], cnt[d], held[d])'
    BY <2>2, <1>2
  <2>5. Waiting(q[d], cnt[d])' = Waiting(s, n)
    BY <2>2, <1>2
  <2>6. (ovfl[d] /\ Len(Waiting(s, n)) >= ND_LOWAT) \/ Len(Waiting(s, n)) > ND_HIWAT
    BY <1>3, <1>6 DEF Refused
  <2>7. Abstract(d)!Next
    BY <2>2, <2>5, <2>6, AbstractNext
  <2> QED
    BY <2>3, <2>4, <2>7 DEF Moves
<1>7. CASE ~Refused(d)
  <2> DEFINE t == Append(r, NewBuffer(x))
  <2>1. /\ q' = [q EXCEPT ![d] = t] /\ cnt' = [cnt EXCEPT ![d] = @ + 1]
        /\ busy' = (busy + 1) - k
    BY <1>7 DEF nbuf_allocq, Rest
  <2>2. n <= ND_HIWAT
    BY <1>3, <1>7 DEF Refused
  <2>3. Shape(t, n + 1, h) /\ Waiting(t, n + 1) = Append(Waiting(r, n), x)
    BY <2>2, <1>2, AppendToShape
  <2>4. t \in Seq(Buffer)
    BY <2>3 DEF Shape
  <2> HIDE DEF t, r, k
  <2>5. q'[d] = t /\ cnt'[d] = n + 1 /\ held'[d] = h /\ ovfl'[d] = FALSE
    BY <2>1, <1>1, <1>5, <1>7
  <2>6. Kept(d)
    BY <2>1, <2>4, <1>1, <1>2, <1>5 DEF Kept, Types, Others
  <2>7. Shape(q[d], cnt[d], held[d])'
    BY <2>3, <2>5
  <2>8. Waiting(q[d], cnt[d])' = Append(Waiting(s, n), x)
    BY <2>3, <2>5, <1>2
  <2>9. ~((ovfl[d] /\ Len(Waiting(s, n)) >= ND_LOWAT) \/ Len(Waiting(s, n)) > ND_HIWAT)
    BY <1>3, <1>7 DEF Refused
  <2>10. Abstract(d)!Next
    BY <2>5, <2>8, <2>9, AbstractNext
  <2> QED
    BY <2>6, <2>7, <2>10 DEF Moves
<1> QED
  BY <1>6, <1>7

LEMMA DequeueMoves ==
  ASSUME ShapeInv, NEW d \in Ndesc, nbuf_dequeue(d)
  PROVE  Kept(d) /\ Moves(d)
<1> DEFINE s == q[d]
           n == cnt[d]
           t == [s EXCEPT ![FirstWaiting(s)].dequeued = TRUE]
<1>1. /\ busy \in Int /\ q \in [Ndesc -> Seq(Buffer)] /\ cnt \in [Ndesc -> Nat]
      /\ ovfl \in [Ndesc -> BOOLEAN] /\ held \in [Ndesc -> BOOLEAN]
      /\ Shape(s, n, held[d])
  BY DEF ShapeInv, Types
<1>2. /\ ~held[d] /\ \E i \in DOMAIN s : ~s[i].dequeued
      /\ q' = [q EXCEPT ![d] = t] /\ cnt' = [cnt EXCEPT ![d] = @ - 1]
      /\ held' = [held EXCEPT ![d] = TRUE] /\ busy' = busy /\ ovfl' = ovfl
  BY DEF nbuf_dequeue
<1>3. held[d] = FALSE
  BY <1>1, <1>2
<1>4. Shape(s, n, FALSE)
  BY <1>1, <1>3
<1>5. n > 0 /\ Shape(t, n - 1, TRUE) /\ Waiting(t, n - 1) = Tail(Waiting(s, n))
  BY <1>2, <1>4, DequeueFromShape
<1>6. Waiting(s, n) \in Seq(Data) /\ Len(Waiting(s, n)) = n /\ n \in Nat
  BY <1>4, WaitingIs
<1>7. t \in Seq(Buffer)
  BY <1>5 DEF Shape
<1> HIDE DEF t
<1>8. q'[d] = t /\ cnt'[d] = n - 1 /\ held'[d] = TRUE /\ ovfl'[d] = ovfl[d]
  BY <1>1, <1>2
<1>9. Kept(d)
  <2>1. n - 1 \in Nat
    BY <1>5, <1>6
  <2> QED
    BY <2>1, <1>1, <1>2, <1>7 DEF Kept, Types, Others
<1>10. Shape(q[d], cnt[d], held[d])'
  BY <1>5, <1>8
<1>11. Waiting(q[d], cnt[d])' = Tail(Waiting(s, n)) /\ Waiting(s, n) # <<>>
  BY <1>5, <1>6, <1>8
<1>12. Abstract(d)!Next
  BY <1>8, <1>11, AbstractNext
<1> QED
  BY <1>9, <1>10, <1>12 DEF Moves

LEMMA DoneMoves ==
  ASSUME ShapeInv, NEW d \in Ndesc, web_to_app_done(d)
  PROVE  Kept(d) /\ Moves(d)
<1> DEFINE s == q[d]
           n == cnt[d]
<1>1. /\ busy \in Int /\ q \in [Ndesc -> Seq(Buffer)] /\ cnt \in [Ndesc -> Nat]
      /\ ovfl \in [Ndesc -> BOOLEAN] /\ held \in [Ndesc -> BOOLEAN]
      /\ Shape(s, n, held[d])
  BY DEF ShapeInv, Types
<1>2. PICK p \in DOMAIN s : /\ s[p].dequeued /\ ~s[p].done
                            /\ q' = [q EXCEPT ![d][p].done = TRUE]
  BY DEF web_to_app_done
<1>3. /\ held[d] /\ held' = [held EXCEPT ![d] = FALSE]
      /\ busy' = busy /\ cnt' = cnt /\ ovfl' = ovfl
  BY DEF web_to_app_done
<1> DEFINE t == [s EXCEPT ![p].done = TRUE]
<1>4. Shape(s, n, TRUE)
  <2>1. held[d] = TRUE
    BY <1>1, <1>3
  <2> QED
    BY <2>1, <1>1
<1>5. Shape(t, n, FALSE) /\ Waiting(t, n) = Waiting(s, n)
  BY <1>2, <1>4, DoneInShape
<1>6. t \in Seq(Buffer)
  BY <1>5 DEF Shape
<1>7. q' = [q EXCEPT ![d] = t]
  BY <1>2
<1> HIDE DEF t
<1>8. q'[d] = t /\ cnt'[d] = n /\ held'[d] = FALSE /\ ovfl'[d] = ovfl[d]
  BY <1>1, <1>3, <1>7
<1>9. Kept(d)
  BY <1>1, <1>3, <1>6, <1>7 DEF Kept, Types, Others
<1>10. Shape(q[d], cnt[d], held[d])'
  BY <1>5, <1>8
<1>11. (Abstract(d)!fifo)' = Abstract(d)!fifo
  BY <1>5, <1>8 DEF Abstract!fifo, Waiting, Dequeued
<1> QED
  BY <1>9, <1>10, <1>11 DEF Moves

LEMMA CleanupMoves ==
  ASSUME ShapeInv, NEW d \in Ndesc, nbuf_cleanup(d)
  PROVE  Kept(d) /\ Moves(d)
<1>1. /\ busy \in Int /\ q \in [Ndesc -> Seq(Buffer)] /\ cnt \in [Ndesc -> Nat]
      /\ ovfl \in [Ndesc -> BOOLEAN] /\ held \in [Ndesc -> BOOLEAN]
  BY DEF ShapeInv, Types
<1>2. /\ q' = [q EXCEPT ![d] = <<>>] /\ cnt' = [cnt EXCEPT ![d] = 0]
      /\ ovfl' = [ovfl EXCEPT ![d] = FALSE] /\ held' = [held EXCEPT ![d] = FALSE]
      /\ busy' = busy - Len(q[d])
  BY DEF nbuf_cleanup
<1>3. q'[d] = <<>> /\ cnt'[d] = 0 /\ held'[d] = FALSE /\ ovfl'[d] = FALSE
  BY <1>1, <1>2
<1>4. Kept(d)
  <2>1. Len(q[d]) \in Nat /\ <<>> \in Seq(Buffer)
    BY <1>1
  <2> QED
    BY <2>1, <1>1, <1>2 DEF Kept, Types, Others
<1>5. Shape(q[d], cnt[d], held[d])' /\ Waiting(q[d], cnt[d])' = <<>>
  BY <1>3, EmptyShape
<1>6. Abstract(d)!Next
  BY <1>3, <1>5, AbstractNext
<1> QED
  BY <1>4, <1>5, <1>6 DEF Moves
---------------------------------------------------------------------------
\* Each queue takes a step of its FIFO or none.
FifosMove == \A d \in Ndesc : [Abstract(d)!Next]_(Abstract(d)!fifo)

LEMMA InitInv == Init => ShapeInv
<1> SUFFICES ASSUME Init PROVE ShapeInv
  OBVIOUS
<1>1. Types
  <2>1. <<>> \in Seq(Buffer)
    OBVIOUS
  <2> QED
    BY <2>1 DEF Init, Types
<1>2. ASSUME NEW d \in Ndesc PROVE Shape(q[d], cnt[d], held[d])
  <2>1. q[d] = <<>> /\ cnt[d] = 0 /\ held[d] = FALSE
    BY DEF Init
  <2> QED
    BY <2>1, EmptyShape
<1> QED
  BY <1>1, <1>2 DEF ShapeInv

(* Every step keeps the shape, and is a step of each FIFO.                 *)
LEMMA NextInv == ShapeInv /\ [Next]_vars => ShapeInv' /\ FifosMove
<1> SUFFICES ASSUME ShapeInv, [Next]_vars PROVE ShapeInv' /\ FifosMove
  OBVIOUS
<1>1. ASSUME NEW d \in Ndesc, Kept(d), Moves(d) PROVE ShapeInv' /\ FifosMove
  <2>1. ASSUME NEW e \in Ndesc
        PROVE  /\ Shape(q[e], cnt[e], held[e])'
               /\ [Abstract(e)!Next]_(Abstract(e)!fifo)
    <3>1. CASE e = d
      BY <3>1, <1>1 DEF Moves
    <3>2. CASE e # d
      <4>1. q'[e] = q[e] /\ cnt'[e] = cnt[e] /\ ovfl'[e] = ovfl[e] /\ held'[e] = held[e]
        BY <3>2, <1>1 DEF Kept, Others
      <4>2. Shape(q[e], cnt[e], held[e])
        BY DEF ShapeInv
      <4>3. Shape(q[e], cnt[e], held[e])'
        BY <4>1, <4>2
      <4>4. (Abstract(e)!fifo)' = Abstract(e)!fifo
        BY <4>1 DEF Abstract!fifo, Dequeued
      <4> QED
        BY <4>3, <4>4
    <3> QED
      BY <3>1, <3>2
  <2>2. Types'
    BY <1>1 DEF Kept
  <2> QED
    BY <2>1, <2>2 DEF ShapeInv, FifosMove
<1>2. ASSUME NEW d \in Ndesc, NEW x \in Data, nbuf_allocq(d, x)
      PROVE  ShapeInv' /\ FifosMove
  BY <1>1, <1>2, AllocqMoves
<1>3. ASSUME NEW d \in Ndesc, nbuf_dequeue(d)
      PROVE  ShapeInv' /\ FifosMove
  BY <1>1, <1>3, DequeueMoves
<1>4. ASSUME NEW d \in Ndesc, web_to_app_done(d)
      PROVE  ShapeInv' /\ FifosMove
  BY <1>1, <1>4, DoneMoves
<1>5. ASSUME NEW d \in Ndesc, nbuf_cleanup(d)
      PROVE  ShapeInv' /\ FifosMove
  BY <1>1, <1>5, CleanupMoves
<1>6. CASE UNCHANGED vars
  <2>1. busy' = busy /\ q' = q /\ cnt' = cnt /\ ovfl' = ovfl /\ held' = held
    BY <1>6 DEF vars
  <2>2. ShapeInv'
    BY <2>1 DEF ShapeInv, Types
  <2>3. ASSUME NEW d \in Ndesc PROVE (Abstract(d)!fifo)' = Abstract(d)!fifo
    BY <2>1 DEF Abstract!fifo, Dequeued
  <2> QED
    BY <2>2, <2>3 DEF FifosMove
<1> QED
  BY <1>2, <1>3, <1>4, <1>5, <1>6 DEF Next

(* The shape of the queues is inductive.                                   *)
THEOREM ShapeIsInvariant == Spec => []ShapeInv
<1>1. ShapeInv /\ [Next]_vars => ShapeInv'
  BY NextInv
<1> QED
  BY InitInv, <1>1, PTL DEF Spec

(* Every state reached by nbuf.cpp has the types of the model.             *)
THEOREM TypesAreCorrect == Spec => []TypeOK
<1>1. ShapeInv => TypeOK
  BY InvIsShape DEF Inv
<1> QED
  BY <1>1, ShapeIsInvariant, PTL

(* The buffer a consumer uses is never collected, nor one that is done     *)
(* returned by nbuf_dequeue(), for any number of queues and any marks.     *)
THEOREM BufferInUseIsKept == Spec => []BufferInUseKept
<1>1. ShapeInv => BufferInUseKept
  BY InvIsShape DEF Inv
<1> QED
  BY <1>1, ShapeIsInvariant, PTL

(* A queue never occupies more than ND_HIWAT + 2 buffers of the pool,      *)
(* whatever the order of its producer's and its consumer's calls.          *)
THEOREM QueuesAreBounded == Spec => []QueueBounded
<1>1. ShapeInv => QueueBounded
  BY InvIsShape DEF Inv
<1> QED
  BY <1>1, ShapeIsInvariant, PTL

(* The buffers of the pool are counted as a set of places, of which a step *)
(* changes those of one queue.                                             *)
Counted == IsFiniteSet(Enqueued) /\ NoLeak

(* A queue has as many places as buffers.                                  *)
LEMMA QueuePlaces ==
  ASSUME NEW d, NEW s \in Seq(Buffer)
  PROVE  /\ IsFiniteSet({d} \X DOMAIN s)
         /\ Cardinality({d} \X DOMAIN s) = Len(s)
<1>1. DOMAIN s = 1..Len(s) /\ Len(s) \in Nat
  OBVIOUS
<1>2. IsFiniteSet(1..Len(s)) /\ Cardinality(1..Len(s)) = Len(s)
  <2>1. 1 \in Int /\ Len(s) \in Int
    BY <1>1
  <2>2. /\ IsFiniteSet(1..Len(s))
        /\ Cardinality(1..Len(s)) = IF 1 > Len(s) THEN 0 ELSE Len(s) - 1 + 1
    BY <2>1, FS_Interval
  <2> QED
    BY <1>1, <2>2
<1>3. IsFiniteSet({d}) /\ Cardinality({d}) = 1
  BY FS_Singleton
<1>4. /\ IsFiniteSet({d} \X (1..Len(s)))
      /\ Cardinality({d} \X (1..Len(s))) = 1 * Len(s)
  <2>1. /\ IsFiniteSet({d} \X (1..Len(s)))
        /\ Cardinality({d} \X (1..Len(s))) = Cardinality({d}) * Cardinality(1..Len(s))
    BY <1>2, <1>3, FS_Product
  <2> QED
    BY <1>2, <1>3, <2>1
<1>5. 1 * Len(s) = Len(s)
  <2>1. \A n \in Nat : 1 * n = n
    OBVIOUS
  <2> QED
    BY <1>1, <2>1, Zenon
<1>6. PICK T, n : T = 1..Len(s) /\ n = Len(s)
  OBVIOUS
<1>7. IsFiniteSet({d} \X T) /\ Cardinality({d} \X T) = n
  BY <1>4, <1>5, <1>6, Zenon
<1>8. DOMAIN s = T
  BY <1>1, <1>6, Zenon
<1> QED
  BY <1>6, <1>7, <1>8, Zenon

(* A step that changes one queue keeps the count if it takes from the pool *)
(* what the queue gains, and returns what it loses.                        *)
LEMMA CountChanges ==
  ASSUME Types, Types', Counted, NEW d \in Ndesc, Others(d),
         busy' = busy - Len(q[d]) + Len(q'[d])
  PROVE  Counted'
<1> DEFINE A == UNION {{e} \X DOMAIN q[e] : e \in Ndesc \ {d}}
           D == {d} \X DOMAIN q[d]
           E == {d} \X DOMAIN q'[d]
<1>1. /\ IsFiniteSet(D) /\ Cardinality(D) = Len(q[d])
      /\ IsFiniteSet(E) /\ Cardinality(E) = Len(q'[d])
      /\ Len(q[d]) \in Nat /\ Len(q'[d]) \in Nat
  <2>1. PICK s \in Seq(Buffer), t \in Seq(Buffer) : s = q[d] /\ t = q'[d]
    BY DEF Types
  <2>2. /\ IsFiniteSet({d} \X DOMAIN s) /\ Cardinality({d} \X DOMAIN s) = Len(s)
        /\ IsFiniteSet({d} \X DOMAIN t) /\ Cardinality({d} \X DOMAIN t) = Len(t)
    BY QueuePlaces
  <2>3. Len(s) \in Nat /\ Len(t) \in Nat
    OBVIOUS
  <2> QED
    BY <2>1, <2>2, <2>3, Zenon
<1>2. Enqueued = A \cup D /\ A \cap D = {} /\ A \cap E = {}
  BY DEF Enqueued
<1>3. Enqueued' = A \cup E
  <2>1. \A e \in Ndesc \ {d} : DOMAIN q'[e] = DOMAIN q[e]
    BY DEF Others
  <2> QED
    BY <2>1 DEF Enqueued
<1> HIDE DEF A, D, E
<1>4. IsFiniteSet(A) /\ Cardinality(A) \in Nat
  <2>1. IsFiniteSet(A)
    BY <1>2, FS_Subset DEF Counted
  <2> QED
    BY <2>1, FS_CardinalityType
<1>5. Cardinality(Enqueued) = Cardinality(A) + Len(q[d])
  <2>1. Cardinality(A \cup D) = Cardinality(A) + Cardinality(D) - Cardinality(A \cap D)
    BY <1>1, <1>4, FS_Union
  <2>2. Cardinality(A \cap D) = 0
    BY <1>2, FS_EmptySet, Zenon
  <2> QED
    BY <1>1, <1>2, <1>4, <2>1, <2>2
<1>6. /\ IsFiniteSet(A \cup E)
      /\ Cardinality(A \cup E) = Cardinality(A) + Len(q'[d])
  <2>1. /\ IsFiniteSet(A \cup E)
        /\ Cardinality(A \cup E) = Cardinality(A) + Cardinality(E) - Cardinality(A \cap E)
    BY <1>1, <1>4, FS_Union
  <2>2. Cardinality(A \cap E) = 0
    BY <1>2, FS_EmptySet, Zenon
  <2> QED
    BY <1>1, <1>2, <1>4, <2>1, <2>2
<1>7. busy = Cardinality(A) + Len(q[d])
  BY <1>5 DEF Counted, NoLeak
<1>8. busy' = Cardinality(A) + Len(q'[d])
  BY <1>1, <1>4, <1>7
<1>9. IsFiniteSet(Enqueued') /\ busy' = Cardinality(Enqueued')
  BY <1>3, <1>6, <1>8
<1> QED
  BY <1>9 DEF Counted, NoLeak

(* What a step takes from the pool it puts in a queue, and the reverse.    *)
LEMMA BusyFollows ==
  ASSUME ShapeInv, NEW d \in Ndesc,
         \/ \E x \in Data : nbuf_allocq(d, x)
         \/ nbuf_dequeue(d) \/ web_to_app_done(d) \/ nbuf_cleanup(d)
  PROVE  busy' = busy - Len(q[d]) + Len(q'[d])
<1>1. /\ busy \in Int /\ q \in [Ndesc -> Seq(Buffer)]
      /\ q[d] \in Seq(Buffer) /\ Len(q[d]) \in Nat
  BY DEF ShapeInv, Types
<1>2. CASE \E x \in Data : nbuf_allocq(d, x)
  <2>1. PICK x \in Data : nbuf_allocq(d, x)
    BY <1>2
  <2>2. PICK k, r : k = DoneAtHead(q[d]) /\ r = Rest(q[d])
    OBVIOUS
  <2>3. k \in Nat /\ r \in Seq(Buffer) /\ Len(r) = Len(q[d]) - k
    <3>1. Shape(q[d], cnt[d], held[d])
      BY DEF ShapeInv
    <3>2. Collected(q[d], cnt[d], held[d])
      BY <3>1, RestOfShape
    <3> QED
      BY <2>2, <3>2 DEF Collected, Shape
  <2>4. \/ q' = [q EXCEPT ![d] = r] /\ busy' = (busy + 1) - (k + 1)
        \/ q' = [q EXCEPT ![d] = Append(r, NewBuffer(x))] /\ busy' = (busy + 1) - k
    BY <2>1, <2>2 DEF nbuf_allocq, Rest, Unused
  <2>5. CASE q' = [q EXCEPT ![d] = r] /\ busy' = (busy + 1) - (k + 1)
    <3>1. q'[d] = r
      BY <1>1, <2>5
    <3> QED
      BY <1>1, <2>3, <2>5, <3>1
  <2>6. CASE q' = [q EXCEPT ![d] = Append(r, NewBuffer(x))] /\ busy' = (busy + 1) - k
    <3>1. PICK t : t = Append(r, NewBuffer(x))
      OBVIOUS
    <3>2. Len(t) = Len(r) + 1
      <4>1. NewBuffer(x) \in Buffer
        BY DEF NewBuffer, Buffer
      <4> QED
        BY <2>3, <3>1, <4>1
    <3>3. q'[d] = t
      BY <1>1, <2>6, <3>1, Zenon
    <3>4. Len(q'[d]) = Len(t)
      BY <3>3, Zenon
    <3>5. busy' = (busy + 1) - k
      BY <2>6
    <3> QED
      BY <1>1, <2>3, <3>2, <3>4, <3>5
  <2> QED
    BY <2>4, <2>5, <2>6
<1>3. CASE nbuf_dequeue(d)
  <2>1. q' = [q EXCEPT ![d] = [@ EXCEPT ![FirstWaiting(q[d])].dequeued = TRUE]]
        /\ busy' = busy
    BY <1>3 DEF nbuf_dequeue
  <2>2. q'[d] = [q[d] EXCEPT ![FirstWaiting(q[d])].dequeued = TRUE]
    BY <1>1, <2>1
  <2>3. Len(q'[d]) = Len(q[d])
    BY <1>1, <2>2
  <2> QED
    BY <1>1, <2>1, <2>3
<1>4. CASE web_to_app_done(d)
  <2>1. PICK i \in DOMAIN q[d] : q' = [q EXCEPT ![d][i].done = TRUE]
    BY <1>4 DEF web_to_app_done
  <2>2. q'[d] = [q[d] EXCEPT ![i].done = TRUE]
    BY <1>1, <2>1
  <2>3. Len(q'[d]) = Len(q[d]) /\ busy' = busy
    BY <1>1, <1>4, <2>2 DEF web_to_app_done
  <2> QED
    BY <1>1, <2>3
<1>5. CASE nbuf_cleanup(d)
  <2>1. q' = [q EXCEPT ![d] = <<>>] /\ busy' = busy - Len(q[d])
    BY <1>5 DEF nbuf_cleanup
  <2>2. Len(q'[d]) = 0
    BY <1>1, <2>1
  <2> QED
    BY <1>1, <2>1, <2>2
<1> QED
  BY <1>2, <1>3, <1>4, <1>5

(* Every step keeps the count of the pool.                                 *)
LEMMA NextCounts == ShapeInv /\ Counted /\ [Next]_vars => Counted'
<1> SUFFICES ASSUME ShapeInv, Counted, [Next]_vars PROVE Counted'
  OBVIOUS
<1>1. Types /\ Types'
  BY NextInv DEF ShapeInv
<1>2. ASSUME NEW d \in Ndesc,
             \/ \E x \in Data : nbuf_allocq(d, x)
             \/ nbuf_dequeue(d) \/ web_to_app_done(d) \/ nbuf_cleanup(d)
      PROVE  Counted'
  <2>1. Others(d)
    BY <1>2, AllocqMoves, DequeueMoves, DoneMoves, CleanupMoves DEF Kept
  <2>2. busy' = busy - Len(q[d]) + Len(q'[d])
    BY <1>2, BusyFollows
  <2> QED
    BY <1>1, <2>1, <2>2, CountChanges
<1>3. CASE UNCHANGED vars
  BY <1>3 DEF vars, Counted, NoLeak, Enqueued
<1> QED
  BY <1>2, <1>3 DEF Next

(* No buffer leaks: those taken from the pool are as many as those in the  *)
(* queues, for any number of queues and any size of the pool.              *)
THEOREM NothingLeaks == Spec => []NoLeak
<1>1. Init => Counted
  <2> SUFFICES ASSUME Init PROVE Counted
    OBVIOUS
  <2>1. Enqueued = {} /\ busy = 0
    BY DEF Init, Enqueued
  <2> QED
    BY <2>1, FS_EmptySet DEF Counted, NoLeak
<1>2. Counted => NoLeak
  BY DEF Counted
<1> QED
  BY <1>1, <1>2, NextCounts, ShapeIsInvariant, PTL DEF Spec

(* Each queue implements a bounded FIFO with hysteresis.                   *)
THEOREM QueuesImplementFifos == Spec => QueuesAreFifos
<1>1. Init => \A d \in Ndesc : Abstract(d)!Init
  <2> SUFFICES ASSUME Init, NEW d \in Ndesc PROVE Abstract(d)!Init
    OBVIOUS
  <2>1. q[d] = <<>> /\ cnt[d] = 0 /\ ovfl[d] = FALSE
    BY DEF Init
  <2>2. Waiting(q[d], cnt[d]) = <<>>
    BY <2>1, EmptyShape
  <2> QED
    BY <2>1, <2>2 DEF Abstract!Init, Waiting, Dequeued
<1>2. ShapeInv /\ [Next]_vars => [FifosMove]_vars
  BY NextInv
<1>3. Spec => [][FifosMove]_vars
  BY <1>2, ShapeIsInvariant, PTL DEF Spec
<1>4. QueuesAreFifos <=> (\A d \in Ndesc : Abstract(d)!Init) /\ [][FifosMove]_vars
  BY DEF QueuesAreFifos, FifosMove
<1> QED
  BY <1>1, <1>3, <1>4, PTL DEF Spec
=============================================================================
