----------------------------- MODULE Spi_proofs -----------------------------
(***************************************************************************)
(* Safety of the commands to the embedded CPU, for every set of tasks, of  *)
(* calls and of priorities, and every number of retries.                   *)
(***************************************************************************)
EXTENDS Spi, FiniteSetTheorems, TLAPS

(* Between offering its command and leaving, a task holds the lock.        *)
InTurn == {"offer", "scan", "flush", "reoffer", "leave"}

HolderInTurn ==
  \A t \in Task : /\ pc[t] \in InTurn <=> holder = t
                  /\ pc[t] = "enter" <=> t \in contenders

(* Only the calls that need it offer a flush, or wait.                     *)
CallsKnown ==
  \A t \in Task : /\ pc[t] = "idle" => kind[t] = "set"
                  /\ pc[t] \in {"flush", "reoffer"} => Flushes(t)
                  /\ pc[t] = "wait" => kind[t] = "get"

(* get_misc_miso() counts the calls that use its buffer.                   *)
MiscCalls == {t \in Task : kind[t] = "misc"}

MiscCounted == /\ IsFiniteSet(MiscCalls)
               /\ misc_miso_busy = Cardinality(MiscCalls)

(* prev points to the buffer of the task whose command was offered last: a *)
(* task that offers its flush, or one in spi_get() that has not been       *)
(* answered, whose buffer is then marked as busy.                          *)
PrevIsPending ==
  /\ prev # "junk" => \E t \in Task :
       /\ Rx(t) = prev
       /\ \/ pc[t] \in {"flush", "reoffer"}
          \/ pc[t] \in {"leave", "wait"} /\ kind[t] = "get"
  /\ \A t \in Task :
       /\ pc[t] = "scan" => busy[Rx(t)]
       /\ pc[t] \in {"flush", "reoffer"} => prev = Rx(t)
       /\ pc[t] = "leave" => prev = IF kind[t] = "get" THEN t ELSE "junk"
       /\ pc[t] \in {"leave", "wait"} /\ prev = t => busy[t]

(* The holder's command is taken at the end of its scan.                   *)
TakenInTurn ==
  /\ taken \in 0..1
  /\ holder = None => taken = 0
  /\ \A t \in Task : pc[t] \in {"offer", "scan"} => taken = 0

SpiInv == /\ TypeOK /\ HolderInTurn /\ CallsKnown /\ MiscCounted
          /\ PrevIsPending /\ TakenInTurn

(* A call whose scans were not given up gets its reply from the transfer   *)
(* that fills its buffer, and has it from then on.                         *)
ReplyOnItsWay ==
  \A t \in Task :
    /\ pc[t] \in {"flush", "reoffer", "leave", "wait", "return"}
    /\ Rx(t) # "junk" /\ ~hit[t]
    => IF prev = Rx(t) THEN last = t ELSE reply[Rx(t)] = t
---------------------------------------------------------------------------
(* Where a call of each kind wants its reply.                              *)
LEMMA RxOfKind ==
  ASSUME TypeOK, NEW t \in Task
  PROVE  /\ Rx(t) \in {"junk", "misc", t}
         /\ kind[t] \in {"set", "set_noduplex"} => Rx(t) = "junk"
         /\ kind[t] \in {"get", "noduplex"} => Rx(t) = t
         /\ kind[t] = "misc" => Rx(t) = "misc"
  BY DEF TypeOK, Kind, Rx

(* A call keeps the buffer of its kind.                                    *)
LEMMA RxKept == \A t \in Task : kind'[t] = kind[t] => Rx(t)' = Rx(t)
  BY DEF Rx

LEMMA InitSpiInv == Init => SpiInv /\ ReplyOnItsWay
<1> SUFFICES ASSUME Init PROVE SpiInv /\ ReplyOnItsWay
  OBVIOUS
<1> USE CallAssumption DEF Init, SpiLock!Init
<1>1. TypeOK
  BY DEF TypeOK, Kind, Buffer
<1>2. HolderInTurn /\ CallsKnown /\ PrevIsPending /\ TakenInTurn
  BY DEF HolderInTurn, CallsKnown, PrevIsPending, TakenInTurn, InTurn
<1>3. MiscCounted
  <2>1. MiscCalls = {}
    BY DEF MiscCalls
  <2>2. QED BY <2>1, FS_EmptySet DEF MiscCounted
<1>4. ReplyOnItsWay
  BY DEF ReplyOnItsWay
<1>5. QED BY <1>1, <1>2, <1>3, <1>4 DEF SpiInv

(* A call begins, and its task takes the lock or queues for it.            *)
LEMMA BeginStep ==
  ASSUME SpiInv, NEW t \in Task, NEW k \in Kind, Begin(t, k)
  PROVE  SpiInv'
<1> USE CallAssumption DEF SpiInv, Begin, At, Goto, buffer, cpu
<1>0. /\ SpiLock!Wait(t) => UNCHANGED holder /\ contenders' = contenders \cup {t}
      /\ SpiLock!TakeAtOnce(t) => /\ UNCHANGED contenders /\ t \notin contenders
                                  /\ holder' = t /\ holder = None
  BY DEF SpiLock!Wait, SpiLock!TakeAtOnce
<1>1. TypeOK'
  BY <1>0 DEF TypeOK
<1>2. HolderInTurn'
  BY <1>0 DEF TypeOK, HolderInTurn, InTurn
<1>3. CallsKnown' /\ TakenInTurn'
  BY <1>0 DEF TypeOK, CallsKnown, TakenInTurn, Flushes
<1>4. MiscCounted'
  <2>1. t \notin MiscCalls /\ IsFiniteSet(MiscCalls)
    BY DEF MiscCalls, CallsKnown, MiscCounted
  <2>2. CASE k = "misc"
    <3>1. MiscCalls' = MiscCalls \cup {t}
      BY <2>2 DEF MiscCalls, TypeOK
    <3>2. QED BY <2>1, <2>2, <3>1, FS_AddElement DEF MiscCounted
  <2>3. CASE k # "misc"
    <3>1. MiscCalls' = MiscCalls
      BY <2>1, <2>3 DEF MiscCalls, TypeOK
    <3>2. QED BY <2>3, <3>1, FS_CardinalityType DEF MiscCounted
  <2>4. QED BY <2>2, <2>3
<1>5. PrevIsPending'
  <2>1. \A u \in Task : u # t => kind'[u] = kind[u] /\ pc'[u] = pc[u]
    BY DEF TypeOK
  <2>2. pc[t] = "idle" /\ pc'[t] \in {"enter", "offer"}
    BY DEF TypeOK
  <2>3. UNCHANGED <<prev, busy>>
    OBVIOUS
  <2> HIDE DEF Begin
  <2>4. QED BY <2>1, <2>2, <2>3, RxKept DEF PrevIsPending
<1>6. QED BY <1>1, <1>2, <1>3, <1>4, <1>5

LEMMA EnterStep ==
  ASSUME SpiInv, NEW t \in Task, Enter(t)
  PROVE  SpiInv'
<1> USE CallAssumption DEF SpiInv, Enter, At, Goto, buffer, cpu, SpiLock!Take
<1>1. TypeOK'
  BY DEF TypeOK
<1>2. HolderInTurn'
  BY DEF TypeOK, HolderInTurn, InTurn
<1>3. CallsKnown' /\ TakenInTurn'
  BY DEF TypeOK, CallsKnown, TakenInTurn, Flushes
<1>4. MiscCounted'
  BY DEF MiscCounted, MiscCalls
<1>5. PrevIsPending'
  BY RxKept DEF TypeOK, PrevIsPending
<1>6. QED BY <1>1, <1>2, <1>3, <1>4, <1>5

LEMMA OfferStep ==
  ASSUME SpiInv, NEW t \in Task, Offer(t)
  PROVE  SpiInv'
<1> USE CallAssumption DEF SpiInv, Offer, At, Goto, lock, cpu
<1>1. TypeOK'
  <2>1. busy' \in [Buffer -> BOOLEAN]
    BY DEF TypeOK
  <2>2. pc' \in [Task -> {"idle", "enter", "offer", "scan", "flush",
                         "reoffer", "leave", "wait", "return"}]
    BY DEF TypeOK
  <2>3. tries' \in 0..Retries
    OBVIOUS
  <2>4. UNCHANGED <<lock, kind, prev, reply, misc_miso_busy, awake, cpu, taken,
                    hit>>
    OBVIOUS
  <2> HIDE DEF Offer
  <2>5. QED BY <2>1, <2>2, <2>3, <2>4 DEF TypeOK
<1>2. HolderInTurn'
  BY DEF TypeOK, HolderInTurn, InTurn
<1>3. CallsKnown' /\ TakenInTurn'
  BY DEF TypeOK, CallsKnown, TakenInTurn, Flushes
<1>4. MiscCounted'
  BY DEF MiscCounted, MiscCalls
<1>5. PrevIsPending'
  <2>1. busy' = [busy EXCEPT ![Miso(t)] = TRUE, ![prev] = TRUE]
    OBVIOUS
  <2>2. \A b \in Buffer : busy[b] => busy'[b]
    BY <2>1 DEF TypeOK
  <2>3. \A u \in Task : u # t => pc'[u] = pc[u]
    BY DEF TypeOK
  <2>4. \/ pc[t] = "offer" /\ pc'[t] = "scan"
        \/ pc[t] = "flush" /\ pc'[t] = "reoffer"
    BY DEF TypeOK
  <2>5. UNCHANGED <<prev, kind>> /\ Task \subseteq Buffer
    BY DEF Buffer
  <2>6. \A u \in Task : Rx(u) \in Buffer
    BY RxOfKind DEF Buffer
  <2>7. pc[t] = "offer" => busy'[Rx(t)]
    BY <2>1, <2>6 DEF Miso, TypeOK
  <2> HIDE DEF Offer
  <2>8. QED
    BY <2>2, <2>3, <2>4, <2>5, <2>6, <2>7, RxKept DEF PrevIsPending
<1>6. QED BY <1>1, <1>2, <1>3, <1>4, <1>5

(* The end of a scan, by a transfer or after the last retry.               *)
LEMMA ScannedStep ==
  ASSUME SpiInv, NEW t \in Task, Transfer(t) \/ GiveUp(t)
  PROVE  SpiInv'
<1> USE CallAssumption DEF SpiInv
<1>0. /\ pc[t] \in {"scan", "reoffer"} /\ Scanned(t)
      /\ \A b \in Buffer : b # prev => busy'[b] = busy[b]
      /\ UNCHANGED <<lock, kind, tries, misc_miso_busy, awake>>
  BY DEF Transfer, GiveUp, TypeOK
<1>1. TypeOK'
  <2>1. Miso(t) \in Buffer /\ Cmd(t) \in Task \cup {None}
    BY RxOfKind DEF Miso, Cmd, Buffer
  <2>2. prev' \in Buffer
    BY <1>0, <2>1 DEF Scanned
  <2>3. pc' \in [Task -> {"idle", "enter", "offer", "scan", "flush",
                         "reoffer", "leave", "wait", "return"}]
    BY <1>0 DEF TypeOK, Scanned, Goto
  <2>4. /\ busy' \in [Buffer -> BOOLEAN] /\ reply' \in [Buffer -> Task \cup {None}]
        /\ ready' \in BOOLEAN /\ last' \in Task \cup {None}
        /\ taken' \in Nat /\ hit' \in [Task -> BOOLEAN]
    <3>1. CASE Transfer(t)
      <4>1. taken' \in Nat
        BY <3>1 DEF Transfer, TypeOK
      <4>2. ready' = FALSE /\ last' = Cmd(t) /\ UNCHANGED hit
        BY <3>1 DEF Transfer
      <4>3. /\ busy' = [busy EXCEPT ![prev] = FALSE]
            /\ reply' = [reply EXCEPT ![prev] = last]
        BY <3>1 DEF Transfer
      <4>4. busy' \in [Buffer -> BOOLEAN] /\ reply' \in [Buffer -> Task \cup {None}]
        BY <4>3 DEF TypeOK
      <4>5. QED BY <2>1, <4>1, <4>2, <4>4 DEF TypeOK
    <3>2. CASE GiveUp(t)
      BY <3>2 DEF GiveUp, TypeOK, cpu
    <3>3. QED BY <3>1, <3>2
  <2>5. QED BY <1>0, <2>2, <2>3, <2>4 DEF TypeOK, lock
<1>2. HolderInTurn'
  BY <1>0 DEF TypeOK, HolderInTurn, InTurn, Scanned, Goto, lock
<1>3. CallsKnown'
  BY <1>0 DEF TypeOK, CallsKnown, Flushes, Scanned, Goto, At
<1>4. MiscCounted'
  BY <1>0 DEF MiscCounted, MiscCalls
<1>5. TakenInTurn'
  BY DEF TakenInTurn, TypeOK, Transfer, GiveUp, Scanned, Goto, At, lock, HolderInTurn, InTurn
<1>6. PrevIsPending'
  <2>1. UNCHANGED kind /\ \A u \in Task : Rx(u)' = Rx(u)
    BY <1>0, RxKept
  <2>2. \A u \in Task : u # t => pc[u] \notin InTurn /\ pc'[u] = pc[u]
    BY <1>0 DEF HolderInTurn, InTurn, TypeOK, Scanned, Goto
  <2>3. CASE pc[t] = "scan"
    <3>1. prev' = Rx(t)
      BY <1>0, <2>3 DEF Scanned, Miso
    <3>2. pc'[t] = IF Flushes(t) THEN "flush" ELSE "leave"
      BY <1>0, <2>3 DEF Scanned, Goto, At, TypeOK
    <3>3. prev # t /\ \A u \in Task : prev = u => u # t
      BY <2>2, <2>3, RxOfKind DEF PrevIsPending, TypeOK, Buffer
    <3>4. kind[t] = "get" => Rx(t) = t /\ t \in Buffer /\ busy'[t]
      BY <1>0, <2>3, <3>3, RxOfKind DEF PrevIsPending, Buffer
    <3>5. kind[t] # "get" => Flushes(t) \/ Rx(t) = "junk"
      BY RxOfKind DEF Flushes, TypeOK, Kind
    <3>6. Flushes(t) => kind[t] # "get"
      BY DEF Flushes
    <3>7. \A u \in Task : u # t => pc'[u] \notin InTurn
      BY <2>2
    <3>8. \A u \in Task : u # t => prev' # u
      BY <3>1, RxOfKind
    <3>9. prev' # "junk" => /\ Rx(t)' = prev'
                            /\ \/ pc'[t] \in {"flush", "reoffer"}
                               \/ pc'[t] = "leave" /\ kind'[t] = "get"
      BY <2>1, <3>1, <3>2, <3>5
    <3>10. ASSUME NEW u \in Task
           PROVE  /\ pc'[u] = "scan" => busy'[Rx(u)']
                  /\ pc'[u] \in {"flush", "reoffer"} => prev' = Rx(u)'
                  /\ pc'[u] = "leave" =>
                       prev' = IF kind'[u] = "get" THEN u ELSE "junk"
                  /\ pc'[u] \in {"leave", "wait"} /\ prev' = u => busy'[u]
      <4>1. CASE u = t
        BY <2>1, <3>1, <3>2, <3>4, <3>5, <3>6, <4>1
      <4>2. CASE u # t
        BY <3>7, <3>8, <4>2 DEF InTurn
      <4>3. QED BY <4>1, <4>2
    <3>11. QED BY <3>9, <3>10, Zenon DEF PrevIsPending
  <2>4. CASE pc[t] = "reoffer"
    <3>1. prev' = "junk" /\ pc'[t] = "leave"
      BY <1>0, <2>4 DEF Scanned, Goto, At, TypeOK, Miso
    <3>2. Flushes(t)
      BY <2>4 DEF CallsKnown
    <3>3. QED
      BY <2>1, <2>2, <3>1, <3>2 DEF PrevIsPending, InTurn, Flushes
  <2>5. QED BY <1>0, <2>3, <2>4
<1>7. QED BY <1>1, <1>2, <1>3, <1>4, <1>5, <1>6

LEMMA RetryStep ==
  ASSUME SpiInv, NEW t \in Task, Retry(t)
  PROVE  SpiInv'
<1> USE CallAssumption DEF SpiInv, Retry, lock, buffer, cpu
<1>1. TypeOK'
  BY DEF TypeOK
<1>2. HolderInTurn' /\ CallsKnown' /\ TakenInTurn'
  BY DEF HolderInTurn, CallsKnown, TakenInTurn, Flushes
<1>3. MiscCounted'
  BY DEF MiscCounted, MiscCalls
<1>4. PrevIsPending'
  BY DEF PrevIsPending, Rx
<1>5. QED BY <1>1, <1>2, <1>3, <1>4

LEMMA LeaveStep ==
  ASSUME SpiInv, NEW t \in Task, lock_leave(t)
  PROVE  SpiInv'
<1> USE CallAssumption DEF SpiInv, lock_leave, At, Goto, buffer, cpu, SpiLock!Release
<1>1. TypeOK'
  BY DEF TypeOK
<1>2. HolderInTurn'
  BY DEF TypeOK, HolderInTurn, InTurn
<1>3. CallsKnown' /\ TakenInTurn'
  BY DEF TypeOK, CallsKnown, TakenInTurn, Flushes, HolderInTurn, InTurn
<1>4. MiscCounted'
  BY DEF MiscCounted, MiscCalls
<1>5. PrevIsPending'
  BY RxOfKind, RxKept DEF TypeOK, PrevIsPending
<1>6. QED BY <1>1, <1>2, <1>3, <1>4, <1>5

(* spi_get() waits, and is answered.                                       *)
LEMMA WaitStep ==
  ASSUME SpiInv, NEW t \in Task, BusyWait(t) \/ Answered(t)
  PROVE  SpiInv'
<1> USE CallAssumption DEF SpiInv, BusyWait, Answered, At, Goto, lock, buffer, cpu
<1>1. TypeOK'
  BY DEF TypeOK
<1>2. HolderInTurn'
  BY DEF TypeOK, HolderInTurn, InTurn
<1>3. CallsKnown' /\ TakenInTurn'
  BY DEF TypeOK, CallsKnown, TakenInTurn, Flushes
<1>4. MiscCounted'
  BY DEF MiscCounted, MiscCalls
<1>5. PrevIsPending'
  BY RxOfKind, RxKept DEF TypeOK, PrevIsPending
<1>6. QED BY <1>1, <1>2, <1>3, <1>4, <1>5

LEMMA ReturnStep ==
  ASSUME SpiInv, NEW t \in Task, Return(t)
  PROVE  SpiInv'
<1> USE CallAssumption DEF SpiInv, Return, At, Goto, lock
<1>1. MiscCounted' /\ misc_miso_busy' \in Nat
  <2>1. IsFiniteSet(MiscCalls) /\ misc_miso_busy = Cardinality(MiscCalls)
    BY DEF MiscCounted
  <2>2. MiscCalls' = MiscCalls \ {t}
    BY DEF MiscCalls, TypeOK
  <2>3. /\ IsFiniteSet(MiscCalls')
        /\ Cardinality(MiscCalls') = Cardinality(MiscCalls)
                                     - (IF t \in MiscCalls THEN 1 ELSE 0)
    BY <2>1, <2>2, FS_RemoveElement, FS_CardinalityType
  <2>4. t \in MiscCalls <=> kind[t] = "misc"
    BY DEF MiscCalls
  <2>5. Cardinality(MiscCalls') \in Nat
    BY <2>3, FS_CardinalityType
  <2>6. QED BY <2>1, <2>3, <2>4, <2>5 DEF MiscCounted
<1>2. TypeOK'
  BY <1>1 DEF TypeOK, Kind
<1>3. HolderInTurn'
  BY DEF TypeOK, HolderInTurn, InTurn
<1>4. CallsKnown' /\ TakenInTurn'
  BY DEF TypeOK, CallsKnown, TakenInTurn, Flushes
<1>5. PrevIsPending'
  BY RxOfKind, RxKept DEF TypeOK, PrevIsPending
<1>6. QED BY <1>1, <1>2, <1>3, <1>4, <1>5

LEMMA ExecuteStep == SpiInv /\ Execute => SpiInv'
<1> SUFFICES ASSUME SpiInv, Execute PROVE SpiInv'
  OBVIOUS
<1> USE DEF SpiInv, Execute, lock, buffer
<1>1. TypeOK'
  BY DEF TypeOK
<1>2. HolderInTurn' /\ CallsKnown' /\ TakenInTurn' /\ MiscCounted'
  BY DEF HolderInTurn, CallsKnown, TakenInTurn, Flushes, MiscCounted, MiscCalls
<1>3. PrevIsPending'
  BY DEF PrevIsPending, Rx
<1>4. QED BY <1>1, <1>2, <1>3

LEMMA NextSpiInv == SpiInv /\ [Next]_vars => SpiInv'
<1> SUFFICES ASSUME SpiInv, [Next]_vars PROVE SpiInv'
  OBVIOUS
<1>1. CASE UNCHANGED vars
  <2> USE <1>1 DEF vars, lock, buffer, cpu, SpiInv
  <2>1. TypeOK'
    BY DEF TypeOK
  <2>2. HolderInTurn' /\ CallsKnown' /\ TakenInTurn' /\ MiscCounted'
    BY DEF HolderInTurn, CallsKnown, TakenInTurn, Flushes, MiscCounted, MiscCalls
  <2>3. PrevIsPending'
    BY DEF PrevIsPending, Rx
  <2>4. QED BY <2>1, <2>2, <2>3
<1>2. ASSUME NEW t \in Task, Step(t) PROVE SpiInv'
  BY <1>2, EnterStep, OfferStep, ScannedStep, RetryStep, LeaveStep, WaitStep,
     ReturnStep DEF Step
<1>3. ASSUME NEW t \in Task, NEW k \in Kind, Begin(t, k) PROVE SpiInv'
  BY <1>3, BeginStep
<1>4. CASE Execute
  BY <1>4, ExecuteStep
<1>5. QED BY <1>1, <1>2, <1>3, <1>4 DEF Next

(* In every state only the task in its turn holds the lock, and the buffer *)
(* the next transfer fills is the one of the command offered last.         *)
THEOREM SpiInvariance == Spec => []SpiInv
<1>1. Init => SpiInv
  BY InitSpiInv
<1>2. QED BY <1>1, NextSpiInv, PTL DEF Spec

(* Type correctness: the loop of the retries ends, and the count of the    *)
(* calls of get_misc_miso() does not become negative.                      *)
THEOREM TypeCorrect == Spec => []TypeOK
<1>1. SpiInv => TypeOK
  BY DEF SpiInv
<1>2. QED BY <1>1, SpiInvariance, PTL

(* No transfer writes into the buffer of a call that has returned, however *)
(* many scans are given up.                                                *)
THEOREM PrevIsOfACall == Spec => []PrevBelongsToACall
<1>1. SpiInv => PrevBelongsToACall
  BY DEF SpiInv, PrevIsPending, PrevBelongsToACall
<1>2. QED BY <1>1, SpiInvariance, PTL
---------------------------------------------------------------------------
(* As long as the assertion of get_misc_miso() holds, no two calls want    *)
(* their replies in the same buffer.                                       *)
LEMMA BuffersOwned ==
  ASSUME SpiInv, MiscMisoFree, NEW t \in Task, NEW u \in Task,
         Rx(t) = Rx(u), Rx(t) # "junk"
  PROVE  t = u
<1> USE CallAssumption DEF SpiInv
<1>1. ASSUME kind[t] = "misc", kind[u] = "misc" PROVE t = u
  <2>1. IsFiniteSet(MiscCalls) /\ Cardinality(MiscCalls) <= 1
    BY DEF MiscCounted, MiscMisoFree
  <2>2. t \in MiscCalls /\ u \in MiscCalls
    BY <1>1 DEF MiscCalls
  <2>3. /\ IsFiniteSet(MiscCalls \ {t})
        /\ Cardinality(MiscCalls \ {t}) = Cardinality(MiscCalls) - 1
    BY <2>1, <2>2, FS_RemoveElement
  <2>4. Cardinality(MiscCalls \ {t}) = 0
    BY <2>1, <2>3, FS_CardinalityType
  <2>5. MiscCalls \ {t} = {}
    BY <2>3, <2>4, FS_EmptySet
  <2>6. QED BY <2>2, <2>5
<1>2. QED BY <1>1, RxOfKind DEF TypeOK, Kind

(* The reply of a call reaches its buffer, and stays there until the call  *)
(* returns.                                                                *)
LEMMA ReplyStep ==
  ASSUME SpiInv, MiscMisoFree, ReplyOnItsWay, [Next]_vars
  PROVE  ReplyOnItsWay'
<1> USE CallAssumption DEF SpiInv
<1> DEFINE Asks(u) == pc[u] \in {"flush", "reoffer", "leave", "wait", "return"}
<1>1. CASE UNCHANGED vars
  BY <1>1, RxKept DEF vars, buffer, cpu, ReplyOnItsWay
<1>2. CASE Execute
  BY <1>2, RxKept DEF Execute, buffer, ReplyOnItsWay
<1>3. ASSUME NEW t \in Task, NEW k \in Kind, Begin(t, k) PROVE ReplyOnItsWay'
  <2>1. /\ \A u \in Task : u # t => kind'[u] = kind[u] /\ pc'[u] = pc[u]
        /\ pc'[t] \in {"enter", "offer"}
        /\ UNCHANGED <<buffer, last, hit>>
    BY <1>3 DEF Begin, At, Goto, TypeOK, cpu
  <2>2. QED BY <2>1, RxKept DEF ReplyOnItsWay, buffer
<1>4. ASSUME NEW t \in Task,
             Enter(t) \/ Offer(t) \/ Retry(t) \/ BusyWait(t)
      PROVE  ReplyOnItsWay'
  <2>1. /\ UNCHANGED <<kind, prev, reply, last, hit>>
        /\ \A u \in Task : Asks(u)' => Asks(u)
    BY <1>4 DEF Enter, Offer, Retry, BusyWait, At, Goto, TypeOK, buffer, cpu
  <2>2. QED BY <2>1, RxKept DEF ReplyOnItsWay
<1>5. ASSUME NEW t \in Task, lock_leave(t) \/ Answered(t)
      PROVE  ReplyOnItsWay'
  <2>1. /\ UNCHANGED <<kind, prev, reply, last, hit>>
        /\ \A u \in Task : Asks(u)' => Asks(u)
    BY <1>5 DEF lock_leave, Answered, At, Goto, TypeOK, buffer, cpu
  <2>2. QED BY <2>1, RxKept DEF ReplyOnItsWay
<1>6. ASSUME NEW t \in Task, Return(t) PROVE ReplyOnItsWay'
  <2>1. /\ \A u \in Task : u # t => kind'[u] = kind[u] /\ pc'[u] = pc[u] /\ hit'[u] = hit[u]
        /\ pc'[t] = "idle" /\ UNCHANGED prev
        /\ \A u \in Task : u # t => (last = u => last' = u)
        /\ \A u \in Task, b \in Buffer : u # t => (reply[b] = u => reply'[b] = u)
    BY <1>6 DEF Return, At, Goto, TypeOK, cpu
  <2>2. \A u \in Task : Rx(u) \in Buffer
    BY RxOfKind DEF Buffer
  <2>3. QED BY <2>1, <2>2, RxKept DEF ReplyOnItsWay
<1>7. ASSUME NEW t \in Task, Transfer(t) \/ GiveUp(t) PROVE ReplyOnItsWay'
  <2>1. /\ pc[t] \in {"scan", "reoffer"} /\ UNCHANGED kind
        /\ prev' = Miso(t)
        /\ pc'[t] \in {"flush", "leave"}
        /\ \A u \in Task : u # t => pc'[u] = pc[u]
        /\ pc[t] = "scan" => prev' = Rx(t)
        /\ pc[t] = "reoffer" => prev' = "junk"
    BY <1>7 DEF Transfer, GiveUp, Scanned, At, Goto, TypeOK, Miso
  <2> SUFFICES ASSUME NEW u \in Task, Asks(u)', Rx(u) # "junk", ~hit'[u]
               PROVE  IF prev' = Rx(u) THEN last' = u ELSE reply'[Rx(u)] = u
    BY <2>1, RxKept DEF ReplyOnItsWay
  <2>2. Rx(u) \in Buffer
    BY RxOfKind DEF Buffer
  <2>3. CASE GiveUp(t)
    <3>1. UNCHANGED <<reply, last>> /\ ~hit[u] /\ u \notin Loses(t)
      BY <2>3 DEF GiveUp, cpu, TypeOK
    <3>2. u # t /\ Asks(u) /\ prev # Rx(u)
      BY <2>1, <3>1 DEF Loses, At
    <3>3. reply[Rx(u)] = u
      BY <3>1, <3>2 DEF ReplyOnItsWay
    <3>4. prev' # Rx(u)
      BY <2>1, <3>2, BuffersOwned
    <3>5. QED BY <3>1, <3>3, <3>4
  <2>4. CASE Transfer(t)
    <3>1. /\ UNCHANGED hit /\ last' = Cmd(t)
          /\ reply' = [reply EXCEPT ![prev] = last]
      BY <2>4 DEF Transfer
    <3>2. CASE u = t /\ pc[t] = "scan"
      BY <2>1, <3>1, <3>2 DEF Cmd, At
    <3>3. CASE u # t \/ pc[t] = "reoffer"
      <4>1. Asks(u)
        BY <2>1, <3>3
      <4>2. prev' # Rx(u)
        BY <2>1, <3>3, BuffersOwned
      <4>3. IF prev = Rx(u) THEN last = u ELSE reply[Rx(u)] = u
        BY <3>1, <4>1 DEF ReplyOnItsWay
      <4>4. reply'[Rx(u)] = u
        BY <2>2, <3>1, <4>3 DEF TypeOK
      <4>5. QED BY <4>2, <4>4
    <3>4. QED BY <2>1, <3>2, <3>3
  <2>5. QED BY <1>7, <2>3, <2>4
<1>8. QED
  BY <1>1, <1>2, <1>3, <1>4, <1>5, <1>6, <1>7 DEF Next, Step

(* Every call gets the reply to its own command, unless a scan was given   *)
(* up on it, as long as the assertion of get_misc_miso() holds (nobody     *)
(* else is in a call of it): two such calls share a buffer.                *)
THEOREM RepliesAreOwn == Spec /\ []MiscMisoFree => []ReplyIsOwn
<1>1. Init => ReplyOnItsWay
  BY InitSpiInv
<1>2. SpiInv /\ MiscMisoFree /\ ReplyOnItsWay /\ [Next]_vars => ReplyOnItsWay'
  BY ReplyStep
<1>3. SpiInv /\ MiscMisoFree /\ ReplyOnItsWay => ReplyIsOwn
  <2> SUFFICES ASSUME SpiInv, MiscMisoFree, ReplyOnItsWay, NEW t \in Task,
                      pc[t] = "return", Rx(t) # "junk", ~hit[t]
               PROVE  reply[Rx(t)] = t
    BY DEF ReplyIsOwn, At
  <2>1. prev # Rx(t)
    BY BuffersOwned DEF SpiInv, PrevIsPending
  <2>2. QED BY <2>1 DEF ReplyOnItsWay
<1>4. QED BY <1>1, <1>2, <1>3, SpiInvariance, PTL DEF Spec

(* The functions of spi.cpp implement the port: the embedded CPU takes a   *)
(* command only in its task's turn and once, however often it was offered, *)
(* and turns go by priority.                                               *)
THEOREM CallsImplementPort == Spec => ImplementsPort
<1> USE DEF Port!port, Port!lock, lock
<1>1. Init => Port!PortInit
  BY DEF Init, Port!PortInit, Port!Init, SpiLock!Init
<1>2. SpiInv /\ [Next]_vars => [Port!PortNext]_(Port!port)
  <2> SUFFICES ASSUME SpiInv, [Next]_vars PROVE [Port!PortNext]_(Port!port)
    OBVIOUS
  <2> USE CallAssumption DEF SpiInv
  <2>1. CASE UNCHANGED vars \/ Execute
    BY <2>1 DEF vars, Execute
  <2>2. ASSUME NEW t \in Task, NEW k \in Kind, Begin(t, k)
        PROVE  Port!Contend
    BY <2>2 DEF Begin, SpiLock!Wait, SpiLock!TakeAtOnce, SpiLock!Outranks,
                Port!Contend, Port!Wait, Port!TakeAtOnce, Port!Outranks
  <2>3. ASSUME NEW t \in Task, Enter(t) PROVE Port!Contend
    BY <2>3 DEF Enter, SpiLock!Take, SpiLock!Outranks, Port!Contend, Port!Take,
                Port!Outranks
  <2>4. ASSUME NEW t \in Task, Transfer(t)
        PROVE  Port!Accept \/ UNCHANGED Port!port
    <3>1. pc[t] \in {"scan", "reoffer"} /\ UNCHANGED <<holder, contenders>>
      BY <2>4 DEF Transfer
    <3>2. CASE pc[t] = "scan"
      <4>1. holder # None /\ taken = 0
        BY <3>2 DEF HolderInTurn, InTurn, TakenInTurn
      <4>2. taken' = 1
        BY <2>4, <3>2, <4>1 DEF Transfer, At
      <4>3. QED BY <3>1, <4>1, <4>2 DEF Port!Accept
    <3>3. CASE pc[t] = "reoffer"
      <4>1. taken' = taken
        BY <2>4, <3>3 DEF Transfer, At, TypeOK
      <4>2. QED BY <3>1, <4>1
    <3>4. QED BY <3>1, <3>2, <3>3
  <2>5. ASSUME NEW t \in Task, lock_leave(t) PROVE Port!Leave
    BY <2>5 DEF lock_leave, SpiLock!Release, Port!Leave, Port!Release
  <2>6. ASSUME NEW t \in Task,
               \/ Offer(t) \/ Retry(t) \/ GiveUp(t) \/ BusyWait(t)
               \/ Answered(t) \/ Return(t)
        PROVE  UNCHANGED Port!port
    BY <2>6 DEF Offer, Retry, GiveUp, BusyWait, Answered, Return
  <2>7. QED
    BY <2>1, <2>2, <2>3, <2>4, <2>5, <2>6 DEF Next, Step, Port!PortNext
<1>3. QED
  BY <1>1, <1>2, SpiInvariance, PTL DEF Spec, ImplementsPort, Port!PortSpec
=============================================================================
