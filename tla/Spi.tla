-------------------------------- MODULE Spi --------------------------------
(***************************************************************************)
(* Commands to the embedded CPU of the FPGA (platform/common/spi.cpp).     *)
(*                                                                         *)
(* The SPI is duplex: the transfer that offers a command to the embedded   *)
(* CPU brings the reply to the command it took last, so the reply of one   *)
(* task's command is received by a transfer of another task, into the      *)
(* buffer that prev points to.  The functions differ in how a caller gets  *)
(* its reply:                                                              *)
(*   "set"           wants none: spi_set(), spi_set3()                     *)
(*   "get"           waits for a later transfer: spi_get()                 *)
(*   "noduplex"      offers a flush to collect it: spi_get_noduplex(),     *)
(*                   spi_get3_noduplex()                                   *)
(*   "set_noduplex"  the same with no reply: spi_set_noduplex(),           *)
(*                   spi_set4_noduplex(), spi_set_buf_noduplex()           *)
(*   "misc"          "noduplex" into the buffer of get_misc_miso(), that   *)
(*                   several tasks share; of its two all callers take      *)
(*                   the first                                             *)
(* A step is what a task does from one NextTask() to the next, or less.    *)
(* A task in wait_avail() stays at "offer" or "flush" as long as it likes: *)
(* it goes on after 1000 rounds whether the embedded CPU is ready or not.  *)
(***************************************************************************)
EXTENDS Naturals

CONSTANTS Task, Rank,  \* the tasks and their priorities
          Pump,        \* the task spi_pump, the busy helper
          Call,        \* the pairs <<task, kind>> of the calls made
          Retries,     \* a busy embedded CPU is offered a command so often
          None

Kind == {"set", "get", "noduplex", "set_noduplex", "misc"}

ASSUME CallAssumption ==
  /\ Pump \in Task /\ None \notin Task
  /\ "junk" \notin Task /\ "misc" \notin Task
  /\ Rank \in [Task -> Nat]
  /\ Call \subseteq Task \X Kind
  /\ \A c \in Call : c[1] = Pump => c[2] = "set"
  /\ Retries \in Nat \ {0}

VARIABLES
  holder, contenders,  \* spi_lock, as PriorityLock describes it
  pc, kind,            \* by task: the next statement, the function
  tries,               \* the index of the loop of spi_scan()
  prev,                \* the buffer the next transfer fills
  busy, reply,         \* by buffer: its status word, whose call it replies to
  misc_miso_busy,
  awake,               \* spi_pump has been woken
  ready, last,         \* the embedded CPU: it can take a command, whose call
                       \* the last one was of
  taken,               \* history: how often the holder's command was taken
  hit                  \* history, by task: its call met a scan given up

lock   == <<holder, contenders>>
buffer == <<prev, busy, reply>>
cpu    == <<ready, last>>
vars   == <<lock, pc, kind, tries, buffer, misc_miso_busy, awake,
            cpu, taken, hit>>

SpiLock == INSTANCE PriorityLock WITH Client <- Task

Buffer  == Task \cup {"junk", "misc"}

At(t, s)   == pc[t] = s
Goto(t, s) == pc' = [pc EXCEPT ![t] = s]

\* Where a function wants the reply.
Rx(t) == CASE kind[t] \in {"set", "set_noduplex"} -> "junk"
           [] kind[t] \in {"get", "noduplex"}     -> t
           [] kind[t] = "misc"                    -> "misc"

Flushes(t) == kind[t] \in {"noduplex", "set_noduplex", "misc"}

\* The buffer spi_scan() gets: the flush is offered without one.
Miso(t) == IF pc[t] \in {"flush", "reoffer"} THEN "junk" ELSE Rx(t)

\* The call whose command is in the MOSI buffer: a flush is nobody's.
Cmd(t) == IF At(t, "reoffer") THEN None ELSE t
---------------------------------------------------------------------------
(* lock_enter().                                                           *)

\* A call: its task takes the lock or queues for it.
Begin(t, k) ==
  /\ At(t, "idle") /\ <<t, k>> \in Call
  /\ t = Pump => awake
  /\ \/ SpiLock!Wait(t) /\ Goto(t, "enter")
     \/ SpiLock!TakeAtOnce(t) /\ Goto(t, "offer")
  /\ kind' = [kind EXCEPT ![t] = k]
  /\ misc_miso_busy' = misc_miso_busy + (IF k = "misc" THEN 1 ELSE 0)
  /\ UNCHANGED <<tries, buffer, awake, cpu, taken, hit>>

Enter(t) ==
  /\ At(t, "enter") /\ SpiLock!Take(t)
  /\ Goto(t, "offer")
  /\ UNCHANGED <<kind, tries, buffer, misc_miso_busy, awake, cpu, taken, hit>>
---------------------------------------------------------------------------
(* spi_scan(), by the task that holds the lock.                            *)

\* Faulty variant: the collected buffer is not marked as busy.
Offer_KeepsStatus(t) ==
  /\ \/ At(t, "offer") /\ Goto(t, "scan")
     \/ At(t, "flush") /\ Goto(t, "reoffer")
  /\ tries' = 0
  /\ busy' = [busy EXCEPT ![prev] = TRUE]
  /\ UNCHANGED <<lock, kind, prev, reply, misc_miso_busy, awake, cpu,
                 taken, hit>>

\* The command, or the flush, is put into the MOSI buffer; both the buffer
\* of the caller and the one to collect are marked as busy.
Offer(t) ==
  /\ \/ At(t, "offer") /\ Goto(t, "scan")
     \/ At(t, "flush") /\ Goto(t, "reoffer")
  /\ tries' = 0
  /\ busy' = [busy EXCEPT ![Miso(t)] = TRUE, ![prev] = TRUE]
  /\ UNCHANGED <<lock, kind, prev, reply, misc_miso_busy, awake, cpu,
                 taken, hit>>

\* Faulty variant: spi_get_noduplex() leaves its reply to the next caller.
Scanned_NoFlush(t) == prev' = Miso(t) /\ Goto(t, "leave")

\* The end of a scan: the next caller collects this one's reply.
Scanned(t) ==
  /\ prev' = Miso(t)
  /\ Goto(t, IF At(t, "scan") /\ Flushes(t) THEN "flush" ELSE "leave")

\* Faulty variant: the retry loop goes on until its end.
Transfer_GoesOn(t) ==
  /\ pc[t] \in {"scan", "reoffer"} /\ tries < Retries /\ ready
  /\ reply' = [reply EXCEPT ![prev] = last]
  /\ busy' = [busy EXCEPT ![prev] = FALSE]
  /\ ready' = FALSE /\ last' = Cmd(t)
  /\ taken' = taken + (IF At(t, "scan") THEN 1 ELSE 0)
  /\ IF tries + 1 = Retries THEN Scanned(t) /\ UNCHANGED tries
     ELSE tries' = tries + 1 /\ UNCHANGED <<pc, prev>>
  /\ UNCHANGED <<lock, kind, misc_miso_busy, awake, hit>>

\* The embedded CPU takes the command and gives the reply to the last one.
Transfer(t) ==
  /\ pc[t] \in {"scan", "reoffer"} /\ tries < Retries /\ ready
  /\ reply' = [reply EXCEPT ![prev] = last]
  /\ busy' = [busy EXCEPT ![prev] = FALSE]
  /\ ready' = FALSE /\ last' = Cmd(t)
  /\ taken' = taken + (IF At(t, "scan") THEN 1 ELSE 0)
  /\ Scanned(t)
  /\ UNCHANGED <<lock, kind, tries, misc_miso_busy, awake, hit>>

\* Faulty variant: the loop of the retries runs once more.
Retry_Once(t) ==
  /\ pc[t] \in {"scan", "reoffer"} /\ tries <= Retries /\ ~ready
  /\ tries' = tries + 1
  /\ UNCHANGED <<lock, pc, kind, buffer, misc_miso_busy, awake, cpu,
                 taken, hit>>

\* The embedded CPU is busy: "wait (still holding the spi_lock!)".
Retry(t) ==
  /\ pc[t] \in {"scan", "reoffer"} /\ tries < Retries /\ ~ready
  /\ tries' = tries + 1
  /\ UNCHANGED <<lock, pc, kind, buffer, misc_miso_busy, awake, cpu,
                 taken, hit>>

\* The calls a scan given up costs their reply: its own, and the one whose
\* reply it was to collect.
Loses(t) ==
  {t} \cup {u \in Task : ~At(u, "idle") /\ Rx(u) = prev /\ prev # "junk"}

\* "NO REPLY FROM eCPU!": the scan ends as if the command had been taken.
GiveUp(t) ==
  /\ pc[t] \in {"scan", "reoffer"} /\ tries = Retries
  /\ hit' = [u \in Task |-> hit[u] \/ u \in Loses(t)]
  /\ Scanned(t)
  /\ UNCHANGED <<lock, kind, tries, busy, reply, misc_miso_busy,
                 awake, cpu, taken>>
---------------------------------------------------------------------------
(* After the scan.                                                         *)

\* After this, or in spi_check_wakeup(), other tasks may run.
lock_leave(t) ==
  /\ At(t, "leave") /\ SpiLock!Release /\ taken' = 0
  /\ Goto(t, IF kind[t] = "get" THEN "wait" ELSE "return")
  /\ UNCHANGED <<kind, tries, buffer, misc_miso_busy, awake, cpu, hit>>

\* Faulty variant: the scheduler does not know the busy wait.
BusyWait_NoHelper(t) == At(t, "wait") /\ busy[t] /\ UNCHANGED vars

\* spi_get() has no reply: the second NT_BUSY_WAIT in a row wakes spi_pump.
BusyWait(t) ==
  /\ At(t, "wait") /\ busy[t]
  /\ awake' = TRUE
  /\ UNCHANGED <<lock, pc, kind, tries, buffer, misc_miso_busy, cpu,
                 taken, hit>>

Answered(t) ==
  /\ At(t, "wait") /\ ~busy[t]
  /\ Goto(t, "return")
  /\ UNCHANGED <<lock, kind, tries, buffer, misc_miso_busy, awake,
                 cpu, taken, hit>>

\* The caller uses the reply; spi_pump goes to sleep.  What is left of the
\* call in buffers and in the embedded CPU is nobody's from now on.
Return(t) ==
  /\ At(t, "return") /\ Goto(t, "idle")
  /\ kind' = [kind EXCEPT ![t] = "set"]
  /\ hit' = [hit EXCEPT ![t] = FALSE]
  /\ misc_miso_busy' = misc_miso_busy - (IF kind[t] = "misc" THEN 1 ELSE 0)
  /\ awake' = IF t = Pump THEN FALSE ELSE awake
  /\ reply' = [b \in Buffer |-> IF reply[b] = t THEN None ELSE reply[b]]
  /\ last' = IF last = t THEN None ELSE last
  /\ UNCHANGED <<lock, tries, prev, busy, ready, taken>>

\* The embedded CPU has carried out the last command.
Execute == ~ready /\ ready' = TRUE
           /\ UNCHANGED <<lock, pc, kind, tries, buffer,
                          misc_miso_busy, awake, last, taken, hit>>
---------------------------------------------------------------------------
\* spi_init() starts spi_pump, which begins with a command.
Init ==
  /\ SpiLock!Init
  /\ pc = [t \in Task |-> "idle"]
  /\ kind = [t \in Task |-> "set"]
  /\ tries = 0
  /\ prev = "junk"
  /\ busy = [b \in Buffer |-> b = "junk"]
  /\ reply = [b \in Buffer |-> None]
  /\ misc_miso_busy = 0
  /\ awake = TRUE
  /\ ready = TRUE /\ last = None
  /\ taken = 0
  /\ hit = [t \in Task |-> FALSE]

Step(t) ==
  \/ Enter(t) \/ Offer(t) \/ Transfer(t) \/ Retry(t) \/ GiveUp(t)
  \/ lock_leave(t) \/ BusyWait(t) \/ Answered(t) \/ Return(t)

Next ==
  \/ \E t \in Task : Step(t) \/ \E k \in Kind : Begin(t, k)
  \/ Execute

Spec == Init /\ [][Next]_vars

(* A task that can run gets to run, the embedded CPU ends every command,   *)
(* and spi_pump makes its call when woken.  Nobody else has to call.       *)
Fairness ==
  /\ \A t \in Task : WF_vars(Step(t))
  /\ WF_vars(Begin(Pump, "set"))
  /\ WF_vars(Execute)

FairSpec == Spec /\ Fairness
---------------------------------------------------------------------------
(* Type correctness.                                                       *)
TypeOK ==
  /\ holder \in Task \cup {None} /\ contenders \subseteq Task
  /\ pc \in [Task -> {"idle", "enter", "offer", "scan", "flush",
                      "reoffer", "leave", "wait", "return"}]
  /\ kind \in [Task -> Kind]
  /\ tries \in 0..Retries
  /\ prev \in Buffer
  /\ busy \in [Buffer -> BOOLEAN] /\ reply \in [Buffer -> Task \cup {None}]
  /\ misc_miso_busy \in Nat
  /\ awake \in BOOLEAN /\ ready \in BOOLEAN /\ last \in Task \cup {None}
  /\ taken \in Nat /\ hit \in [Task -> BOOLEAN]

(* The reply of a call is the one to its own command, though the transfers *)
(* of any task collect it and other tasks run before the caller reads it.  *)
(* A scan given up after the retries ("NO REPLY FROM eCPU!", and the       *)
(* command goes on) costs its own call the reply and the call whose reply  *)
(* it was to collect, and no third one.                                    *)
ReplyIsOwn ==
  \A t \in Task : At(t, "return") /\ Rx(t) # "junk" /\ ~hit[t]
                    => reply[Rx(t)] = t

(* No transfer writes a reply into the buffer of a call that has returned, *)
(* which may be gone (web_server has one on the stack): as long as prev    *)
(* points to a buffer, its call has not left its function.                 *)
PrevBelongsToACall ==
  prev # "junk" => \E t \in Task :
    /\ pc[t] \in {"offer", "scan", "flush", "reoffer", "leave", "wait"}
    /\ Rx(t) = prev

(* get_misc_miso(): "assert(misc_miso_busy[which] == 0)" before it adds 1, *)
(* the shared buffer is taken by one task at a time.                       *)
MiscMisoFree == misc_miso_busy <= 1

(* The embedded CPU takes each command of a call once at most, in the      *)
(* caller's turn, and the turns go by priority.                            *)
Port == INSTANCE CommandPort WITH Client <- Task

ImplementsPort == Port!PortSpec

(* A task that waits for its reply in spi_get() gets it, even if no other  *)
(* task has a command for the embedded CPU: the busy helper sends one.     *)
(* Only a scan given up can make it wait for ever.                         *)
Getter == {t \in Task : <<t, "get">> \in Call}

EveryGetAnswered ==
  \A t \in Getter : At(t, "wait") ~> ~At(t, "wait") \/ hit[t]
=============================================================================
