----------------------------- MODULE DataPump -----------------------------
(***************************************************************************)
(* The task that moves the samples of all receivers from the FPGA, and its *)
(* start and stop with the first and the last user (rx/data_pump.cpp).     *)
(*                                                                         *)
(* Tasks share the embedded CPU through CommandPort: between two commands, *)
(* and while a task waits for its turn to send one, the other tasks run.   *)
(* The FPGA fills its buffers in turn and counts them; lag is how many it  *)
(* has filled and the pump has not read.  A buffer is read whole if the    *)
(* lag is 1..nrx_bufs - 1; at nrx_bufs the FPGA is writing into it.        *)
(***************************************************************************)
EXTENDS Integers, Sequences

CONSTANTS Snd,       \* the sound tasks, each with a channel of its name
          Web,       \* the web server's task, in a set
          pump,      \* the data pump's task
          Rank,      \* their priorities
          nrx_bufs,
          W,         \* the buffer counter wraps at W
          MaxLag,    \* bound: the FPGA is no further ahead of the pump
          MaxAhead,  \* bound: nor the pump of the FPGA
          None

Task == Snd \cup Web \cup {pump}

ASSUME PumpAssumption ==
  /\ pump \notin Snd \cup Web /\ Snd \cap Web = {} /\ None \notin Task
  /\ Rank \in [Task -> Nat]
  /\ nrx_bufs \in Nat /\ nrx_bufs > 1
  /\ MaxLag \in Nat /\ MaxAhead \in Nat
  /\ W \in Nat /\ W > nrx_bufs

VARIABLES
  chan_enabled,            \* by channel
  itask_run, have_snd_users,
  pc, todo,                \* by task: what it does, the commands left to send
  users,                   \* by task: ~no_users of its data_pump_start_stop()
  stage, diff,             \* the pump: where it is in snd_service(), and the
                           \* distance of the two counters it has read
  holder, contenders, taken,   \* CommandPort
  running,                 \* the FPGA: the number of samples is not zero
  intr,                    \* CTRL_SND_INTR
  lag, ctr                 \* see above; the FPGA's count of buffers

port    == <<holder, contenders, taken>>
control == <<chan_enabled, itask_run, have_snd_users, users>>
fpga    == <<running, intr, lag, ctr>>
service == <<stage, diff>>
vars    == <<control, pc, todo, service, port, fpga>>

Port == INSTANCE CommandPort WITH Client <- Task

At(t, s)   == pc[t] = s
Goto(t, s) == pc' = [pc EXCEPT ![t] = s]

\* The task has the commands cs to send: it takes the port or queues for it.
Send(t, cs) == /\ todo' = [todo EXCEPT ![t] = cs]
               /\ \/ Port!Wait(t) /\ Goto(t, "queue")
                  \/ Port!TakeAtOnce(t) /\ Goto(t, "turn")
               /\ UNCHANGED taken
---------------------------------------------------------------------------
(* data_pump_start_stop() at the end of rx_enable().                       *)

\* "stop the data pump when the last user leaves", "start the data pump when
\* the first user arrives": the commands they send.
data_pump_start_stop(t) ==
  LET no_users == \A c \in Snd : ~chan_enabled'[c]
  IN  \/ /\ itask_run = no_users
         /\ itask_run' = ~no_users
         /\ users' = [users EXCEPT ![t] = ~no_users]
         /\ Send(t, IF no_users THEN <<"set0", "clr">> ELSE <<"clr", "setn">>)
         /\ UNCHANGED have_snd_users
      \/ /\ itask_run = ~no_users
         /\ have_snd_users' = ~no_users
         /\ UNCHANGED <<itask_run, users, pc, todo, port>>

\* A sound task enables its channel, enables its data, or frees the channel;
\* the web server frees the channel of a sound task it removes, which may be
\* sending commands of its own, and goes on with them until it is removed.
rx_enable(t, c, on) ==
  /\ At(t, "idle")
  /\ on => t = c
  /\ on \/ chan_enabled[c]
  /\ chan_enabled' = [chan_enabled EXCEPT ![c] = on]
  /\ data_pump_start_stop(t)
  /\ UNCHANGED <<service, fpga>>

\* "have_snd_users = !no_users", which was found before the commands.
rx_enable_End(t) ==
  /\ t # pump /\ At(t, "sent") /\ Goto(t, "idle")
  /\ have_snd_users' = users[t]
  /\ users' = [users EXCEPT ![t] = FALSE]
  /\ UNCHANGED <<chan_enabled, itask_run, todo, service, port, fpga>>
---------------------------------------------------------------------------
(* A command: spi_set(), ctrl_clr_set() or spi_get3_noduplex().            *)

Contend(t) ==
  /\ \/ At(t, "send") /\ Send(t, todo[t])
     \/ At(t, "queue") /\ Port!Take(t) /\ Goto(t, "turn")
        /\ UNCHANGED <<todo, taken>>
  /\ UNCHANGED <<control, service, fpga>>

\* Faulty variant: the counter does not wrap.
Distance_NoWrap(stored, current) == current - stored

\* The distance from the counter stored with a buffer to the current one.
Distance(stored, current) ==
  IF current >= stored THEN current - stored
                       ELSE ((W - 1) - stored) + current

\* The embedded CPU clears the interrupt and sends the next buffer.  What is
\* read of a buffer that has been overwritten, or not written yet, as its
\* counter can be any word.
CmdGetRX ==
  /\ intr' = FALSE
  /\ \E stored \in 0..(W - 1) :
        /\ lag \in 1..nrx_bufs => stored = (ctr - lag) % W
        /\ diff' = Distance(stored, ctr)
  /\ lag' = IF lag > -MaxAhead THEN lag - 1 ELSE lag
  /\ UNCHANGED <<running, ctr>>

\* CmdSetRXNsamps, which resets the FPGA's pointers and counter.
CmdSetRXNsamps(on) == /\ running' = on /\ lag' = 0 /\ ctr' = 0
                      /\ UNCHANGED <<intr, diff>>

\* ctrl_clr_set(CTRL_SND_INTR, 0)
CmdCtrlClrSet == intr' = FALSE /\ UNCHANGED <<running, lag, ctr, diff>>

\* In the task's turn, the embedded CPU carries out its next command.
Command(t) ==
  /\ At(t, "turn") /\ holder = t /\ Port!Accept
  /\ \/ Head(todo[t]) = "get" /\ CmdGetRX
     \/ Head(todo[t]) = "set0" /\ CmdSetRXNsamps(FALSE)
     \/ Head(todo[t]) = "setn" /\ CmdSetRXNsamps(TRUE)
     \/ Head(todo[t]) = "clr" /\ CmdCtrlClrSet
  /\ UNCHANGED <<control, pc, todo, stage>>

\* After this, or in spi_check_wakeup(), other tasks may run.
CommandEnd(t) ==
  /\ At(t, "turn") /\ holder = t /\ taken = 1 /\ Port!Leave
  /\ todo' = [todo EXCEPT ![t] = Tail(todo[t])]
  /\ Goto(t, IF Tail(todo[t]) = <<>> THEN "sent" ELSE "send")
  /\ UNCHANGED <<control, service, fpga>>
---------------------------------------------------------------------------
(* The pump: data_pump() and snd_service().                                *)

\* Another task or the scheduler polls the interrupt and wakes the pump.
PumpWake ==
  /\ At(pump, "idle") /\ intr
  /\ Send(pump, <<"get">>) /\ stage' = "reply"
  /\ UNCHANGED <<control, diff, fpga>>

\* Faulty variant: a distance of nrx_bufs is not an overflow.
Overflow_PastEnd == diff > nrx_bufs

Overflow == diff > nrx_bufs - 1

\* The pump is too late: the FPGA's buffers are reset.
PumpReset ==
  /\ At(pump, "sent") /\ stage = "reply" /\ Overflow
  /\ Send(pump, <<"setn">>) /\ stage' = "reset"
  /\ diff' = 0
  /\ UNCHANGED <<control, fpga>>

Serviced == /\ At(pump, "sent")
            /\ stage = "reset" \/ (stage = "reply" /\ ~Overflow)

\* Faulty variant: the pump leaves its stop to the task that stops it.
Stopped_Ignored == FALSE

Stopped == ~itask_run

PumpStop ==
  /\ Serviced /\ Stopped
  /\ Send(pump, <<"set0", "clr">>) /\ stage' = "stop"
  /\ UNCHANGED <<control, diff, fpga>>

\* "while (diff > 1)"; after that the sound tasks are woken.
PumpLoop ==
  /\ \/ Serviced /\ ~Stopped
     \/ At(pump, "sent") /\ stage = "stop"
  /\ stage' = "reply" /\ diff' = 0
  /\ \/ diff > 1 /\ Send(pump, <<"get">>)
     \/ diff <= 1 /\ Goto(pump, "idle") /\ UNCHANGED <<todo, port>>
  /\ UNCHANGED <<control, fpga>>
---------------------------------------------------------------------------
(* The FPGA.                                                               *)

\* Faulty variant: the interrupt is signalled for the first buffer only.
RX_Buffer_First ==
  /\ running
  /\ lag' = IF lag < MaxLag THEN lag + 1 ELSE lag
  /\ ctr' = (ctr + 1) % W
  /\ intr' = (intr \/ lag = 0)
  /\ UNCHANGED <<control, pc, todo, service, port, running>>

\* A buffer is full, the embedded CPU signals the interrupt.
RX_Buffer ==
  /\ running
  /\ lag' = IF lag < MaxLag THEN lag + 1 ELSE lag
  /\ ctr' = (ctr + 1) % W
  /\ intr' = TRUE
  /\ UNCHANGED <<control, pc, todo, service, port, running>>
---------------------------------------------------------------------------
Init ==
  /\ Port!PortInit
  /\ chan_enabled = [c \in Snd |-> FALSE]
  /\ itask_run = FALSE /\ have_snd_users = FALSE
  /\ pc = [t \in Task |-> "idle"] /\ todo = [t \in Task |-> <<>>]
  /\ users = [t \in Task |-> FALSE]
  /\ stage = "reply" /\ diff = 0
  /\ running = FALSE /\ intr = FALSE /\ lag = 0 /\ ctr = 0

Step(t) == rx_enable_End(t) \/ Command(t) \/ CommandEnd(t)

PumpStep == PumpReset \/ PumpStop \/ PumpLoop

Next ==
  \/ \E t \in Task : Step(t) \/ Contend(t)
  \/ \E t \in Snd \cup Web, c \in Snd, on \in BOOLEAN : rx_enable(t, c, on)
  \/ PumpWake \/ PumpStep \/ RX_Buffer

Spec == Init /\ [][Next]_vars

(* The scheduler runs every task that can run, the pump sleeps in between  *)
(* so that every task gets its turn, and the FPGA goes on.                 *)
Fairness ==
  /\ \A t \in Task : WF_vars(Step(t)) /\ SF_vars(Contend(t))
  /\ WF_vars(PumpWake) /\ WF_vars(PumpStep) /\ WF_vars(RX_Buffer)

FairSpec == Spec /\ Fairness
---------------------------------------------------------------------------
(* Type correctness.                                                       *)
TypeOK ==
  /\ chan_enabled \in [Snd -> BOOLEAN]
  /\ itask_run \in BOOLEAN /\ have_snd_users \in BOOLEAN
  /\ pc \in [Task -> {"idle", "send", "queue", "turn", "sent"}]
  /\ \A t \in Task : todo[t] \in Seq({"get", "set0", "setn", "clr"})
                      /\ Len(todo[t]) <= 2
  /\ users \in [Task -> BOOLEAN]
  /\ stage \in {"reply", "reset", "stop"} /\ diff \in 0..(W - 1)
  /\ holder \in Task \cup {None} /\ contenders \subseteq Task
  /\ taken \in 0..1
  /\ running \in BOOLEAN /\ intr \in BOOLEAN
  /\ lag \in -MaxAhead..MaxLag /\ ctr \in 0..(W - 1)

Users == {c \in Snd : chan_enabled[c]}

(* "stop the data pump when the last user leaves": without users the FPGA  *)
(* stops, or there are users again, whatever commands of the pump, of a    *)
(* task that stops it and of one that starts it are under way.             *)
PumpStops == Users = {} ~> ~running \/ Users # {}

(* No buffer waits for ever: when the FPGA has filled one and runs, the    *)
(* pump is woken, though its interrupt may be cleared unserved by a start, *)
(* a stop or the reading of another buffer.                                *)
InterruptServed == running /\ lag > 0 ~> ~At(pump, "idle") \/ ~running

(* Reading a buffer, the pump notices that the FPGA is writing into it and *)
(* resets, and does not reset for a buffer that is whole; except that it   *)
(* does not notice when the counter has wrapped in between, since it takes *)
(* the distance across the wrap for one less than it is.                   *)
Reads == /\ At(pump, "turn") /\ taken = 0 /\ taken' = 1
         /\ Head(todo[pump]) = "get"

OverrunNoticed ==
  [][Reads /\ lag \in 1..nrx_bufs =>
       /\ Overflow' => lag = nrx_bufs
       /\ lag = nrx_bufs /\ ctr >= lag => Overflow']_vars

(* "start the data pump when the first user arrives": once every task has  *)
(* sent its commands, the FPGA runs if there is a user.                    *)
RunsForUsers ==
  (\A t \in Task : At(t, "idle")) /\ Users # {} => running
=============================================================================
