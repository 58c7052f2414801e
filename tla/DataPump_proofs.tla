--------------------------- MODULE DataPump_proofs ---------------------------
(***************************************************************************)
(* Safety of the data pump, for every set of sound tasks, every priority   *)
(* and number of buffers, and every width of the buffer counter.           *)
(***************************************************************************)
EXTENDS DataPump, SequenceTheorems, TLAPS

(* A task has the port in its turn, and queues for it as a contender.      *)
HolderInTurn ==
  /\ \A t \in Task : /\ At(t, "turn") <=> holder = t
                     /\ At(t, "queue") <=> t \in contenders
  /\ holder = None => taken = 0

(* A task on its way to the port, or in its turn, has a command to send.   *)
CommandsLeft ==
  /\ todo \in [Task -> Seq({"get", "set0", "setn", "clr"})]
  /\ \A t \in Task : pc[t] \in {"send", "queue", "turn"} => todo[t] # <<>>

PumpInv == TypeOK /\ HolderInTurn /\ CommandsLeft
---------------------------------------------------------------------------
(* The buffer counter, of any width.                                       *)
LEMMA WrappedBehind ==
  ASSUME NEW n \in Nat, NEW k \in Nat, k < W, n < W
  PROVE  (n - k) % W = IF n >= k THEN n - k ELSE n - k + W
  BY PumpAssumption

(* The counter stays in its width when the FPGA has filled a buffer.       *)
LEMMA WrappedNext ==
  ASSUME NEW n \in 0..(W - 1)
  PROVE  (n + 1) % W \in 0..(W - 1)
  BY PumpAssumption

(* A distance fits the width of the counters.                              *)
LEMMA DistanceRange ==
  ASSUME NEW stored \in 0..(W - 1), NEW current \in 0..(W - 1)
  PROVE  Distance(stored, current) \in 0..(W - 1)
  BY PumpAssumption DEF Distance

(* The distance is the number of buffers by which the pump is behind, or   *)
(* one less when the counter wrapped in between.                           *)
LEMMA DistanceIsLag ==
  ASSUME NEW n \in 0..(W - 1), NEW k \in 1..nrx_bufs
  PROVE  Distance((n - k) % W, n) = IF n >= k THEN k ELSE k - 1
<1>1. (n - k) % W = IF n >= k THEN n - k ELSE n - k + W
  BY WrappedBehind, PumpAssumption
<1>2. QED BY <1>1, PumpAssumption DEF Distance
---------------------------------------------------------------------------
LEMMA InitPump == Init => PumpInv
<1> SUFFICES ASSUME Init PROVE PumpInv
  OBVIOUS
<1> USE PumpAssumption DEF Init, Port!PortInit, Port!Init
<1>1. TypeOK
  <2>1. \A t \in Task : todo[t] = <<>>
    OBVIOUS
  <2>2. 0 \in -MaxAhead..MaxLag /\ 0 \in 0..(W - 1)
    OBVIOUS
  <2>3. /\ <<>> \in Seq({"get", "set0", "setn", "clr"}) /\ Len(<<>>) <= 2
    OBVIOUS
  <2>4. pump \in Task /\ holder = None /\ contenders = {}
    BY DEF Task
  <2>5. /\ pc \in [Task -> {"idle", "send", "queue", "turn", "sent"}]
        /\ users \in [Task -> BOOLEAN] /\ chan_enabled \in [Snd -> BOOLEAN]
    OBVIOUS
  <2>6. /\ stage = "reply" /\ taken = 0 /\ diff = 0 /\ ctr = 0 /\ lag = 0
        /\ itask_run \in BOOLEAN /\ have_snd_users \in BOOLEAN
        /\ running \in BOOLEAN /\ intr \in BOOLEAN
    OBVIOUS
  <2>7. \A t \in Task : /\ todo[t] \in Seq({"get", "set0", "setn", "clr"})
                        /\ Len(todo[t]) <= 2
    BY <2>1, <2>3
  <2>8. QED BY <2>2, <2>4, <2>5, <2>6, <2>7 DEF TypeOK
<1>2. HolderInTurn
  BY DEF HolderInTurn, At, Task
<1>3. CommandsLeft
  BY DEF CommandsLeft
<1>4. QED BY <1>1, <1>2, <1>3 DEF PumpInv

(* A task that is not in the port and has commands to send takes the port  *)
(* or queues for it.                                                       *)
LEMMA SendStep ==
  ASSUME PumpInv, NEW t \in Task, NEW cs, Send(t, cs),
         cs \in Seq({"get", "set0", "setn", "clr"}), cs # <<>>, Len(cs) <= 2,
         pc[t] \in {"idle", "send", "sent"}
  PROVE  /\ HolderInTurn' /\ CommandsLeft'
         /\ pc' \in [Task -> {"idle", "send", "queue", "turn", "sent"}]
         /\ \A u \in Task : todo'[u] \in Seq({"get", "set0", "setn", "clr"})
                            /\ Len(todo'[u]) <= 2
         /\ holder' \in Task \cup {None} /\ contenders' \subseteq Task
         /\ taken' \in 0..1 /\ taken' = taken
<1> USE DEF PumpInv, TypeOK, HolderInTurn, CommandsLeft, At, Goto
<1>1. /\ todo' = [todo EXCEPT ![t] = cs] /\ taken' = taken
      /\ \/ Port!Wait(t) /\ pc' = [pc EXCEPT ![t] = "queue"]
         \/ Port!TakeAtOnce(t) /\ pc' = [pc EXCEPT ![t] = "turn"]
  BY DEF Send
<1>2. CommandsLeft'
  BY <1>1
<1>3. \A u \in Task : /\ todo'[u] \in Seq({"get", "set0", "setn", "clr"})
                      /\ Len(todo'[u]) <= 2
  BY <1>1
<1>4. CASE Port!Wait(t) /\ pc' = [pc EXCEPT ![t] = "queue"]
  BY <1>1, <1>2, <1>3, <1>4 DEF Port!Wait
<1>5. CASE Port!TakeAtOnce(t) /\ pc' = [pc EXCEPT ![t] = "turn"]
  BY <1>1, <1>2, <1>3, <1>5, PumpAssumption DEF Port!TakeAtOnce
<1>6. QED BY <1>1, <1>4, <1>5

(* What each caller puts into todo[] are commands, two at most.            *)
LEMMA CommandLists ==
  /\ {<<"set0", "clr">>, <<"clr", "setn">>, <<"get">>, <<"setn">>}
       \subseteq Seq({"get", "set0", "setn", "clr"})
  /\ \A cs \in {<<"set0", "clr">>, <<"clr", "setn">>, <<"get">>, <<"setn">>} :
       cs # <<>> /\ Len(cs) <= 2
  OBVIOUS

LEMMA EnableStep ==
  ASSUME PumpInv, NEW t \in Snd \cup Web, NEW c \in Snd, NEW on \in BOOLEAN,
         rx_enable(t, c, on)
  PROVE  PumpInv'
<1> DEFINE no_users == \A d \in Snd : ~chan_enabled'[d]
           cs == IF no_users THEN <<"set0", "clr">> ELSE <<"clr", "setn">>
<1>1. /\ chan_enabled' = [chan_enabled EXCEPT ![c] = on]
      /\ pc[t] = "idle" /\ t \in Task
      /\ UNCHANGED <<stage, diff, running, intr, lag, ctr>>
      /\ \/ /\ Send(t, cs) /\ itask_run' \in BOOLEAN
            /\ users' = [users EXCEPT ![t] = ~no_users]
            /\ UNCHANGED have_snd_users
         \/ /\ have_snd_users' = ~no_users
            /\ UNCHANGED <<itask_run, users, pc, todo, holder, contenders, taken>>
  BY DEF rx_enable, data_pump_start_stop, At, Task, service, fpga, port
<1>2. cs \in Seq({"get", "set0", "setn", "clr"}) /\ cs # <<>> /\ Len(cs) <= 2
  BY CommandLists
<1>3. no_users \in BOOLEAN
  OBVIOUS
<1>4. chan_enabled' \in [Snd -> BOOLEAN]
  BY <1>1 DEF PumpInv, TypeOK
<1> HIDE DEF no_users, cs
<1>5. CASE Send(t, cs)
  <2>1. /\ HolderInTurn' /\ CommandsLeft'
        /\ pc' \in [Task -> {"idle", "send", "queue", "turn", "sent"}]
        /\ \A u \in Task : todo'[u] \in Seq({"get", "set0", "setn", "clr"})
                           /\ Len(todo'[u]) <= 2
        /\ holder' \in Task \cup {None} /\ contenders' \subseteq Task
        /\ taken' \in 0..1
    BY <1>1, <1>2, <1>5, SendStep
  <2>2. QED BY <1>1, <1>3, <1>4, <2>1 DEF PumpInv, TypeOK
<1>6. CASE UNCHANGED <<itask_run, users, pc, todo, holder, contenders, taken>>
  <2>1. HolderInTurn' /\ CommandsLeft'
    BY <1>6 DEF PumpInv, HolderInTurn, CommandsLeft, At
  <2>2. QED BY <1>1, <1>3, <1>4, <1>6, <2>1 DEF PumpInv, TypeOK
<1>7. QED BY <1>1, <1>5, <1>6

LEMMA EnableEndStep ==
  ASSUME PumpInv, NEW t \in Task, rx_enable_End(t) PROVE PumpInv'
<1>1. /\ pc[t] = "sent" /\ pc' = [pc EXCEPT ![t] = "idle"]
      /\ have_snd_users' = users[t] /\ users' = [users EXCEPT ![t] = FALSE]
      /\ UNCHANGED <<chan_enabled, itask_run, todo, stage, diff, holder,
                     contenders, taken, running, intr, lag, ctr>>
  BY DEF rx_enable_End, At, Goto, service, fpga, port
<1>2. HolderInTurn' /\ CommandsLeft'
  BY <1>1 DEF PumpInv, TypeOK, HolderInTurn, CommandsLeft, At
<1>3. QED BY <1>1, <1>2 DEF PumpInv, TypeOK

LEMMA ContendStep ==
  ASSUME PumpInv, NEW t \in Task, Contend(t) PROVE PumpInv'
<1>1. UNCHANGED <<chan_enabled, itask_run, have_snd_users, users, stage, diff,
                  running, intr, lag, ctr>>
  BY DEF Contend, control, service, fpga
<1>2. /\ HolderInTurn' /\ CommandsLeft'
      /\ pc' \in [Task -> {"idle", "send", "queue", "turn", "sent"}]
      /\ \A u \in Task : todo'[u] \in Seq({"get", "set0", "setn", "clr"})
                         /\ Len(todo'[u]) <= 2
      /\ holder' \in Task \cup {None} /\ contenders' \subseteq Task
      /\ taken' \in 0..1
  <2>1. CASE At(t, "send") /\ Send(t, todo[t])
    <3>1. /\ todo[t] \in Seq({"get", "set0", "setn", "clr"})
          /\ todo[t] # <<>> /\ Len(todo[t]) <= 2 /\ pc[t] = "send"
      BY <2>1 DEF PumpInv, TypeOK, CommandsLeft, At
    <3>2. QED BY <2>1, <3>1, SendStep
  <2>2. CASE /\ At(t, "queue") /\ Port!Take(t) /\ Goto(t, "turn")
             /\ UNCHANGED <<todo, taken>>
    BY <2>2, PumpAssumption DEF PumpInv, TypeOK, HolderInTurn, CommandsLeft, At,
       Goto, Port!Take
  <2>3. QED BY <2>1, <2>2 DEF Contend
<1>3. QED BY <1>1, <1>2 DEF PumpInv, TypeOK

(* What a command does to the pump's data and to the FPGA.                 *)
LEMMA CommandTypes ==
  ASSUME PumpInv, CmdGetRX \/ CmdSetRXNsamps(TRUE) \/ CmdSetRXNsamps(FALSE)
                           \/ CmdCtrlClrSet
  PROVE  /\ running' \in BOOLEAN /\ intr' \in BOOLEAN /\ diff' \in 0..(W - 1)
         /\ lag' \in -MaxAhead..MaxLag /\ ctr' \in 0..(W - 1)
<1> USE PumpAssumption DEF PumpInv, TypeOK
<1>1. CASE CmdGetRX
  <2>1. diff' \in 0..(W - 1)
    BY <1>1, DistanceRange DEF CmdGetRX
  <2>2. intr' = FALSE /\ running' = running /\ ctr' = ctr
        /\ lag' = IF lag > -MaxAhead THEN lag - 1 ELSE lag
    BY <1>1 DEF CmdGetRX
  <2>3. lag' \in -MaxAhead..MaxLag
    BY <2>2
  <2>4. QED BY <2>1, <2>2, <2>3
<1>2. ASSUME NEW on \in BOOLEAN, CmdSetRXNsamps(on)
      PROVE  /\ running' \in BOOLEAN /\ intr' \in BOOLEAN /\ diff' \in 0..(W - 1)
             /\ lag' \in -MaxAhead..MaxLag /\ ctr' \in 0..(W - 1)
  BY <1>2 DEF CmdSetRXNsamps
<1>3. CASE CmdCtrlClrSet
  BY <1>3 DEF CmdCtrlClrSet
<1>4. QED BY <1>1, <1>2, <1>3

LEMMA CommandStep ==
  ASSUME PumpInv, NEW t \in Task, Command(t) PROVE PumpInv'
<1>1. /\ UNCHANGED <<chan_enabled, itask_run, have_snd_users, users, pc, todo,
                     stage, holder, contenders>>
      /\ holder # None /\ taken' = 1
      /\ CmdGetRX \/ CmdSetRXNsamps(TRUE) \/ CmdSetRXNsamps(FALSE)
                  \/ CmdCtrlClrSet
  BY DEF Command, control, Port!Accept, Port!lock
<1>2. HolderInTurn' /\ CommandsLeft'
  BY <1>1 DEF PumpInv, HolderInTurn, CommandsLeft, At
<1>3. /\ running' \in BOOLEAN /\ intr' \in BOOLEAN /\ diff' \in 0..(W - 1)
      /\ lag' \in -MaxAhead..MaxLag /\ ctr' \in 0..(W - 1)
  BY <1>1, CommandTypes
<1>4. TypeOK'
  <2>1. TypeOK
    BY DEF PumpInv
  <2>2. UNCHANGED <<chan_enabled, itask_run, have_snd_users, users, pc, todo,
                    stage, holder, contenders>> /\ taken' \in 0..1
    BY <1>1
  <2>3. QED BY <1>3, <2>1, <2>2 DEF TypeOK
<1>5. QED BY <1>2, <1>4 DEF PumpInv

LEMMA CommandEndStep ==
  ASSUME PumpInv, NEW t \in Task, CommandEnd(t) PROVE PumpInv'
<1> DEFINE rest == Tail(todo[t])
           to == IF rest = <<>> THEN "sent" ELSE "send"
<1>1. /\ holder = t /\ pc[t] = "turn"
      /\ holder' = None /\ contenders' = contenders /\ taken' = 0
      /\ todo' = [todo EXCEPT ![t] = rest] /\ pc' = [pc EXCEPT ![t] = to]
      /\ UNCHANGED <<chan_enabled, itask_run, have_snd_users, users, stage, diff,
                     running, intr, lag, ctr>>
  BY DEF CommandEnd, At, Goto, Port!Leave, Port!Release, control, service, fpga
<1>2. /\ rest \in Seq({"get", "set0", "setn", "clr"}) /\ Len(rest) <= 2
  <2>1. /\ todo[t] \in Seq({"get", "set0", "setn", "clr"}) /\ todo[t] # <<>>
        /\ Len(todo[t]) <= 2
    BY <1>1 DEF PumpInv, TypeOK, CommandsLeft
  <2>2. rest \in Seq({"get", "set0", "setn", "clr"}) /\ Len(rest) = Len(todo[t]) - 1
    BY <2>1, HeadTailProperties
  <2>3. QED BY <2>1, <2>2, LenProperties
<1>3. to \in {"sent", "send"} /\ (to = "send" => rest # <<>>)
  OBVIOUS
<1> HIDE DEF rest, to
<1>4. CommandsLeft'
  BY <1>1, <1>2, <1>3 DEF PumpInv, TypeOK, CommandsLeft
<1>5. HolderInTurn'
  BY <1>1, <1>3, PumpAssumption DEF PumpInv, TypeOK, HolderInTurn, At
<1>6. QED BY <1>1, <1>2, <1>3, <1>4, <1>5 DEF PumpInv, TypeOK, CommandsLeft

(* The pump's own steps: it is not in the port, and goes to it or sleeps.  *)
LEMMA PumpStepStep ==
  ASSUME PumpInv, PumpWake \/ PumpReset \/ PumpStop \/ PumpLoop PROVE PumpInv'
<1>1. pump \in Task /\ pc[pump] \in {"idle", "sent"}
  BY DEF Task, PumpWake, PumpReset, PumpStop, PumpLoop, Serviced, At
<1>2. /\ UNCHANGED <<chan_enabled, itask_run, have_snd_users, users,
                     running, intr, lag, ctr>>
      /\ stage' \in {"reply", "reset", "stop"} /\ diff' \in 0..(W - 1)
  BY PumpAssumption DEF PumpInv, TypeOK, PumpWake, PumpReset, PumpStop, PumpLoop,
     control, fpga
<1>3. \/ \E cs \in {<<"get">>, <<"setn">>, <<"set0", "clr">>} : Send(pump, cs)
      \/ Goto(pump, "idle") /\ UNCHANGED <<todo, port>>
  BY DEF PumpWake, PumpReset, PumpStop, PumpLoop
<1>4. ASSUME NEW cs \in {<<"get">>, <<"setn">>, <<"set0", "clr">>}, Send(pump, cs)
      PROVE  PumpInv'
  <2>1. cs \in Seq({"get", "set0", "setn", "clr"}) /\ cs # <<>> /\ Len(cs) <= 2
    BY CommandLists
  <2>2. QED BY <1>1, <1>2, <1>4, <2>1, SendStep DEF PumpInv, TypeOK
<1>5. CASE Goto(pump, "idle") /\ UNCHANGED <<todo, port>>
  <2>1. HolderInTurn' /\ CommandsLeft'
    BY <1>1, <1>5 DEF PumpInv, TypeOK, HolderInTurn, CommandsLeft, At, Goto, port
  <2>2. QED BY <1>2, <1>5, <2>1 DEF PumpInv, TypeOK, Goto, port
<1>6. QED BY <1>3, <1>4, <1>5

LEMMA BufferStep ==
  ASSUME PumpInv, RX_Buffer PROVE PumpInv'
<1>1. /\ UNCHANGED <<chan_enabled, itask_run, have_snd_users, users, pc, todo,
                     stage, diff, holder, contenders, taken, running>>
      /\ lag' = IF lag < MaxLag THEN lag + 1 ELSE lag
      /\ ctr' = (ctr + 1) % W /\ intr' = TRUE
  BY DEF RX_Buffer, control, service, port
<1>2. lag' \in -MaxAhead..MaxLag /\ ctr' \in 0..(W - 1)
  BY <1>1, WrappedNext, PumpAssumption DEF PumpInv, TypeOK
<1>3. HolderInTurn' /\ CommandsLeft'
  BY <1>1 DEF PumpInv, HolderInTurn, CommandsLeft, At
<1>4. QED BY <1>1, <1>2, <1>3 DEF PumpInv, TypeOK

LEMMA NextPump == PumpInv /\ [Next]_vars => PumpInv'
<1> SUFFICES ASSUME PumpInv, [Next]_vars PROVE PumpInv'
  OBVIOUS
<1>1. CASE UNCHANGED vars
  BY <1>1 DEF PumpInv, TypeOK, HolderInTurn, CommandsLeft, At, vars, control,
     service, port, fpga
<1>2. ASSUME NEW t \in Task, Step(t) \/ Contend(t) PROVE PumpInv'
  BY <1>2, EnableEndStep, CommandStep, CommandEndStep, ContendStep DEF Step
<1>3. ASSUME NEW t \in Snd \cup Web, NEW c \in Snd, NEW on \in BOOLEAN,
             rx_enable(t, c, on)
      PROVE  PumpInv'
  BY <1>3, EnableStep
<1>4. CASE PumpWake \/ PumpStep
  BY <1>4, PumpStepStep DEF PumpStep
<1>5. CASE RX_Buffer
  BY <1>5, BufferStep
<1>6. QED BY <1>1, <1>2, <1>3, <1>4, <1>5 DEF Next

(* In every state one task at most is in its turn to send a command, the   *)
(* one that holds the port, and each task on its way has one to send.      *)
THEOREM PumpInvariance == Spec => []PumpInv
<1>1. Init => PumpInv
  BY InitPump
<1>2. PumpInv /\ [Next]_vars => PumpInv'
  BY NextPump
<1>3. QED BY <1>1, <1>2, PTL DEF Spec

(* The state of the pump, its users and the FPGA keeps its types: the      *)
(* counters stay in their width and the lag within its bounds.             *)
THEOREM TypeCorrect == Spec => []TypeOK
<1>1. PumpInv => TypeOK
  BY DEF PumpInv
<1>2. QED BY <1>1, PumpInvariance, PTL
---------------------------------------------------------------------------
(* The only command that the pump has taken in a step is its own.          *)
LEMMA ReadsIsGet ==
  ASSUME PumpInv, [Next]_vars, Reads PROVE CmdGetRX
<1>1. pc[pump] = "turn" /\ taken = 0 /\ taken' = 1 /\ Head(todo[pump]) = "get"
  BY DEF Reads, At
<1>2. holder = pump /\ pump \in Task
  BY <1>1 DEF PumpInv, HolderInTurn, At, Task
<1>3. PICK t \in Task : Command(t)
  <2>1. ~ UNCHANGED vars
    BY <1>1 DEF vars, port
  <2>2. ASSUME NEW t \in Task, rx_enable_End(t) \/ CommandEnd(t) \/ Contend(t)
        PROVE  FALSE
    BY <1>1, <2>2 DEF rx_enable_End, CommandEnd, Contend, Send, Port!Leave, port
  <2>3. ASSUME NEW t \in Snd \cup Web, NEW c \in Snd, NEW on \in BOOLEAN,
               rx_enable(t, c, on)
        PROVE  FALSE
    BY <1>1, <2>3 DEF rx_enable, data_pump_start_stop, Send, port
  <2>4. ~ (PumpWake \/ PumpStep \/ RX_Buffer)
    BY <1>1 DEF PumpWake, PumpStep, PumpReset, PumpStop, PumpLoop, RX_Buffer,
       Send, port
  <2>5. QED BY <2>1, <2>2, <2>3, <2>4 DEF Next, Step
<1>4. t = pump
  BY <1>2, <1>3 DEF Command
<1>5. QED BY <1>1, <1>3, <1>4 DEF Command

(* What CmdGetRX stores lets the pump see an overrun: the distance of the  *)
(* two counters is the lag, or one less when they wrapped in between.      *)
LEMMA OverrunStep ==
  ASSUME PumpInv, CmdGetRX, lag \in 1..nrx_bufs
  PROVE  /\ Overflow' => lag = nrx_bufs
         /\ lag = nrx_bufs /\ ctr >= lag => Overflow'
<1>1. ctr \in 0..(W - 1)
  BY DEF PumpInv, TypeOK
<1>2. diff' = Distance((ctr - lag) % W, ctr)
  BY DEF CmdGetRX
<1>3. diff' = IF ctr >= lag THEN lag ELSE lag - 1
  BY <1>1, <1>2, DistanceIsLag
<1>4. QED BY <1>3, PumpAssumption DEF Overflow

(* The pump resets for a buffer that the FPGA is writing into and for no   *)
(* other, whatever commands of other tasks came between; it does not see   *)
(* it when the counter wrapped since the buffer was filled.                *)
THEOREM OverrunsNoticed == Spec => OverrunNoticed
<1>1. PumpInv /\ [Next]_vars =>
        [Reads /\ lag \in 1..nrx_bufs =>
           /\ Overflow' => lag = nrx_bufs
           /\ lag = nrx_bufs /\ ctr >= lag => Overflow']_vars
  BY ReadsIsGet, OverrunStep
<1>2. QED BY <1>1, PumpInvariance, PTL DEF Spec, OverrunNoticed
=============================================================================
