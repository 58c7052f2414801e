------------------------------ MODULE RxServer ------------------------------
(***************************************************************************)
(* The connections of the server and the receiver channels they share      *)
(* (rx/rx_server.cpp, with the parts of the connections' own tasks in      *)
(* rx/rx_sound.cpp, rx/rx_waterfall.cpp, extensions/ext.cpp and            *)
(* rx/rx_monitor.cpp that end them).                                       *)
(*                                                                         *)
(* Tasks are switched only where they call NextTask(), so a step is what a *)
(* task does between two switches.  Two of the switches are hidden: the    *)
(* SPI commands of data_pump_start_stop() wait for a busy embedded CPU,    *)
(* and TaskRemove() of another task lets the others run.  What the         *)
(* commands do, and have_snd_users, is in DataPump.                        *)
(*                                                                         *)
(* Left out: the limit wf_chans, as on the configurations where every      *)
(* channel has a waterfall; wideband, DRM's exclusive use, autorun and its *)
(* preemption; the refusals that come before any change of state           *)
(* (blacklist, update in progress, bad URIs).                              *)
(***************************************************************************)
EXTENDS Integers, FiniteSets

CONSTANTS N_CONNS, rx_chans,
          Client,        \* what has one tstamp: a loaded page, a kiwirecorder
          KiwiUI,        \* those which are Kiwi UI pages
          Socket,        \* the websockets that clients open: <<client, stream>>
          monitors_max,
          Faults,        \* what can happen: "spi_busy", "no_tasks"
          None

Conn == 1..N_CONNS
Chan == 0..(rx_chans - 1)
Stream == {"SND", "W/F", "EXT"}

ASSUME RxAssumption ==
  /\ N_CONNS \in Nat \ {0} /\ rx_chans \in Nat \ {0} /\ monitors_max \in Nat
  /\ KiwiUI \subseteq Client /\ Socket \subseteq Client \X Stream
  /\ Faults \subseteq {"spi_busy", "no_tasks"}
  /\ None \notin Conn /\ None \notin Client /\ None \notin Socket

VARIABLES
  conns,            \* conns[c]: the fields of conn_t
  rx_channels,      \* rx_channels[ch]: the fields of rx_chan_t
  ext_users,        \* ext_users[ch].conn_ext
  at,               \* at[c]: where the task of the connection is
  itask_run,
  socket,           \* the state of each websocket: "new", "open", "closed"
  param,            \* mc->connection_param of each websocket
  web,              \* the web server task in its search of conns[]
  fatal,            \* "none", or why the server is lost
  orderly           \* history: no task creation failed, no task was switched
                    \* out amid rx_enable() or the search of conns[]

vars == <<conns, rx_channels, ext_users, at, itask_run, 
          socket, param, web, fatal, orderly>>

NewConn == [valid |-> FALSE, type |-> "none", other |-> None, rx_channel |-> -1,
            mc |-> None, tstamp |-> None, kick |-> FALSE, stop_data |-> FALSE]
NewChan == [chan_enabled |-> FALSE, data_enabled |-> FALSE, busy |-> FALSE,
            conn |-> None, ext |-> FALSE]
Idle == [pc |-> "idle", sock |-> None, i |-> 1, cfree |-> None, cother |-> None,
         mon_total |-> 0]

Init ==
  /\ conns = [c \in Conn |-> NewConn]
  /\ rx_channels = [ch \in Chan |-> NewChan]
  /\ ext_users = [ch \in Chan |-> None]
  /\ at = [c \in Conn |-> "none"]
  /\ itask_run = FALSE
  /\ socket = [s \in Socket |-> "new"]
  /\ param = [s \in Socket |-> None]
  /\ web = Idle
  /\ fatal = "none" /\ orderly = TRUE

(***************************************************************************)
(* rx_enable() stores in the channel, then data_pump_start_stop() issues   *)
(* SPI commands if the first user arrived or the last one left, and at     *)
(* last notes whether there are users, as it had found before the          *)
(* commands.                                                               *)
(***************************************************************************)
SndUsers(rx) == \E ch \in Chan : rx[ch].chan_enabled

StoreIn(ch, rxc) == IF ch = -1 THEN rx_channels ELSE [rx_channels EXCEPT ![ch] = rxc]

rx_enable(rx) ==
  /\ rx_channels' = rx
  /\ itask_run' = SndUsers(rx)

\* BOUND: of the faults one happens, and none after a connection was culled.
MayHappen(fault) == fault \in Faults /\ orderly

\* The SPI commands are done without a switch of tasks, or there are none.
PumpDone == UNCHANGED orderly

\* The task is switched out in them, holding or awaiting spi_lock.
PumpSwitch(rx) ==
  /\ MayHappen("spi_busy") /\ SndUsers(rx) # itask_run
  /\ orderly' = FALSE

InSpi == {"enabling", "disabling", "freeing"}

(***************************************************************************)
(* rx_server_remove(): the extension of a sound or waterfall connection is *)
(* kicked, as the user of the channel that ext_users[] names, and the slot *)
(* is free again.                                                          *)
(***************************************************************************)
ExtKicked(cs, c) ==
  IF /\ cs[c].type \in {"SND", "W/F"}
     /\ \E e \in Conn : /\ cs[e].valid /\ cs[e].type = "EXT"
                        /\ cs[e].rx_channel = cs[c].rx_channel
                        /\ cs[e].tstamp = cs[c].tstamp
  THEN {ext_users[cs[c].rx_channel]} \ {None}
  ELSE {}

rx_server_remove(cs, c) ==
  [d \in Conn |-> IF d = c THEN NewConn
                  ELSE IF d \in ExtKicked(cs, c) THEN [cs[d] EXCEPT !.kick = TRUE]
                  ELSE cs[d]]

\* Faulty variant: the other stream is not found.
conn_other_Never(c, type) == {}

conn_other(c, type) ==
  LET o == conns[c].other
  IN IF o # None /\ conns[o].type = type /\ conns[o].rx_channel = conns[c].rx_channel
     THEN {o} ELSE {}

-----------------------------------------------------------------------------
(***************************************************************************)
(* The tasks of the connections.                                           *)
(***************************************************************************)
Running(c, type) == /\ fatal = "none"
                    /\ conns[c].valid /\ conns[c].type = type
                    /\ conns[c].rx_channel \in Chan \cup (IF type = "MON" THEN {-1} ELSE {})

\* The task ends its connection, after the last rx_enable() it has to do.
EndWith(c, cs, rx, pc) ==
  /\ rx_enable(rx)
  /\ \/ PumpDone /\ conns' = rx_server_remove(cs, c) /\ at' = [at EXCEPT ![c] = "none"]
     \/ PumpSwitch(rx) /\ conns' = cs /\ at' = [at EXCEPT ![c] = pc]
  /\ UNCHANGED <<ext_users, socket, param, web, fatal>>

\* c2s_sound() starts: the channel delivers samples.
SndSetup(c) ==
  LET rx == StoreIn(conns[c].rx_channel,
                    [rx_channels[conns[c].rx_channel] EXCEPT !.chan_enabled = TRUE])
  IN /\ Running(c, "SND") /\ at[c] = "setup"
     /\ rx_enable(rx)
     /\ \/ PumpDone /\ at' = [at EXCEPT ![c] = "run"]
        \/ PumpSwitch(rx) /\ at' = [at EXCEPT ![c] = "enabling"]
     /\ UNCHANGED <<conns, ext_users, socket, param, web, fatal>>

\* All the commands that a sound connection needs have come.
SndCmdsReceived(c) ==
  LET rx == StoreIn(conns[c].rx_channel,
                    [rx_channels[conns[c].rx_channel] EXCEPT !.data_enabled = TRUE])
  IN /\ Running(c, "SND") /\ at[c] = "run" /\ ~conns[c].stop_data
     /\ ~rx_channels[conns[c].rx_channel].data_enabled
     /\ rx_enable(rx) /\ PumpDone
     /\ UNCHANGED <<conns, ext_users, at, socket, param, web, fatal>>

\* Faulty variant: the channel is disabled and never freed.
StopData_Disables(c) ==
  /\ \E type \in {"SND", "W/F"} : Running(c, type)
  /\ at[c] = "run" /\ conns[c].stop_data
  /\ EndWith(c, conns, StoreIn(conns[c].rx_channel,
       [rx_channels[conns[c].rx_channel] EXCEPT !.chan_enabled = FALSE]), "freeing")

\* The other stream of the receiver has ended and left the channel to this one.
StopData(c) ==
  /\ \E type \in {"SND", "W/F"} : Running(c, type)
  /\ at[c] = "run" /\ conns[c].stop_data
  /\ EndWith(c, conns, StoreIn(conns[c].rx_channel, NewChan), "freeing")

\* Kicked, or no keep-alive has been seen, which may happen at any time.
SndEnd(c) ==
  LET ch == conns[c].rx_channel
      cwf == conn_other(c, "W/F")
      told == [d \in Conn |-> IF d \in cwf THEN [conns[d] EXCEPT !.stop_data = TRUE]
                              ELSE conns[d]]
  IN /\ Running(c, "SND") /\ at[c] = "run" /\ ~conns[c].stop_data
     /\ IF cwf # {}
        THEN EndWith(c, told, StoreIn(ch, [rx_channels[ch] EXCEPT !.chan_enabled = FALSE]),
                     "disabling")
        ELSE EndWith(c, conns, StoreIn(ch, NewChan), "freeing")

WfEnd(c) ==
  LET csnd == conn_other(c, "SND")
      told == [d \in Conn |-> IF d \in csnd THEN [conns[d] EXCEPT !.stop_data = TRUE]
                              ELSE conns[d]]
  IN /\ Running(c, "W/F") /\ at[c] = "run" /\ ~conns[c].stop_data
     /\ IF csnd # {}
        THEN /\ conns' = rx_server_remove(told, c)
             /\ at' = [at EXCEPT ![c] = "none"]
             /\ UNCHANGED <<rx_channels, ext_users, itask_run, socket,
                            param, web, fatal, orderly>>
        ELSE EndWith(c, conns, StoreIn(conns[c].rx_channel, NewChan), "freeing")

MonEnd(c) ==
  /\ Running(c, "MON")
  /\ conns' = rx_server_remove(conns, c)
  /\ at' = [at EXCEPT ![c] = "none"]
  /\ UNCHANGED <<rx_channels, ext_users, itask_run, socket, param, web,
                 fatal, orderly>>

\* The SPI commands are done.
PumpResume(c) ==
  /\ fatal = "none" /\ at[c] \in InSpi
  /\ IF at[c] = "enabling"
     THEN at' = [at EXCEPT ![c] = "run"] /\ UNCHANGED conns
     ELSE at' = [at EXCEPT ![c] = "none"] /\ conns' = rx_server_remove(conns, c)
  /\ UNCHANGED <<rx_channels, ext_users, itask_run, socket, param, web, fatal, orderly>>

\* "SET ext_switch_to_client": the connection is the user of its channel.
ExtSwitch(c) ==
  LET ch == conns[c].rx_channel
      snd == rx_channels[ch].conn
  IN /\ Running(c, "EXT")
     /\ ext_users' = [ext_users EXCEPT ![ch] = c]
     /\ rx_channels' = IF snd # None /\ conns[snd].valid /\ conns[snd].type = "SND"
                       THEN [rx_channels EXCEPT ![ch].ext = TRUE] ELSE rx_channels
     /\ UNCHANGED <<conns, at, itask_run, socket, param, web, fatal, orderly>>

extint_ext_users_init(ch) ==
  /\ rx_channels' = [rx_channels EXCEPT ![ch].ext = FALSE]
  /\ ext_users' = [ext_users EXCEPT ![ch] = None]

\* "SET ext_blur"
ExtBlur(c) ==
  /\ Running(c, "EXT")
  /\ extint_ext_users_init(conns[c].rx_channel)
  /\ UNCHANGED <<conns, at, itask_run, socket, param, web, fatal, orderly>>

\* Faulty variant: the extension goes without a word to its channel.
ExtEnd_KeepsUser(c) ==
  /\ Running(c, "EXT")
  /\ conns' = rx_server_remove(conns, c)
  /\ at' = [at EXCEPT ![c] = "none"]
  /\ UNCHANGED <<rx_channels, ext_users, itask_run, socket, param, web,
                 fatal, orderly>>

ExtEnd(c) ==
  /\ Running(c, "EXT")
  /\ extint_ext_users_init(conns[c].rx_channel)
  /\ conns' = rx_server_remove(conns, c)
  /\ at' = [at EXCEPT ![c] = "none"]
  /\ UNCHANGED <<itask_run, socket, param, web, fatal, orderly>>

\* A sound or waterfall task without a channel indexes its arrays with -1.
NoChannel(c) ==
  /\ fatal = "none"
  /\ conns[c].valid /\ conns[c].type \in {"SND", "W/F"} /\ conns[c].rx_channel = -1
  /\ fatal' = "no_channel"
  /\ UNCHANGED <<conns, rx_channels, ext_users, at, itask_run, socket,
                 param, web, orderly>>

\* rx_server_kick() of a channel.  KICK_USERS and KICK_ALL set the flags of all
\* channels, which is this step for one channel after the other.
Kick(ch) ==
  /\ fatal = "none"
  /\ conns' = [c \in Conn |->
       IF conns[c].valid /\ conns[c].type \in Stream /\ conns[c].rx_channel = ch
       THEN [conns[c] EXCEPT !.kick = TRUE] ELSE conns[c]]
  /\ UNCHANGED <<rx_channels, ext_users, at, itask_run, socket, param, web,
                 fatal, orderly>>

-----------------------------------------------------------------------------
(***************************************************************************)
(* rx_server_websocket(WS_MODE_ALLOC) in the web server task: a message of *)
(* a websocket that has no connection yet.  One pass over conns[] removes  *)
(* connections that were left to stop and have lost their websocket,       *)
(* notes the first free slot, and finds the connection to link to.         *)
(***************************************************************************)
Partners(type) == CASE type = "SND" -> {"W/F", "MON"}
                    [] type = "W/F" -> {"SND", "MON"}
                    [] type = "EXT" -> {"SND"}

LowestOf(S) == IF S = {} THEN None ELSE CHOOSE x \in S : \A y \in S : x <= y

ToCull(w) == LowestOf({c \in Conn : /\ c >= w.i /\ conns[c].valid
                                   /\ conns[c].stop_data /\ conns[c].mc = None})

\* What the pass w has seen so far, before it comes to the connection to cull.
Passed(w) == {c \in Conn : c >= w.i /\ (ToCull(w) = None \/ c < ToCull(w))}
SameClient(w) == {c \in Passed(w) : conns[c].valid /\ conns[c].tstamp = w.sock[1]}
Others(w) == {c \in SameClient(w) : conns[c].type \in Partners(w.sock[2])}
             \cup ({w.cother} \ {None})
Rejected(w) == \/ \E c \in SameClient(w) : conns[c].type = w.sock[2]
               \/ Cardinality(Others(w)) > 1

Search(w) ==
  [w EXCEPT !.cfree = IF @ # None THEN @ ELSE LowestOf({c \in Passed(w) : ~conns[c].valid}),
            !.cother = LowestOf(Others(w)),
            !.mon_total = @ + Cardinality({c \in Passed(w) : conns[c].valid /\ conns[c].type = "MON"})]

\* TaskRemove() of the task of a connection.  It panics if the task holds a
\* lock, and a task that was switched out in an SPI command holds spi_lock or
\* waits for it.  A slot that is free again has the task number of main().
TaskRemoveBy(w, c) ==
  \/ /\ ~conns[c].valid
     /\ fatal' = "main_removed"
     /\ UNCHANGED <<conns, at, web, orderly>>
  \/ /\ conns[c].valid /\ at[c] \in InSpi
     /\ fatal' = "lock_held"
     /\ UNCHANGED <<conns, at, web, orderly>>
  \/ /\ conns[c].valid
     /\ conns' = rx_server_remove(conns, c)
     /\ at' = [at EXCEPT ![c] = "none"]
     /\ web' = [w EXCEPT !.pc = "removed", !.i = c]
     /\ orderly' = FALSE
     /\ UNCHANGED fatal

Cull(w, c) ==
  LET rx == StoreIn(conns[c].rx_channel, NewChan)
  IN /\ rx_enable(rx)
     /\ \/ TaskRemoveBy(w, c)
        \/ /\ PumpSwitch(rx)
           /\ web' = [w EXCEPT !.pc = "freed", !.i = c]
           /\ UNCHANGED <<conns, at, fatal>>
     /\ UNCHANGED <<ext_users, socket, param>>

CullResume ==
  /\ fatal = "none" /\ web.pc = "freed"
  /\ TaskRemoveBy(web, web.i)
  /\ UNCHANGED <<rx_channels, ext_users, itask_run, socket, param>>

WebDone == web' = Idle /\ UNCHANGED <<fatal, socket>>

\* Neither the slot nor anything else is taken.
Refuse(c) ==
  /\ conns' = IF c = None THEN conns ELSE [conns EXCEPT ![c] = NewConn]
  /\ WebDone
  /\ UNCHANGED <<rx_channels, ext_users, at, itask_run, param, orderly>>

\* The slot c is filled and its task created, if there is a task to be had.
Create(c, s, conn, cs, rx) ==
  /\ UNCHANGED ext_users
  /\ \/ /\ conns' = [cs EXCEPT ![c] = [conn EXCEPT !.valid = TRUE]]
        /\ param' = [param EXCEPT ![s] = c]
        /\ at' = [at EXCEPT ![c] = IF conn.type = "SND" THEN "setup" ELSE "run"]
        /\ rx_channels' = rx
        /\ WebDone
        /\ UNCHANGED <<itask_run, orderly>>
     \/ /\ MayHappen("no_tasks")
        /\ LET freed == IF conn.rx_channel = -1 THEN rx
                        ELSE [rx EXCEPT ![conn.rx_channel] = NewChan]
           IN rx_enable(freed)
        /\ conns' = [cs EXCEPT ![c] = NewConn]
        /\ orderly' = FALSE
        /\ WebDone
        /\ UNCHANGED <<at, param>>

Filled(s, other, type, ch) ==
  [NewConn EXCEPT !.type = type, !.other = other, !.rx_channel = ch, !.mc = s,
                  !.tstamp = s[1]]

\* Faulty variant: one channel too many.
FreeChans_PastEnd == {ch \in 0..rx_chans : ch = rx_chans \/ ~rx_channels[ch].busy}
\* Faulty variant: a channel without sound is taken for a free one.
FreeChans_NoSound == {ch \in Chan : ~rx_channels[ch].chan_enabled}
FreeChans == {ch \in Chan : ~rx_channels[ch].busy}

\* No partner is there: the connection gets a channel of its own, or watches.
AllocAlone(w, c, s) ==
  LET ch == LowestOf(FreeChans)
  IN IF FreeChans # {}
     THEN Create(c, s, Filled(s, None, s[2], ch), conns,
                 StoreIn(ch, [NewChan EXCEPT !.busy = TRUE, !.conn = c]))
     ELSE IF s[1] \in KiwiUI /\ w.mon_total < monitors_max
          THEN Create(c, s, Filled(s, None, "MON", -1), conns, rx_channels)
          ELSE Refuse(c)

\* Faulty variant: the sound connection does not take the channel over.
AllocShared_KeepsConn(w, c, s) ==
  LET o == w.cother
      ch == conns[o].rx_channel
      rxc == [rx_channels[ch] EXCEPT !.conn = IF @ = None THEN c ELSE @]
  IN IF conns[o].type = "MON" THEN Refuse(c)
     ELSE Create(c, s, Filled(s, o, s[2], ch), [conns EXCEPT ![o].other = c],
                 IF ch = -1 THEN rx_channels ELSE StoreIn(ch, rxc))

\* The channel of the partner is shared.
AllocShared(w, c, s) ==
  LET o == w.cother
      ch == conns[o].rx_channel
      rxc == [rx_channels[ch] EXCEPT !.conn = IF s[2] = "SND" \/ @ = None THEN c ELSE @]
  IN IF conns[o].type = "MON" THEN Refuse(c)
     ELSE Create(c, s, Filled(s, o, s[2], ch), [conns EXCEPT ![o].other = c],
                 IF ch = -1 THEN rx_channels ELSE StoreIn(ch, rxc))

\* Without a sound connection the slot is left half filled, and the websocket
\* with a pointer to it.
AllocExt(w, c, s) ==
  IF w.cother # None /\ conns[w.cother].rx_channel # -1
  THEN Create(c, s, Filled(s, w.cother, "EXT", conns[w.cother].rx_channel), conns, rx_channels)
  ELSE /\ conns' = [conns EXCEPT ![c] = [NewConn EXCEPT !.type = "EXT", !.other = w.cother]]
       /\ param' = [param EXCEPT ![s] = c]
       /\ WebDone
       /\ UNCHANGED <<rx_channels, ext_users, at, itask_run, orderly>>

Continue(w) ==
  LET found == Search(w)
      c == found.cfree
      s == found.sock
  IN IF Rejected(w) THEN Refuse(None)
     ELSE IF ToCull(w) # None THEN Cull(found, ToCull(w))
     ELSE IF c = None THEN Refuse(None)
     ELSE IF s[2] = "EXT" THEN AllocExt(found, c, s)
     ELSE IF found.cother = None THEN AllocAlone(found, c, s)
     ELSE AllocShared(found, c, s)

Message(s) ==
  /\ fatal = "none" /\ web.pc = "idle"
  /\ socket[s] = "open" /\ param[s] = None
  /\ Continue([Idle EXCEPT !.sock = s])

SearchOn ==
  /\ fatal = "none" /\ web.pc = "removed"
  /\ Continue(web)

(***************************************************************************)
(* The clients: a page opens each of its websockets once and, when all are *)
(* closed, is loaded again with another tstamp.                            *)
(***************************************************************************)
ClientStep(s, from, to) ==
  /\ fatal = "none" /\ web.pc = "idle"
  /\ socket[s] = from /\ socket' = [socket EXCEPT ![s] = to]
  /\ UNCHANGED <<rx_channels, ext_users, at, itask_run, web, fatal, orderly>>

Open(s) == ClientStep(s, "new", "open") /\ UNCHANGED <<conns, param>>

\* Faulty variant: the connection is told to end, and keeps the websocket.
Close_KeepsMc(s) ==
  LET c == param[s]
  IN /\ ClientStep(s, "open", "closed")
     /\ conns' = IF c # None /\ conns[c].valid /\ conns[c].mc = s
                 THEN [conns EXCEPT ![c].kick = TRUE] ELSE conns
     /\ param' = [param EXCEPT ![s] = None]

\* Faulty variant: the connection loses its websocket and is not told to end.
Close_NoKick(s) ==
  LET c == param[s]
  IN /\ ClientStep(s, "open", "closed")
     /\ conns' = IF c # None /\ conns[c].valid /\ conns[c].mc = s
                 THEN [conns EXCEPT ![c].mc = None] ELSE conns
     /\ param' = [param EXCEPT ![s] = None]

\* MG_EV_CLOSE: rx_server_websocket(WS_MODE_CLOSE)
Close(s) ==
  LET c == param[s]
  IN /\ ClientStep(s, "open", "closed")
     /\ conns' = IF c # None /\ conns[c].valid /\ conns[c].mc = s
                 THEN [conns EXCEPT ![c].mc = None, ![c].kick = TRUE] ELSE conns
     /\ param' = [param EXCEPT ![s] = None]

Reload(cl) ==
  /\ \A s \in Socket : s[1] = cl => socket[s] # "open"
  /\ \E s \in Socket : s[1] = cl /\ socket[s] # "new"
  /\ \A c \in Conn : conns[c].tstamp # cl
  /\ fatal = "none" /\ web.pc = "idle"
  /\ socket' = [s \in Socket |-> IF s[1] = cl THEN "new" ELSE socket[s]]
  /\ UNCHANGED <<conns, rx_channels, ext_users, at, itask_run, param, web,
                 fatal, orderly>>

ConnTask(c) ==
  \/ SndSetup(c) \/ StopData(c) \/ PumpResume(c) \/ NoChannel(c)
  \/ conns[c].kick /\ (SndEnd(c) \/ WfEnd(c) \/ MonEnd(c) \/ ExtEnd(c))

Next ==
  \/ \E c \in Conn : \/ SndSetup(c) \/ SndCmdsReceived(c) \/ StopData(c)
                     \/ SndEnd(c) \/ WfEnd(c) \/ MonEnd(c) \/ PumpResume(c)
                     \/ ExtSwitch(c) \/ ExtBlur(c) \/ ExtEnd(c) \/ NoChannel(c)
  \/ \E ch \in Chan : Kick(ch)
  \/ \E s \in Socket : Message(s) \/ Open(s) \/ Close(s)
  \/ CullResume \/ SearchOn
  \/ \E cl \in Client : Reload(cl)

Spec == Init /\ [][Next]_vars

FairSpec == Spec /\ WF_vars(CullResume \/ SearchOn)
                 /\ \A c \in Conn : WF_vars(ConnTask(c))

-----------------------------------------------------------------------------
(***************************************************************************)
(* Properties.                                                             *)
(***************************************************************************)
\* Every field has its type.
TypeOK ==
  /\ conns \in [Conn -> [valid : BOOLEAN, type : Stream \cup {"none", "MON"},
                         other : Conn \cup {None}, rx_channel : Chan \cup {-1},
                         mc : Socket \cup {None}, tstamp : Client \cup {None},
                         kick : BOOLEAN, stop_data : BOOLEAN]]
  /\ rx_channels \in [Chan -> [chan_enabled : BOOLEAN, data_enabled : BOOLEAN,
                               busy : BOOLEAN, conn : Conn \cup {None}, ext : BOOLEAN]]
  /\ ext_users \in [Chan -> Conn \cup {None}]
  /\ at \in [Conn -> {"none", "setup", "run"} \cup InSpi]
  /\ itask_run \in BOOLEAN
  /\ socket \in [Socket -> {"new", "open", "closed"}]
  /\ param \in [Socket -> Conn \cup {None}]
  /\ web \in [pc : {"idle", "freed", "removed"}, sock : Socket \cup {None}, i : Conn,
              cfree : Conn \cup {None}, cother : Conn \cup {None}, mon_total : 0..N_CONNS]
  /\ fatal \in {"none", "no_channel", "lock_held", "main_removed"}
  /\ orderly \in BOOLEAN

\* A connection is served by the one open websocket that points back to it, so
\* a websocket whose slot was given to another connection reaches nobody.
SocketServesOne ==
  \A c \in Conn : conns[c].valid /\ conns[c].mc # None =>
    /\ param[conns[c].mc] = c /\ socket[conns[c].mc] = "open"
    /\ conns[c].mc[1] = conns[c].tstamp

\* Messages of an extension go to ext_users[].conn_ext: it is a connection of
\* an extension on that channel, never a slot that was freed or reused.
ExtUserIsExt ==
  \A ch \in Chan : ext_users[ch] # None =>
    /\ conns[ext_users[ch]].valid /\ conns[ext_users[ch]].type = "EXT"
    /\ conns[ext_users[ch]].rx_channel = ch

Uses(c, ch) == conns[c].valid /\ conns[c].type \in {"SND", "W/F"} /\ conns[c].rx_channel = ch

\* No channel stays busy without a sound or waterfall connection that will
\* free it, however the ends of the two cross.
NoLeakedChannel ==
  fatal = "none" => \A ch \in Chan : rx_channels[ch].busy => \E c \in Conn : Uses(c, ch)

\* As long as no connection was culled and no fault happened: a sound or
\* waterfall connection has a channel and the channel is busy, it is freed only
\* when there is no other stream that uses it.
UsedIsBusy ==
  orderly => \A c \in Conn : conns[c].valid /\ conns[c].type \in {"SND", "W/F"} =>
    \E ch \in Chan : Uses(c, ch) /\ rx_channels[ch].busy

\* As long as no connection was culled and no fault happened: two clients never
\* share a channel.
OneClient ==
  orderly => \A ch \in Chan, c, d \in Conn :
    Uses(c, ch) /\ Uses(d, ch) => conns[c].tstamp = conns[d].tstamp

\* As long as no connection was culled and no fault happened: a channel is
\* leased to one client, which has no other, from its first stream to the end of
\* its last (ReceiverLease), however their streams come, end and are told to end.
Streams(ch) == {<<conns[c].tstamp, conns[c].type>> : c \in {d \in Conn : Uses(d, ch)}}

Lease == INSTANCE ReceiverLease WITH
           Stream <- Client \X {"SND", "W/F"},
           busy <- [ch \in Chan |-> rx_channels[ch].busy],
           streams <- [ch \in Chan |-> Streams(ch)]
ChannelsAreLeased == Lease!Spec

\* data_pump() asserts that the connection it wakes for an enabled channel is a
\* sound connection: it is, as long as no connection was culled and no fault
\* happened, although the channel can have begun with a waterfall.
WakesSound ==
  orderly => \A ch \in Chan : rx_channels[ch].chan_enabled =>
    rx_channels[ch].conn # None /\ conns[rx_channels[ch].conn].type = "SND"

NoneOpen == \A s \in Socket : socket[s] # "open"
\* When the clients have closed their websockets, every channel is free again
\* in the end, if the tasks of the connections go on.
ChannelsComeBack == NoneOpen ~> (~NoneOpen \/ fatal # "none" \/ FreeChans = Chan)

=============================================================================
