--------------------------- MODULE RxServer_proofs ---------------------------
(***************************************************************************)
(* Safety of the connections and of the receiver channels they share, for  *)
(* every number of slots and of channels, every set of clients and of      *)
(* their websockets.                                                       *)
(***************************************************************************)
EXTENDS RxServer, FiniteSetTheorems, TLAPS

Receiver == {"SND", "W/F"}
Receives(c) == conns[c].valid /\ conns[c].type \in Receiver
OtherType(type) == IF type = "SND" THEN "W/F" ELSE "SND"

Leaving == {"disabling", "freeing"}

(* What the search of the web server task has found stays true while other *)
(* tasks run, except that connections end: a free slot stays free, because *)
(* only this task fills slots, and the websocket stays open and unserved,  *)
(* because only this task reads messages.                                  *)
SearchValid ==
  /\ web.pc # "idle" =>
       /\ ~orderly
       /\ web.sock \in Socket /\ socket[web.sock] = "open" /\ param[web.sock] = None
       /\ web.cfree # None => ~conns[web.cfree].valid
       /\ web.mon_total < web.i
  /\ web.pc = "freed" /\ conns[web.i].valid =>
       /\ conns[web.i].type \in Receiver
       /\ conns[web.i].rx_channel # -1 => ~rx_channels[conns[web.i].rx_channel].busy

(* Slots that were freed or left half filled are nobody's.                 *)
SlotsKept ==
  \A c \in Conn :
    /\ conns[c].type \in Receiver \cup {"MON"} => conns[c].valid
    /\ conns[c].valid => conns[c].type # "none" /\ conns[c].tstamp # None
    /\ ~conns[c].valid => conns[c].tstamp = None
    /\ conns[c].valid /\ conns[c].type = "EXT" => conns[c].rx_channel \in Chan
    /\ conns[c].stop_data => conns[c].type \in Receiver
    /\ at[c] \in InSpi \cup {"setup"} => conns[c].type \in Receiver

(* At most one task is inside the SPI commands of rx_enable().             *)
OneInSpi ==
  /\ orderly => \A c \in Conn : at[c] \notin InSpi
  /\ \A c, d \in Conn : at[c] \in InSpi /\ at[d] \in InSpi => c = d

(* The keeper of a channel will free it: it is told to stop, or does not   *)
(* take a connection that is leaving for its partner.                      *)
Keeps(c, ch) ==
  /\ Uses(c, ch) /\ at[c] \notin Leaving
  /\ conns[c].stop_data \/ \A d \in conn_other(c, OtherType(conns[c].type)) :
                              at[d] \notin Leaving

BusyIsKept ==
  \A ch \in Chan : rx_channels[ch].busy => \E c \in Conn : Keeps(c, ch)

(* A stream of a loaded page or a recorder is opened once.                 *)
Spent(cl, type) ==
  <<cl, type>> \in Socket =>
    param[<<cl, type>>] # None \/ socket[<<cl, type>>] = "closed"

(* As long as nothing went wrong: a channel is used by a client's sound,   *)
(* its waterfall, or both, and these are linked to each other; the one     *)
(* that stays behind is told to stop and gets no new partner.              *)
Partnership(c, d) ==
  /\ conns[c].tstamp = conns[d].tstamp /\ conns[c].type # conns[d].type
  /\ conns[c].other = d /\ ~conns[c].stop_data

ReceiverKept(c) ==
  LET r == conns[c]
  IN  /\ r.rx_channel \in Chan /\ rx_channels[r.rx_channel].busy
      /\ Spent(r.tstamp, r.type)
      /\ r.stop_data => Spent(r.tstamp, OtherType(r.type))
      /\ r.type = "SND" => rx_channels[r.rx_channel].conn = c
      /\ \A d \in Conn : Uses(d, r.rx_channel) /\ c # d => Partnership(c, d)

OrderKept ==
  orderly =>
    /\ \A c \in Conn : Receives(c) => ReceiverKept(c)
    /\ \A ch \in Chan : rx_channels[ch].chan_enabled =>
         \E c \in Conn : Uses(c, ch) /\ conns[c].type = "SND"

RxInv == /\ TypeOK /\ SearchValid /\ SlotsKept /\ OneInSpi
         /\ SocketServesOne /\ ExtUserIsExt /\ BusyIsKept /\ OrderKept
---------------------------------------------------------------------------
(* The types of conn_t, rx_chan_t and of the search.                       *)
ConnType == [valid : BOOLEAN, type : Stream \cup {"none", "MON"},
             other : Conn \cup {None}, rx_channel : Chan \cup {-1},
             mc : Socket \cup {None}, tstamp : Client \cup {None},
             kick : BOOLEAN, stop_data : BOOLEAN]

ChanType == [chan_enabled : BOOLEAN, data_enabled : BOOLEAN, busy : BOOLEAN,
             conn : Conn \cup {None}, ext : BOOLEAN]

WebType == [pc : {"idle", "freed", "removed"}, sock : Socket \cup {None}, i : Conn,
            cfree : Conn \cup {None}, cother : Conn \cup {None},
            mon_total : 0..N_CONNS]

(* What a slot, a channel and the search are cleared to.                   *)
LEMMA NewTypes ==
  /\ NewConn \in ConnType /\ NewChan \in ChanType /\ Idle \in WebType
  /\ 1 \in Conn
<1>1. 1 \in Conn /\ 0 \in 0..N_CONNS
  BY RxAssumption DEF Conn
<1>2. NewConn \in ConnType
  BY DEF NewConn, ConnType
<1>3. NewChan \in ChanType
  BY DEF NewChan, ChanType
<1>4. Idle \in WebType
  BY <1>1 DEF Idle, WebType
<1>5. QED BY <1>1, <1>2, <1>3, <1>4

(* Storing a channel that may be none.                                     *)
LEMMA StoreInType ==
  ASSUME rx_channels \in [Chan -> ChanType], NEW ch \in Chan \cup {-1},
         NEW r \in ChanType
  PROVE  /\ StoreIn(ch, r) \in [Chan -> ChanType]
         /\ \A k \in Chan : StoreIn(ch, r)[k] = IF k = ch THEN r ELSE rx_channels[k]
<1>1. -1 \notin Chan
  BY RxAssumption DEF Chan
<1>2. QED BY <1>1 DEF StoreIn

(* A set of slots, or of channels, has a lowest one.                       *)
LEMMA LowestExists ==
  ASSUME NEW S \in SUBSET Nat, S # {}
  PROVE  LowestOf(S) \in S /\ \A y \in S : LowestOf(S) <= y
<1>1. S \subseteq Nat
  OBVIOUS
<1>2. PICK x \in S : \A y \in S : ~ (<<y, x>> \in OpToRel(<, Nat))
  BY <1>1, NatLessThanWellFounded, WFMin
<1>3. \A y \in S : ~ (y < x)
  BY <1>1, <1>2, Zenon DEF OpToRel
<1>4. \A y \in S : x <= y
  BY <1>1, <1>3
<1>5. QED BY <1>4 DEF LowestOf

(* The search for a slot yields one of those it looks for, or none.        *)
LEMMA LowestType ==
  ASSUME NEW S \in SUBSET Conn
  PROVE  /\ LowestOf(S) \in Conn \cup {None}
         /\ LowestOf(S) # None => LowestOf(S) \in S
         /\ LowestOf(S) = None => S = {}
<1>1. None \notin Conn
  BY RxAssumption
<1>2. CASE S = {}
  BY <1>2 DEF LowestOf
<1>3. Conn \subseteq Nat
  BY RxAssumption DEF Conn
<1>4. CASE S # {}
  BY <1>1, <1>3, <1>4, LowestExists
<1>5. QED BY <1>2, <1>4
---------------------------------------------------------------------------
(* What of a connection its own task and the others leave as it is.        *)
Like(r, q) ==
  /\ r.valid = q.valid /\ r.type = q.type /\ r.other = q.other
  /\ r.rx_channel = q.rx_channel /\ r.mc = q.mc /\ r.tstamp = q.tstamp

(* The connections cs, where those of O have been told to stop.            *)
Told(cs, O) ==
  /\ cs \in [Conn -> ConnType]
  /\ \A d \in Conn : /\ Like(cs[d], conns[d])
                     /\ cs[d].stop_data <=> conns[d].stop_data \/ d \in O

(* The same without the connection c.                                      *)
Gone(cs, c, O) ==
  /\ cs \in [Conn -> ConnType]
  /\ cs[c] = NewConn
  /\ \A d \in Conn : d # c => /\ Like(cs[d], conns[d])
                              /\ cs[d].stop_data <=> conns[d].stop_data \/ d \in O

(* rx_server_remove() clears the slot and changes of the others only the   *)
(* kick of the extension it ends.                                          *)
LEMMA RemovedIsGone ==
  ASSUME NEW cs, NEW c \in Conn, NEW O, Told(cs, O)
  PROVE  Gone(rx_server_remove(cs, c), c, O)
<1> DEFINE K == ExtKicked(cs, c)
<1>1. rx_server_remove(cs, c) =
        [d \in Conn |-> IF d = c THEN NewConn
                        ELSE IF d \in K THEN [cs[d] EXCEPT !.kick = TRUE] ELSE cs[d]]
  BY DEF rx_server_remove
<1> HIDE DEF K
<1>2. ASSUME NEW r \in ConnType
      PROVE  /\ [r EXCEPT !.kick = TRUE] \in ConnType
             /\ Like([r EXCEPT !.kick = TRUE], r)
             /\ [r EXCEPT !.kick = TRUE].stop_data = r.stop_data
  BY DEF ConnType, Like
<1>3. rx_server_remove(cs, c) \in [Conn -> ConnType]
  BY <1>1, <1>2, NewTypes DEF Told
<1>4. ASSUME NEW d \in Conn, d # c
      PROVE  /\ Like(rx_server_remove(cs, c)[d], conns[d])
             /\ rx_server_remove(cs, c)[d].stop_data
                  <=> conns[d].stop_data \/ d \in O
  <2>1. cs[d] \in ConnType /\ Like(cs[d], conns[d])
        /\ (cs[d].stop_data <=> conns[d].stop_data \/ d \in O)
    BY DEF Told
  <2>2. /\ Like(rx_server_remove(cs, c)[d], cs[d])
        /\ rx_server_remove(cs, c)[d].stop_data = cs[d].stop_data
    BY <1>1, <1>2, <1>4, <2>1 DEF Like
  <2>3. QED BY <2>1, <2>2 DEF Like
<1>5. rx_server_remove(cs, c)[c] = NewConn
  BY <1>1
<1>6. QED BY <1>3, <1>4, <1>5 DEF Gone

(* Before a step nobody has been told to stop.                             *)
LEMMA NobodyTold == TypeOK => Told(conns, {})
  BY DEF TypeOK, Told, ConnType, Like

(* Telling the others of a channel to stop changes nothing else of them.   *)
LEMMA ToldOf ==
  ASSUME TypeOK, NEW O,
         NEW cs, cs = [d \in Conn |-> IF d \in O THEN [conns[d] EXCEPT !.stop_data = TRUE]
                                      ELSE conns[d]]
  PROVE  Told(cs, O)
<1>1. conns \in [Conn -> ConnType]
  BY DEF TypeOK, ConnType
<1>2. ASSUME NEW d \in Conn
      PROVE  /\ [conns[d] EXCEPT !.stop_data = TRUE] \in ConnType
             /\ Like([conns[d] EXCEPT !.stop_data = TRUE], conns[d])
             /\ [conns[d] EXCEPT !.stop_data = TRUE].stop_data
  BY <1>1 DEF ConnType, Like
<1>3. QED BY <1>1, <1>2 DEF Told, Like
---------------------------------------------------------------------------
(* A connection that a step ends, or leaves as it is.                      *)
Fades(c) ==
  \/ conns'[c] = NewConn /\ at'[c] = "none"
  \/ /\ Like(conns'[c], conns[c])
     /\ conns'[c].stop_data => conns[c].stop_data \/ Receives(c)
     /\ at'[c] = at[c] \/ at'[c] \in {"run", "none"}
                       \/ (at'[c] \in InSpi /\ Receives(c))

(* A step of a task that only ends connections keeps what is known about   *)
(* slots and websockets.                                                   *)
LEMMA FadeSlots ==
  ASSUME SlotsKept, SocketServesOne, ExtUserIsExt, TypeOK,
         \A c \in Conn : Fades(c),
         UNCHANGED <<socket, param>>,
         \A ch \in Chan : ext_users'[ch] # None =>
           /\ \/ ext_users'[ch] = ext_users[ch]
              \/ /\ ext_users'[ch] \in Conn
                 /\ conns[ext_users'[ch]].valid
                 /\ conns[ext_users'[ch]].type = "EXT"
                 /\ conns[ext_users'[ch]].rx_channel = ch
           /\ Like(conns'[ext_users'[ch]], conns[ext_users'[ch]])
  PROVE  SlotsKept' /\ SocketServesOne' /\ ExtUserIsExt'
<1>1. NewConn.valid = FALSE /\ NewConn.type = "none" /\ NewConn.tstamp = None
      /\ NewConn.stop_data = FALSE /\ NewConn.mc = None
  BY DEF NewConn
<1>2. SlotsKept'
  BY <1>1 DEF SlotsKept, Fades, Like, InSpi, Receiver, Receives
<1>3. SocketServesOne'
  BY <1>1 DEF SocketServesOne, Fades, Like
<1>4. ExtUserIsExt'
  BY <1>1 DEF ExtUserIsExt, Like
<1>5. QED BY <1>2, <1>3, <1>4

(* The same of a task other than the web server's, and its search.         *)
LEMMA FadeStep ==
  ASSUME SearchValid, SlotsKept, SocketServesOne, ExtUserIsExt, TypeOK,
         \A c \in Conn : Fades(c),
         UNCHANGED <<socket, param, web>>, orderly' => orderly,
         \A ch \in Chan : rx_channels'[ch].busy => rx_channels[ch].busy,
         \A ch \in Chan : ext_users'[ch] # None =>
           /\ \/ ext_users'[ch] = ext_users[ch]
              \/ /\ ext_users'[ch] \in Conn
                 /\ conns[ext_users'[ch]].valid
                 /\ conns[ext_users'[ch]].type = "EXT"
                 /\ conns[ext_users'[ch]].rx_channel = ch
           /\ Like(conns'[ext_users'[ch]], conns[ext_users'[ch]])
  PROVE  SearchValid' /\ SlotsKept' /\ SocketServesOne' /\ ExtUserIsExt'
<1>1. NewConn.valid = FALSE /\ NewConn.type = "none" /\ NewConn.tstamp = None
      /\ NewConn.stop_data = FALSE /\ NewConn.mc = None
  BY DEF NewConn
<1>2. SearchValid'
  <2>1. CASE web.pc = "idle"
    BY <2>1 DEF SearchValid
  <2>2. CASE web.pc # "idle"
    <3>1. web.i \in Conn /\ web.cfree \in Conn \cup {None}
      BY DEF TypeOK
    <3>2. /\ ~orderly' /\ web.sock \in Socket /\ socket[web.sock] = "open"
          /\ param[web.sock] = None /\ web.mon_total < web.i
      BY <2>2 DEF SearchValid
    <3>3. web.cfree # None => ~conns'[web.cfree].valid
      BY <1>1, <2>2, <3>1 DEF SearchValid, Fades, Like
    <3>4. ASSUME web.pc = "freed", conns'[web.i].valid
          PROVE  /\ conns'[web.i].type \in Receiver
                 /\ conns'[web.i].rx_channel # -1 =>
                      ~rx_channels'[conns'[web.i].rx_channel].busy
      <4>1. Like(conns'[web.i], conns[web.i])
        BY <1>1, <3>1, <3>4 DEF Fades
      <4>2. conns[web.i].rx_channel \in Chan \cup {-1}
        BY <3>1 DEF TypeOK
      <4>3. QED BY <3>4, <4>1, <4>2 DEF SearchValid, Like
    <3>5. QED BY <3>2, <3>3, <3>4 DEF SearchValid
  <2>3. QED BY <2>1, <2>2
<1>3. SlotsKept' /\ SocketServesOne' /\ ExtUserIsExt'
  BY FadeSlots
<1>4. QED BY <1>2, <1>3
---------------------------------------------------------------------------
(* A slot that is, or is not, that of a receiver's stream, and remains so. *)
SameReceiver(c) ==
  /\ Receives(c)' <=> Receives(c)
  /\ Receives(c) => /\ conns'[c].type = conns[c].type
                    /\ conns'[c].other = conns[c].other
                    /\ conns'[c].rx_channel = conns[c].rx_channel
                    /\ conns'[c].tstamp = conns[c].tstamp
                    /\ conns'[c].stop_data <=> conns[c].stop_data

(* A slot that looks the same is the same receiver.                        *)
LEMMA LikeIsSame ==
  ASSUME NEW c \in Conn, Like(conns'[c], conns[c]),
         conns'[c].stop_data <=> conns[c].stop_data
  PROVE  SameReceiver(c)
  BY DEF Like, SameReceiver, Receives

(* A stream uses the channel it is on.                                     *)
LEMMA UsesReceives ==
  ASSUME NEW c \in Conn, NEW ch
  PROVE  Uses(c, ch) <=> Receives(c) /\ conns[c].rx_channel = ch
  BY DEF Uses, Receives, Receiver

(* What a keeper's link leads to is the stream of a receiver.              *)
LEMMA LinkReceives ==
  ASSUME SlotsKept, TypeOK, NEW c \in Conn, NEW d,
         d \in conn_other(c, OtherType(conns[c].type))
  PROVE  /\ d \in Conn /\ Receives(d) /\ conns[c].other = d
         /\ conns[d].type = OtherType(conns[c].type)
         /\ conns[d].rx_channel = conns[c].rx_channel
<1>1. conns[c].other \in Conn \cup {None}
  BY DEF TypeOK
<1>2. d = conns[c].other /\ d \in Conn
      /\ conns[d].type = OtherType(conns[c].type)
      /\ conns[d].rx_channel = conns[c].rx_channel
  BY <1>1 DEF conn_other
<1>3. conns[d].type \in Receiver
  BY <1>2 DEF OtherType, Receiver
<1>4. QED BY <1>2, <1>3 DEF SlotsKept, Receives

(* A channel keeps its keeper where no stream changes or begins to leave.  *)
LEMMA SameKeeps ==
  ASSUME SlotsKept, TypeOK, SlotsKept', TypeOK',
         \A c \in Conn : SameReceiver(c) /\ (at'[c] \in Leaving => at[c] \in Leaving),
         NEW c \in Conn, NEW ch, Keeps(c, ch)
  PROVE  Keeps(c, ch)'
<1>1. Receives(c) /\ conns[c].rx_channel = ch
  BY UsesReceives DEF Keeps
<1>2. Receives(c)' /\ conns'[c].rx_channel = ch /\ conns'[c].type = conns[c].type
      /\ conns'[c].other = conns[c].other
      /\ (conns'[c].stop_data <=> conns[c].stop_data)
  BY <1>1 DEF SameReceiver
<1>3. Uses(c, ch)' /\ at'[c] \notin Leaving
  BY <1>2 DEF Uses, Receives, Receiver, Keeps
<1>4. CASE conns[c].stop_data
  BY <1>2, <1>3, <1>4 DEF Keeps
<1>5. CASE ~conns[c].stop_data
  <2>1. \A d \in conn_other(c, OtherType(conns[c].type)) : at[d] \notin Leaving
    BY <1>5 DEF Keeps
  <2>2. ASSUME NEW d \in conn_other(c, OtherType(conns[c].type))'
        PROVE  at'[d] \notin Leaving
    <3> DEFINE o == conns'[c].other
    <3>0. o \in Conn \cup {None}
      BY DEF TypeOK
    <3>1. /\ d \in Conn /\ d = conns'[c].other
          /\ conns'[d].type = OtherType(conns'[c].type)
          /\ conns'[d].rx_channel = conns'[c].rx_channel
      BY <2>2, <3>0 DEF conn_other, OtherType
    <3>2. Receives(d)'
      BY <3>1 DEF SlotsKept, Receives, OtherType, Receiver
    <3>3. Receives(d) /\ conns[d].type = conns'[d].type
          /\ conns[d].rx_channel = conns'[d].rx_channel
      BY <3>1, <3>2 DEF SameReceiver
    <3>4. d # None
      BY <3>1, RxAssumption
    <3>5. d \in conn_other(c, OtherType(conns[c].type))
      BY <1>1, <1>2, <3>1, <3>3, <3>4 DEF conn_other
    <3>6. QED BY <2>1, <3>1, <3>5
  <2>3. QED BY <1>3, <2>2 DEF Keeps
<1>6. QED BY <1>4, <1>5

(* A step in which no receiver's stream comes or goes and no channel is    *)
(* taken.                                                                  *)
LEMMA StillStep ==
  ASSUME RxInv, TypeOK', SlotsKept',
         \A c \in Conn : SameReceiver(c) /\ (at'[c] \in Leaving => at[c] \in Leaving),
         \A ch \in Chan : rx_channels'[ch].busy => rx_channels[ch].busy,
         orderly' => /\ orderly
                     /\ \A ch \in Chan :
                          /\ rx_channels'[ch].busy <=> rx_channels[ch].busy
                          /\ rx_channels'[ch].conn = rx_channels[ch].conn
                          /\ rx_channels'[ch].chan_enabled =>
                               \/ rx_channels[ch].chan_enabled
                               \/ \E c \in Conn : Uses(c, ch) /\ conns[c].type = "SND"
                     /\ \A c \in Conn : Receives(c) => \A type \in Receiver :
                          Spent(conns[c].tstamp, type) => Spent(conns[c].tstamp, type)'
  PROVE  BusyIsKept' /\ OrderKept'
<1>1. BusyIsKept'
  <2> SUFFICES ASSUME NEW ch \in Chan, rx_channels'[ch].busy
               PROVE  \E c \in Conn : Keeps(c, ch)'
    BY DEF BusyIsKept
  <2>1. PICK c \in Conn : Keeps(c, ch)
    BY DEF RxInv, BusyIsKept
  <2>2. Keeps(c, ch)'
    BY <2>1, SameKeeps DEF RxInv
  <2>3. QED BY <2>2
<1>2. OrderKept'
  <2> SUFFICES ASSUME orderly' PROVE
        /\ \A c \in Conn : Receives(c)' => ReceiverKept(c)'
        /\ \A ch \in Chan : rx_channels'[ch].chan_enabled =>
             \E c \in Conn : Uses(c, ch)' /\ conns'[c].type = "SND"
    BY DEF OrderKept
  <2>1. \A c \in Conn : Receives(c) => ReceiverKept(c)
    BY DEF RxInv, OrderKept
  <2>2. ASSUME NEW c \in Conn, NEW ch
        PROVE  Uses(c, ch)' <=> Uses(c, ch)
    BY DEF SameReceiver, Uses, Receives, Receiver
  <2>3. ASSUME NEW c \in Conn, Receives(c)' PROVE ReceiverKept(c)'
    <3>1. Receives(c) /\ ReceiverKept(c)
      BY <2>1, <2>3 DEF SameReceiver
    <3>2. /\ conns'[c].type = conns[c].type
          /\ conns'[c].other = conns[c].other
          /\ conns'[c].rx_channel = conns[c].rx_channel
          /\ conns'[c].tstamp = conns[c].tstamp
          /\ conns'[c].stop_data <=> conns[c].stop_data
      BY <3>1 DEF SameReceiver
    <3>3. conns[c].type \in Receiver /\ OtherType(conns[c].type) \in Receiver
      BY <3>1 DEF Receives, OtherType, Receiver
    <3>4. /\ conns'[c].rx_channel \in Chan
          /\ rx_channels'[conns'[c].rx_channel].busy
          /\ conns'[c].type = "SND" => rx_channels'[conns'[c].rx_channel].conn = c
      BY <3>1, <3>2 DEF ReceiverKept
    <3>5. /\ Spent(conns[c].tstamp, conns[c].type)'
          /\ conns'[c].stop_data => Spent(conns[c].tstamp, OtherType(conns[c].type))'
      BY <3>1, <3>2, <3>3 DEF ReceiverKept, Spent
    <3>6. ASSUME NEW d \in Conn, Uses(d, conns[c].rx_channel)', c # d
          PROVE  Partnership(c, d)'
      <4>1. Uses(d, conns[c].rx_channel) /\ Receives(d)
        BY <3>2, <3>6 DEF Uses, Receives, Receiver, SameReceiver
      <4>2. Partnership(c, d)
        BY <3>1, <3>6, <4>1 DEF ReceiverKept
      <4>3. QED BY <3>2, <4>1, <4>2 DEF Partnership, SameReceiver
    <3>7. Spent(conns[c].tstamp, conns[c].type)'
          /\ (conns'[c].stop_data => Spent(conns[c].tstamp, OtherType(conns[c].type))')
      BY <3>5
    <3>8. QED BY <3>4, <3>6, <3>7 DEF ReceiverKept, OtherType
  <2>4. ASSUME NEW ch \in Chan, rx_channels'[ch].chan_enabled
        PROVE  \E c \in Conn : Uses(c, ch)' /\ conns'[c].type = "SND"
    <3>1. PICK c \in Conn : Uses(c, ch) /\ conns[c].type = "SND"
      BY <2>4 DEF RxInv, OrderKept
    <3>2. Receives(c)
      BY <3>1, UsesReceives
    <3>3. QED BY <2>2, <3>1, <3>2 DEF SameReceiver
  <2>5. QED BY <2>3, <2>4
<1>3. QED BY <1>1, <1>2
---------------------------------------------------------------------------
(* When the connection c ends, or is about to, the keepers of channels     *)
(* remain, except c itself.                                                *)
LEMMA OthersKeep ==
  ASSUME SlotsKept, TypeOK, SlotsKept', TypeOK', NEW c \in Conn, NEW ch,
         \A d \in Conn \ {c} : /\ Like(conns'[d], conns[d])
                               /\ conns[d].stop_data => conns'[d].stop_data
                               /\ at'[d] = at[d],
         \/ conns'[c].type \notin Receiver
         \/ conns'[c].rx_channel # ch,
         NEW k \in Conn \ {c}, Keeps(k, ch)
  PROVE  Keeps(k, ch)'
<1>1. Receives(k) /\ conns[k].rx_channel = ch
  BY UsesReceives DEF Keeps
<1>2. /\ conns'[k].valid /\ conns'[k].type = conns[k].type
      /\ conns'[k].type \in Receiver
      /\ conns'[k].rx_channel = ch /\ conns'[k].other = conns[k].other
      /\ conns[k].stop_data => conns'[k].stop_data
  BY <1>1 DEF Like, Receives
<1>3. Uses(k, ch)' /\ at'[k] \notin Leaving
  BY <1>2 DEF Uses, Receiver, Keeps
<1>4. CASE conns[k].stop_data
  BY <1>2, <1>3, <1>4 DEF Keeps
<1>5. CASE ~conns[k].stop_data
  <2>1. \A d \in conn_other(k, OtherType(conns[k].type)) : at[d] \notin Leaving
    BY <1>5 DEF Keeps
  <2>2. ASSUME NEW d \in conn_other(k, OtherType(conns[k].type))'
        PROVE  at'[d] \notin Leaving
    <3> DEFINE o == conns'[k].other
    <3>0. o \in Conn \cup {None}
      BY DEF TypeOK
    <3>1. /\ d \in Conn /\ d = conns'[k].other
          /\ conns'[d].type = OtherType(conns'[k].type)
          /\ conns'[d].rx_channel = conns'[k].rx_channel
      BY <2>2, <3>0 DEF conn_other, OtherType
    <3>2. d # c
      BY <1>2, <3>1 DEF OtherType, Receiver
    <3>3. conns[d].type = conns'[d].type /\ conns[d].rx_channel = conns'[d].rx_channel
      BY <3>1, <3>2 DEF Like
    <3>4. d # None
      BY <3>1, RxAssumption
    <3>5. d \in conn_other(k, OtherType(conns[k].type))
      BY <1>1, <1>2, <3>1, <3>3, <3>4 DEF conn_other
    <3>6. QED BY <2>1, <3>1, <3>2, <3>5
  <2>3. QED BY <1>3, <2>2 DEF Keeps
<1>6. QED BY <1>4, <1>5

(* A stream that is told to stop, or finds no partner, has its channel for *)
(* itself.                                                                 *)
LEMMA AloneInOrder ==
  ASSUME OrderKept, orderly, NEW c \in Conn, Receives(c),
         conns[c].stop_data \/ conn_other(c, OtherType(conns[c].type)) = {}
  PROVE  \A d \in Conn : Uses(d, conns[c].rx_channel) => d = c
<1>1. SUFFICES ASSUME NEW d \in Conn, Uses(d, conns[c].rx_channel), d # c
               PROVE  FALSE
  OBVIOUS
<1>2. Partnership(c, d)
  BY <1>1 DEF OrderKept, ReceiverKept
<1>3. /\ conns[c].other = d /\ conns[d].type = OtherType(conns[c].type)
      /\ conns[d].rx_channel = conns[c].rx_channel /\ ~conns[c].stop_data
  BY <1>1, <1>2 DEF Partnership, OtherType, Uses, Receives, Receiver
<1>4. d \in conn_other(c, OtherType(conns[c].type))
  BY <1>3, RxAssumption DEF conn_other
<1>5. QED BY <1>3, <1>4

(* The fields of the connections that remain.                              *)
LEMMA GoneFacts ==
  ASSUME NEW c \in Conn, NEW O, Gone(conns', c, O)
  PROVE  /\ conns'[c].valid = FALSE /\ conns'[c].type = "none"
         /\ \A d \in Conn \ {c} :
              /\ Like(conns'[d], conns[d])
              /\ conns'[d].stop_data <=> conns[d].stop_data \/ d \in O
  BY DEF Gone, NewConn

(* A stream frees its channel and ends, or waits to end.                   *)
LEMMA AloneEnds ==
  ASSUME RxInv, TypeOK', SlotsKept', NEW c \in Conn, Receives(c),
         conns[c].rx_channel \in Chan,
         conns[c].stop_data \/ conn_other(c, OtherType(conns[c].type)) = {},
         rx_channels' = [rx_channels EXCEPT ![conns[c].rx_channel] = NewChan],
         UNCHANGED <<socket, param>>,
         \A d \in Conn \ {c} : at'[d] = at[d],
         Gone(conns', c, {}) \/ (Told(conns', {}) /\ ~orderly'),
         orderly' => orderly
  PROVE  BusyIsKept' /\ OrderKept'
<1> DEFINE ch == conns[c].rx_channel
<1>1. /\ \A k \in Chan : rx_channels'[k] = IF k = ch THEN NewChan ELSE rx_channels[k]
      /\ NewChan.busy = FALSE /\ NewChan.chan_enabled = FALSE
  BY DEF RxInv, TypeOK, NewChan
<1>2. \A d \in Conn \ {c} : /\ Like(conns'[d], conns[d])
                            /\ conns'[d].stop_data <=> conns[d].stop_data
  BY GoneFacts DEF Told
<1>3. conns'[c].type \notin Receiver \/ conns'[c].rx_channel = ch
  BY GoneFacts DEF Told, Like, Receiver
<1>4. BusyIsKept'
  <2> SUFFICES ASSUME NEW k \in Chan, rx_channels'[k].busy
               PROVE  \E d \in Conn : Keeps(d, k)'
    BY DEF BusyIsKept
  <2>1. k # ch /\ rx_channels[k].busy
    BY <1>1
  <2>2. PICK d \in Conn : Keeps(d, k)
    BY <2>1 DEF RxInv, BusyIsKept
  <2>3. d # c
    BY <2>1, <2>2 DEF Keeps, Uses
  <2>4. Keeps(d, k)'
    BY <1>2, <1>3, <2>1, <2>2, <2>3, OthersKeep DEF RxInv
  <2>5. QED BY <2>4
<1>5. OrderKept'
  <2> SUFFICES ASSUME orderly' PROVE
        /\ \A d \in Conn : Receives(d)' => ReceiverKept(d)'
        /\ \A k \in Chan : rx_channels'[k].chan_enabled =>
             \E d \in Conn : Uses(d, k)' /\ conns'[d].type = "SND"
    BY DEF OrderKept
  <2>1. Gone(conns', c, {}) /\ orderly
    OBVIOUS
  <2>2. conns'[c].valid = FALSE
    BY <2>1, GoneFacts
  <2>3. \A d \in Conn : Uses(d, ch) => d = c
    BY <2>1, AloneInOrder DEF RxInv
  <2>4. ASSUME NEW d \in Conn, Receives(d)' PROVE ReceiverKept(d)'
    <3>1. d # c /\ Like(conns'[d], conns[d])
          /\ (conns'[d].stop_data <=> conns[d].stop_data)
      BY <1>2, <2>2, <2>4 DEF Receives
    <3>2. Receives(d) /\ ReceiverKept(d)
      BY <2>1, <2>4, <3>1 DEF Receives, Like, RxInv, OrderKept
    <3>3. conns[d].rx_channel # ch
      BY <2>3, <3>1, <3>2, UsesReceives
    <3>4. /\ conns'[d].rx_channel \in Chan
          /\ rx_channels'[conns'[d].rx_channel].busy
          /\ conns'[d].type = "SND" => rx_channels'[conns'[d].rx_channel].conn = d
      BY <1>1, <3>1, <3>2, <3>3 DEF ReceiverKept, Like
    <3>5. /\ Spent(conns[d].tstamp, conns[d].type)'
          /\ conns'[d].stop_data => Spent(conns[d].tstamp, OtherType(conns[d].type))'
      BY <3>1, <3>2 DEF ReceiverKept, Spent, Like
    <3>6. ASSUME NEW e \in Conn, Uses(e, conns[d].rx_channel)', d # e
          PROVE  Partnership(d, e)'
      <4>1. e # c
        BY <2>2, <3>6 DEF Uses
      <4>2. Like(conns'[e], conns[e]) /\ Uses(e, conns[d].rx_channel)
        BY <1>2, <3>1, <3>6, <4>1 DEF Uses, Like
      <4>3. Partnership(d, e)
        BY <3>2, <3>6, <4>2 DEF ReceiverKept
      <4>4. QED BY <3>1, <4>2, <4>3 DEF Partnership, Like
    <3>7. QED BY <3>4, <3>5, <3>6 DEF ReceiverKept, OtherType
  <2>5. ASSUME NEW k \in Chan, rx_channels'[k].chan_enabled
        PROVE  \E d \in Conn : Uses(d, k)' /\ conns'[d].type = "SND"
    <3>1. k # ch /\ rx_channels[k].chan_enabled
      BY <1>1, <2>5
    <3>2. PICK d \in Conn : Uses(d, k) /\ conns[d].type = "SND"
      BY <2>1, <3>1 DEF RxInv, OrderKept
    <3>3. d # c
      BY <3>1, <3>2 DEF Uses
    <3>4. QED BY <1>2, <3>2, <3>3 DEF Uses, Like
  <2>6. QED BY <2>4, <2>5
<1>6. QED BY <1>4, <1>5

(* A stream ends, or waits to end, and leaves its channel to its partner,  *)
(* which it tells to stop.                                                 *)
LEMMA PartnerStays ==
  ASSUME RxInv, TypeOK', SlotsKept', NEW c \in Conn, Receives(c),
         conns[c].rx_channel \in Chan, ~conns[c].stop_data,
         NEW O, O = conn_other(c, OtherType(conns[c].type)), O # {},
         \A k \in Chan :
           /\ rx_channels'[k].busy <=> rx_channels[k].busy
           /\ rx_channels'[k].conn = rx_channels[k].conn
           /\ rx_channels'[k].chan_enabled =>
                /\ rx_channels[k].chan_enabled
                /\ k = conns[c].rx_channel => conns[c].type # "SND",
         UNCHANGED <<socket, param>>,
         \A d \in Conn \ {c} : at'[d] = at[d],
         Gone(conns', c, O) \/ (Told(conns', O) /\ orderly /\ ~orderly'),
         orderly' => orderly
  PROVE  BusyIsKept' /\ OrderKept'
<1>0. PICK ch \in Chan : ch = conns[c].rx_channel
  OBVIOUS
<1>1. PICK o \in O : TRUE
  OBVIOUS
<1>2. /\ o \in Conn /\ Receives(o) /\ conns[c].other = o /\ O = {o}
      /\ conns[o].type = OtherType(conns[c].type) /\ conns[o].rx_channel = ch
      /\ o # c
  <2>1. /\ o \in Conn /\ Receives(o) /\ conns[c].other = o
        /\ conns[o].type = OtherType(conns[c].type) /\ conns[o].rx_channel = ch
    BY <1>0, <1>1, LinkReceives DEF RxInv
  <2>2. O = {o}
    BY <1>1, <2>1 DEF conn_other
  <2>3. QED BY <2>1, <2>2 DEF OtherType, Receives, Receiver
<1>3. \A d \in Conn \ {c} : /\ Like(conns'[d], conns[d])
                            /\ conns'[d].stop_data <=> conns[d].stop_data \/ d = o
  <2>1. \A d : d \in O <=> d = o
    BY <1>2
  <2>2. CASE Gone(conns', c, O)
    BY <2>1, <2>2, GoneFacts
  <2>3. CASE Told(conns', O)
    BY <2>1, <2>3 DEF Told
  <2>4. QED BY <2>2, <2>3
<1>4. conns'[o].stop_data /\ Uses(o, ch)'
  BY <1>2, <1>3 DEF Like, Uses, Receives, Receiver
<1>5. BusyIsKept'
  <2> SUFFICES ASSUME NEW k \in Chan, rx_channels'[k].busy
               PROVE  \E d \in Conn : Keeps(d, k)'
    BY DEF BusyIsKept
  <2>1. rx_channels[k].busy
    OBVIOUS
  <2>2. PICK d \in Conn : Keeps(d, k)
    BY <2>1 DEF RxInv, BusyIsKept
  <2>3. ASSUME at[o] \notin Leaving PROVE Keeps(o, ch)'
    BY <1>2, <1>4, <2>3 DEF Keeps
  <2>4. CASE d = c
    <3>1. k = ch
      BY <1>0, <2>2, <2>4 DEF Keeps, Uses
    <3>2. at[o] \notin Leaving
      BY <1>1, <2>2, <2>4 DEF Keeps
    <3>3. QED BY <1>2, <2>3, <3>1, <3>2
  <2>5. CASE k = ch /\ orderly
    <3>1. at[o] \notin Leaving
      BY <1>2, <2>5 DEF RxInv, OneInSpi, InSpi, Leaving
    <3>2. QED BY <1>2, <2>3, <2>5, <3>1
  <2>6. CASE d # c /\ (k # ch \/ ~orderly)
    <3>1. conns'[c].type \notin Receiver \/ conns'[c].rx_channel # k
      BY <1>0, <2>6, GoneFacts DEF Told, Like, Receiver
    <3>2. Keeps(d, k)'
      BY <1>3, <2>2, <2>6, <3>1, OthersKeep DEF RxInv
    <3>3. QED BY <3>2
  <2>7. QED BY <2>4, <2>5, <2>6
<1>6. OrderKept'
  <2> SUFFICES ASSUME orderly' PROVE
        /\ \A d \in Conn : Receives(d)' => ReceiverKept(d)'
        /\ \A k \in Chan : rx_channels'[k].chan_enabled =>
             \E d \in Conn : Uses(d, k)' /\ conns'[d].type = "SND"
    BY DEF OrderKept
  <2>1. Gone(conns', c, O) /\ orderly
    OBVIOUS
  <2>2. conns'[c].valid = FALSE
    BY <2>1, GoneFacts
  <2>3. ReceiverKept(c) /\ ReceiverKept(o)
    BY <1>2, <2>1 DEF RxInv, OrderKept
  <2>4. Partnership(c, o)
    BY <1>0, <1>2, <2>3, UsesReceives DEF ReceiverKept
  <2>5. ASSUME NEW d \in Conn, Uses(d, ch), d # c PROVE d = o
    <3>1. Partnership(c, d)
      BY <1>0, <2>3, <2>5 DEF ReceiverKept
    <3>2. QED BY <1>2, <3>1 DEF Partnership
  <2>6. ASSUME NEW d \in Conn, Receives(d)' PROVE ReceiverKept(d)'
    <3>1. d # c /\ Like(conns'[d], conns[d])
          /\ (conns'[d].stop_data <=> conns[d].stop_data \/ d = o)
      BY <1>3, <2>2, <2>6 DEF Receives
    <3>2. Receives(d) /\ ReceiverKept(d)
      BY <2>1, <2>6, <3>1 DEF Receives, Like, RxInv, OrderKept
    <3>3. /\ conns'[d].rx_channel \in Chan
          /\ rx_channels'[conns'[d].rx_channel].busy
          /\ conns'[d].type = "SND" => rx_channels'[conns'[d].rx_channel].conn = d
      BY <3>1, <3>2 DEF ReceiverKept, Like
    <3>4. Spent(conns[d].tstamp, conns[d].type)'
      BY <3>1, <3>2 DEF ReceiverKept, Spent, Like
    <3>5. conns'[d].stop_data => Spent(conns[d].tstamp, OtherType(conns[d].type))'
      <4>1. CASE d = o
        <5>1. OtherType(conns[o].type) = conns[c].type
              /\ conns[o].tstamp = conns[c].tstamp
          BY <1>2, <2>4 DEF OtherType, Partnership, Receives, Receiver
        <5>2. Spent(conns[o].tstamp, OtherType(conns[o].type))
          BY <2>3, <5>1 DEF ReceiverKept
        <5>3. QED BY <3>1, <4>1, <5>2 DEF Spent, Like
      <4>2. CASE d # o
        BY <3>1, <3>2, <4>2 DEF ReceiverKept, Spent, Like
      <4>3. QED BY <4>1, <4>2
    <3>6. ASSUME NEW e \in Conn, Uses(e, conns[d].rx_channel)', d # e
          PROVE  Partnership(d, e)'
      <4>1. e # c
        BY <2>2, <3>6 DEF Uses
      <4>2. Like(conns'[e], conns[e]) /\ Uses(e, conns[d].rx_channel)
        BY <1>3, <3>1, <3>6, <4>1 DEF Uses, Like
      <4>3. Partnership(d, e)
        BY <3>2, <3>6, <4>2 DEF ReceiverKept
      <4>4. d # o
        BY <1>2, <2>5, <3>6, <4>1, <4>2
      <4>5. QED BY <3>1, <4>2, <4>3, <4>4 DEF Partnership, Like
    <3>7. QED BY <3>3, <3>4, <3>5, <3>6 DEF ReceiverKept, OtherType
  <2>7. ASSUME NEW k \in Chan, rx_channels'[k].chan_enabled
        PROVE  \E d \in Conn : Uses(d, k)' /\ conns'[d].type = "SND"
    <3>1. rx_channels[k].chan_enabled /\ (k = ch => conns[c].type # "SND")
      BY <1>0, <2>7
    <3>2. PICK d \in Conn : Uses(d, k) /\ conns[d].type = "SND"
      BY <2>1, <3>1 DEF RxInv, OrderKept
    <3>3. d # c
      BY <1>0, <3>1, <3>2 DEF Uses
    <3>4. QED BY <1>3, <3>2, <3>3 DEF Uses, Like
  <2>8. QED BY <2>6, <2>7
<1>7. QED BY <1>5, <1>6
---------------------------------------------------------------------------
(* The end of a receiver's stream, which gives back its slot or waits for  *)
(* the SPI commands to do so.                                              *)
LEMMA EndWithFacts ==
  ASSUME RxInv, NEW c \in Conn, Receives(c), conns[c].rx_channel \in Chan,
         NEW O, \A d \in O : Receives(d), NEW cs, Told(cs, O),
         NEW rx \in [Chan -> ChanType],
         \A k \in Chan : rx[k].busy => rx_channels[k].busy,
         NEW pc \in Leaving, EndWith(c, cs, rx, pc)
  PROVE  /\ TypeOK' /\ SearchValid' /\ SlotsKept' /\ OneInSpi'
         /\ SocketServesOne' /\ ExtUserIsExt'
         /\ rx_channels' = rx /\ UNCHANGED <<socket, param>>
         /\ \A d \in Conn \ {c} : at'[d] = at[d]
         /\ Gone(conns', c, O) \/ (Told(conns', O) /\ orderly /\ ~orderly')
         /\ orderly' => orderly
<1>1. /\ conns \in [Conn -> ConnType]
      /\ at \in [Conn -> {"none", "setup", "run"} \cup InSpi]
      /\ orderly \in BOOLEAN
  BY DEF RxInv, TypeOK, ConnType
<1>2. /\ rx_channels' = rx /\ itask_run' = SndUsers(rx)
      /\ UNCHANGED <<ext_users, socket, param, web, fatal>>
      /\ \/ orderly' = orderly /\ conns' = rx_server_remove(cs, c)
            /\ at' = [at EXCEPT ![c] = "none"]
         \/ orderly /\ orderly' = FALSE /\ conns' = cs /\ at' = [at EXCEPT ![c] = pc]
  BY DEF EndWith, rx_enable, PumpDone, PumpSwitch, MayHappen
<1>3. Gone(conns', c, O) \/ (Told(conns', O) /\ orderly /\ ~orderly')
  BY <1>2, RemovedIsGone
<1>4. pc \in InSpi /\ {"none", pc} \subseteq {"none", "setup", "run"} \cup InSpi
  BY DEF Leaving, InSpi
<1>5. /\ \A d \in Conn \ {c} : at'[d] = at[d]
      /\ at'[c] \in {"none", pc}
      /\ at' \in [Conn -> {"none", "setup", "run"} \cup InSpi]
  BY <1>1, <1>2, <1>4
<1>6. orderly' => orderly
  BY <1>2
<1>7. TypeOK'
  <2>1. conns' \in [Conn -> ConnType]
    BY <1>3 DEF Gone, Told
  <2>2. itask_run' \in BOOLEAN /\ orderly' \in BOOLEAN
    <3>1. SndUsers(rx) \in BOOLEAN
      BY DEF SndUsers
    <3>2. QED BY <1>1, <1>2, <3>1
  <2>3. QED BY <1>2, <1>5, <2>1, <2>2 DEF RxInv, TypeOK, ConnType, ChanType
<1>8. OneInSpi'
  <2>1. CASE orderly' = orderly /\ at' = [at EXCEPT ![c] = "none"]
    <3>1. "none" \notin InSpi
      BY DEF InSpi
    <3>2. \A d \in Conn : at'[d] \in InSpi => at[d] \in InSpi
      BY <1>1, <2>1, <3>1
    <3>3. QED BY <2>1, <3>2 DEF RxInv, OneInSpi
  <2>2. CASE orderly /\ orderly' = FALSE
    <3>1. \A d \in Conn : at'[d] \in InSpi => d = c
      BY <1>5, <2>2 DEF RxInv, OneInSpi
    <3>2. QED BY <2>2, <3>1 DEF OneInSpi
  <2>3. QED BY <1>2, <2>1, <2>2
<1>9. \A d \in Conn : d = c \/ Like(conns'[d], conns[d])
  BY <1>3, GoneFacts DEF Told
<1>10. \A d \in Conn : Fades(d)
  <2>1. ASSUME NEW d \in Conn, d # c PROVE Fades(d)
    <3>1. conns'[d].stop_data => conns[d].stop_data \/ d \in O
      BY <1>3, <2>1, GoneFacts DEF Told
    <3>2. QED BY <1>5, <1>9, <2>1, <3>1 DEF Fades
  <2>2. Fades(c)
    <3>1. CASE conns' = rx_server_remove(cs, c) /\ at' = [at EXCEPT ![c] = "none"]
      <4>1. conns'[c] = NewConn
        BY <3>1, RemovedIsGone DEF Gone
      <4>2. QED BY <1>1, <3>1, <4>1 DEF Fades
    <3>2. CASE conns' = cs /\ at' = [at EXCEPT ![c] = pc]
      <4>1. Like(conns'[c], conns[c])
        BY <3>2 DEF Told
      <4>2. at'[c] \in InSpi
        BY <1>1, <1>4, <3>2
      <4>3. QED BY <4>1, <4>2 DEF Fades
    <3>3. QED BY <1>2, <3>1, <3>2
  <2>3. QED BY <2>1, <2>2
<1>11. ASSUME NEW k \in Chan, ext_users'[k] # None
       PROVE  /\ ext_users'[k] = ext_users[k]
              /\ Like(conns'[ext_users'[k]], conns[ext_users'[k]])
  <2>1. ext_users' = ext_users
    BY <1>2
  <2>2. ext_users[k] \in Conn /\ conns[ext_users[k]].type = "EXT"
    BY <1>11, <2>1 DEF RxInv, TypeOK, ExtUserIsExt
  <2>3. ext_users[k] # c
    BY <2>2 DEF Receives, Receiver
  <2>4. QED BY <1>9, <2>1, <2>2, <2>3
<1>12. SearchValid' /\ SlotsKept' /\ SocketServesOne' /\ ExtUserIsExt'
  <2>1. UNCHANGED <<socket, param, web>>
    BY <1>2
  <2>2. \A ch \in Chan : rx_channels'[ch].busy => rx_channels[ch].busy
    BY <1>2
  <2>3. QED BY <1>6, <1>10, <1>11, <2>1, <2>2, FadeStep DEF RxInv
<1>13. QED BY <1>2, <1>3, <1>5, <1>6, <1>7, <1>8, <1>12

(* A stream that runs has a channel.                                       *)
LEMMA StreamRuns ==
  ASSUME NEW c \in Conn, NEW type \in Stream, Running(c, type)
  PROVE  /\ conns[c].valid /\ conns[c].type = type
         /\ conns[c].rx_channel \in Chan
  BY DEF Running, Stream

(* Storing a channel, where there is one.                                  *)
LEMMA StoreInChan ==
  ASSUME TypeOK, NEW ch \in Chan, NEW r \in ChanType
  PROVE  /\ StoreIn(ch, r) = [rx_channels EXCEPT ![ch] = r]
         /\ StoreIn(ch, r) \in [Chan -> ChanType]
         /\ \A k \in Chan : StoreIn(ch, r)[k] = IF k = ch THEN r ELSE rx_channels[k]
<1>1. rx_channels \in [Chan -> ChanType]
  BY DEF TypeOK, ChanType
<1>2. -1 \notin Chan
  BY RxAssumption DEF Chan
<1>3. QED BY <1>1, <1>2, StoreInType DEF StoreIn

(* A stream that frees its channel and ends.                               *)
LEMMA FreeAndEnd ==
  ASSUME RxInv, NEW c \in Conn, Receives(c), conns[c].rx_channel \in Chan,
         conns[c].stop_data \/ conn_other(c, OtherType(conns[c].type)) = {},
         EndWith(c, conns, StoreIn(conns[c].rx_channel, NewChan), "freeing")
  PROVE  RxInv'
<1>1. PICK ch \in Chan : ch = conns[c].rx_channel
  OBVIOUS
<1>2. PICK rx : rx = StoreIn(ch, NewChan)
  OBVIOUS
<1>3. /\ rx = [rx_channels EXCEPT ![ch] = NewChan] /\ rx \in [Chan -> ChanType]
      /\ \A k \in Chan : rx[k] = IF k = ch THEN NewChan ELSE rx_channels[k]
  BY <1>2, NewTypes, StoreInChan DEF RxInv
<1>4. NewChan.busy = FALSE
  BY DEF NewChan
<1>5. \A k \in Chan : rx[k].busy => rx_channels[k].busy
  BY <1>3, <1>4
<1>6. PICK cs : cs = conns
  OBVIOUS
<1>7. EndWith(c, cs, rx, "freeing") /\ "freeing" \in Leaving /\ Told(cs, {})
  BY <1>1, <1>2, <1>6, NobodyTold DEF Leaving, RxInv
<1>8. PICK O : O = {}
  OBVIOUS
<1>9. /\ TypeOK' /\ SearchValid' /\ SlotsKept' /\ OneInSpi'
      /\ SocketServesOne' /\ ExtUserIsExt'
      /\ rx_channels' = rx /\ UNCHANGED <<socket, param>>
      /\ \A d \in Conn \ {c} : at'[d] = at[d]
      /\ Gone(conns', c, O) \/ (Told(conns', O) /\ orderly /\ ~orderly')
      /\ orderly' => orderly
  <2>1. \A d \in O : Receives(d)
    BY <1>8
  <2>2. Told(cs, O)
    BY <1>7, <1>8
  <2>3. EndWith(c, cs, rx, "freeing") /\ "freeing" \in Leaving
    BY <1>7
  <2>4. /\ rx \in [Chan -> ChanType]
        /\ \A k \in Chan : rx[k].busy => rx_channels[k].busy
    BY <1>3, <1>5
  <2>5. QED BY <2>1, <2>2, <2>3, <2>4, EndWithFacts
<1>10. BusyIsKept' /\ OrderKept'
  BY <1>1, <1>3, <1>8, <1>9, AloneEnds
<1>11. QED BY <1>9, <1>10 DEF RxInv

LEMMA StopDataStep ==
  ASSUME RxInv, NEW c \in Conn, StopData(c)
  PROVE  RxInv'
<1>1. PICK type \in {"SND", "W/F"} : Running(c, type)
  BY DEF StopData
<1>2. Receives(c) /\ conns[c].rx_channel \in Chan
  BY <1>1, StreamRuns DEF Receives, Receiver, Stream
<1>3. /\ conns[c].stop_data
      /\ EndWith(c, conns, StoreIn(conns[c].rx_channel, NewChan), "freeing")
  BY DEF StopData
<1>4. QED BY <1>2, <1>3, FreeAndEnd

LEMMA SndEndStep ==
  ASSUME RxInv, NEW c \in Conn, SndEnd(c)
  PROVE  RxInv'
<1>1. /\ Receives(c) /\ conns[c].type = "SND" /\ ~conns[c].stop_data
      /\ OtherType(conns[c].type) = "W/F"
  BY StreamRuns DEF SndEnd, Receives, Receiver, Stream, OtherType
<1>2. PICK ch \in Chan : ch = conns[c].rx_channel
  BY StreamRuns DEF SndEnd, Stream
<1>3. PICK O : O = conn_other(c, "W/F")
  OBVIOUS
<1>4. CASE O = {}
  <2>1. EndWith(c, conns, StoreIn(conns[c].rx_channel, NewChan), "freeing")
    BY <1>3, <1>4 DEF SndEnd
  <2>2. QED BY <1>1, <1>2, <1>3, <1>4, <2>1, FreeAndEnd
<1>5. CASE O # {}
  <2>1. PICK cs : cs = [d \in Conn |-> IF d \in O THEN [conns[d] EXCEPT !.stop_data = TRUE]
                                       ELSE conns[d]]
    OBVIOUS
  <2>2. PICK r : r = [rx_channels[ch] EXCEPT !.chan_enabled = FALSE]
    OBVIOUS
  <2>3. /\ r \in ChanType /\ r.chan_enabled = FALSE
        /\ r.conn = rx_channels[ch].conn
        /\ r.busy = rx_channels[ch].busy
    <3>1. rx_channels[ch] \in ChanType
      BY DEF RxInv, TypeOK, ChanType
    <3>2. QED BY <2>2, <3>1 DEF ChanType
  <2>4. PICK rx : rx = StoreIn(ch, r)
    OBVIOUS
  <2>5. /\ rx \in [Chan -> ChanType]
        /\ \A k \in Chan : rx[k] = IF k = ch THEN r ELSE rx_channels[k]
    BY <2>3, <2>4, StoreInChan DEF RxInv
  <2>6. /\ \A k \in Chan : /\ rx[k].busy <=> rx_channels[k].busy
                           /\ rx[k].conn = rx_channels[k].conn
                           /\ rx[k].chan_enabled => rx_channels[k].chan_enabled /\ k # ch
    BY <2>3, <2>5
  <2>7. EndWith(c, cs, rx, "disabling") /\ "disabling" \in Leaving
    BY <1>2, <1>3, <1>5, <2>1, <2>2, <2>4 DEF SndEnd, Leaving
  <2>8. Told(cs, O)
    BY <2>1, ToldOf DEF RxInv
  <2>9. \A d \in O : Receives(d)
    BY <1>1, <1>3, LinkReceives DEF RxInv
  <2>10. /\ TypeOK' /\ SearchValid' /\ SlotsKept' /\ OneInSpi'
         /\ SocketServesOne' /\ ExtUserIsExt'
         /\ rx_channels' = rx /\ UNCHANGED <<socket, param>>
         /\ \A d \in Conn \ {c} : at'[d] = at[d]
         /\ Gone(conns', c, O) \/ (Told(conns', O) /\ orderly /\ ~orderly')
         /\ orderly' => orderly
    BY <1>1, <1>2, <2>5, <2>6, <2>7, <2>8, <2>9, EndWithFacts
  <2>11. \A k \in Chan :
           /\ rx_channels'[k].busy <=> rx_channels[k].busy
           /\ rx_channels'[k].conn = rx_channels[k].conn
           /\ rx_channels'[k].chan_enabled =>
                /\ rx_channels[k].chan_enabled
                /\ k = conns[c].rx_channel => conns[c].type # "SND"
    BY <1>2, <2>6, <2>10
  <2>12. BusyIsKept' /\ OrderKept'
    BY <1>1, <1>2, <1>3, <1>5, <2>10, <2>11, PartnerStays
  <2>13. QED BY <2>10, <2>12 DEF RxInv
<1>6. QED BY <1>4, <1>5

(* A connection that ends, and tells those of O to stop.                   *)
LEMMA RemoveFacts ==
  ASSUME RxInv, NEW c \in Conn, NEW O, \A d \in O : Receives(d),
         NEW cs, Told(cs, O),
         conns' = rx_server_remove(cs, c), at' = [at EXCEPT ![c] = "none"],
         UNCHANGED <<itask_run, socket, param, web, fatal, orderly>>,
         rx_channels' \in [Chan -> ChanType],
         \A k \in Chan : rx_channels'[k].busy => rx_channels[k].busy,
         ext_users' \in [Chan -> Conn \cup {None}],
         \A k \in Chan : ext_users'[k] # None =>
           ext_users'[k] = ext_users[k] /\ ext_users[k] # c
  PROVE  /\ TypeOK' /\ SearchValid' /\ SlotsKept' /\ OneInSpi'
         /\ SocketServesOne' /\ ExtUserIsExt'
         /\ \A d \in Conn \ {c} : at'[d] = at[d]
         /\ Gone(conns', c, O)
<1>1. /\ at \in [Conn -> {"none", "setup", "run"} \cup InSpi]
      /\ "none" \notin InSpi
  BY DEF RxInv, TypeOK, InSpi
<1>2. Gone(conns', c, O)
  BY RemovedIsGone
<1>3. /\ \A d \in Conn \ {c} : at'[d] = at[d]
      /\ at'[c] = "none"
      /\ at' \in [Conn -> {"none", "setup", "run"} \cup InSpi]
  BY <1>1
<1>4. TypeOK'
  <2>1. conns' \in [Conn -> ConnType]
    BY <1>2 DEF Gone
  <2>2. QED BY <1>3, <2>1 DEF RxInv, TypeOK, ConnType, ChanType
<1>5. OneInSpi'
  <2>1. \A d \in Conn : at'[d] \in InSpi => at[d] \in InSpi
    BY <1>1, <1>3
  <2>2. QED BY <2>1 DEF RxInv, OneInSpi
<1>6. \A d \in Conn : Fades(d)
  <2>1. ASSUME NEW d \in Conn, d # c PROVE Fades(d)
    <3>1. /\ Like(conns'[d], conns[d])
          /\ conns'[d].stop_data => conns[d].stop_data \/ d \in O
      BY <1>2, <2>1, GoneFacts
    <3>2. QED BY <1>3, <2>1, <3>1 DEF Fades
  <2>2. Fades(c)
    BY <1>2, <1>3 DEF Gone, Fades
  <2>3. QED BY <2>1, <2>2
<1>7. ASSUME NEW k \in Chan, ext_users'[k] # None
      PROVE  /\ ext_users'[k] = ext_users[k]
             /\ Like(conns'[ext_users'[k]], conns[ext_users'[k]])
  <2>1. ext_users'[k] = ext_users[k] /\ ext_users[k] \in Conn \ {c}
    BY <1>7 DEF RxInv, TypeOK
  <2>2. QED BY <1>2, <2>1, GoneFacts
<1>8. SearchValid' /\ SlotsKept' /\ SocketServesOne' /\ ExtUserIsExt'
  BY <1>6, <1>7, FadeStep DEF RxInv
<1>9. QED BY <1>2, <1>3, <1>4, <1>5, <1>8

LEMMA WfEndStep ==
  ASSUME RxInv, NEW c \in Conn, WfEnd(c)
  PROVE  RxInv'
<1>1. /\ Receives(c) /\ conns[c].type = "W/F" /\ ~conns[c].stop_data
      /\ OtherType(conns[c].type) = "SND"
  BY StreamRuns DEF WfEnd, Receives, Receiver, Stream, OtherType
<1>2. PICK ch \in Chan : ch = conns[c].rx_channel
  BY StreamRuns DEF WfEnd, Stream
<1>3. PICK O : O = conn_other(c, "SND")
  OBVIOUS
<1>4. CASE O = {}
  <2>1. EndWith(c, conns, StoreIn(conns[c].rx_channel, NewChan), "freeing")
    BY <1>3, <1>4 DEF WfEnd
  <2>2. QED BY <1>1, <1>2, <1>3, <1>4, <2>1, FreeAndEnd
<1>5. CASE O # {}
  <2>1. PICK cs : cs = [d \in Conn |-> IF d \in O THEN [conns[d] EXCEPT !.stop_data = TRUE]
                                       ELSE conns[d]]
    OBVIOUS
  <2>2. /\ conns' = rx_server_remove(cs, c)
        /\ at' = [at EXCEPT ![c] = "none"]
        /\ UNCHANGED <<rx_channels, ext_users, itask_run, socket, param, web,
                       fatal, orderly>>
    BY <1>3, <1>5, <2>1 DEF WfEnd
  <2>3. Told(cs, O)
    BY <2>1, ToldOf DEF RxInv
  <2>4. \A d \in O : Receives(d)
    BY <1>1, <1>3, LinkReceives DEF RxInv
  <2>5. /\ rx_channels' \in [Chan -> ChanType]
        /\ ext_users' \in [Chan -> Conn \cup {None}]
        /\ \A k \in Chan : rx_channels'[k].busy => rx_channels[k].busy
        /\ UNCHANGED <<itask_run, socket, param, web, fatal, orderly>>
    BY <2>2 DEF RxInv, TypeOK, ChanType
  <2>6. ASSUME NEW k \in Chan, ext_users'[k] # None
        PROVE  ext_users'[k] = ext_users[k] /\ ext_users[k] # c
    BY <1>1, <2>2, <2>6 DEF RxInv, ExtUserIsExt
  <2>7. /\ TypeOK' /\ SearchValid' /\ SlotsKept' /\ OneInSpi'
        /\ SocketServesOne' /\ ExtUserIsExt'
        /\ \A d \in Conn \ {c} : at'[d] = at[d]
        /\ Gone(conns', c, O)
    BY <2>2, <2>3, <2>4, <2>5, <2>6, RemoveFacts
  <2>8. \A k \in Chan :
           /\ rx_channels'[k].busy <=> rx_channels[k].busy
           /\ rx_channels'[k].conn = rx_channels[k].conn
           /\ rx_channels'[k].chan_enabled =>
                /\ rx_channels[k].chan_enabled
                /\ k = conns[c].rx_channel => conns[c].type # "SND"
    BY <1>1, <2>2
  <2>9. BusyIsKept' /\ OrderKept'
    BY <1>1, <1>2, <1>3, <1>5, <2>2, <2>7, <2>8, PartnerStays
  <2>10. QED BY <2>7, <2>9 DEF RxInv
<1>6. QED BY <1>4, <1>5

(* A connection ends that is not a receiver's stream.                      *)
LEMMA MinorEnd ==
  ASSUME RxInv, NEW c \in Conn, ~Receives(c),
         conns' = rx_server_remove(conns, c), at' = [at EXCEPT ![c] = "none"],
         UNCHANGED <<itask_run, socket, param, web, fatal, orderly>>,
         rx_channels' \in [Chan -> ChanType],
         \A k \in Chan : /\ rx_channels'[k].busy <=> rx_channels[k].busy
                         /\ rx_channels'[k].conn = rx_channels[k].conn
                         /\ rx_channels'[k].chan_enabled => rx_channels[k].chan_enabled,
         ext_users' \in [Chan -> Conn \cup {None}],
         \A k \in Chan : ext_users'[k] # None =>
           ext_users'[k] = ext_users[k] /\ ext_users[k] # c
  PROVE  RxInv'
<1>1. PICK cs : cs = conns
  OBVIOUS
<1>2. PICK O : O = {}
  OBVIOUS
<1>3. Told(cs, O) /\ conns' = rx_server_remove(cs, c)
  BY <1>1, <1>2, NobodyTold DEF RxInv
<1>4. \A d \in O : Receives(d)
  BY <1>2
<1>5. /\ TypeOK' /\ SearchValid' /\ SlotsKept' /\ OneInSpi'
      /\ SocketServesOne' /\ ExtUserIsExt'
      /\ \A d \in Conn \ {c} : at'[d] = at[d]
      /\ Gone(conns', c, O)
  BY <1>3, <1>4, RemoveFacts
<1>6. \A d \in Conn \ {c} : SameReceiver(d)
  <2>1. \A d \in Conn \ {c} : /\ Like(conns'[d], conns[d])
                              /\ conns'[d].stop_data <=> conns[d].stop_data \/ d \in O
    BY <1>5, GoneFacts
  <2>2. \A d \in Conn \ {c} : /\ Like(conns'[d], conns[d])
                              /\ conns'[d].stop_data <=> conns[d].stop_data
    BY <1>2, <2>1
  <2>3. QED BY <2>2, LikeIsSame
<1>7. SameReceiver(c)
  BY <1>5, GoneFacts DEF SameReceiver, Receives
<1>8. at'[c] \notin Leaving
  BY DEF RxInv, TypeOK, Leaving
<1>9. /\ \A d \in Conn : SameReceiver(d) /\ (at'[d] \in Leaving => at[d] \in Leaving)
      /\ \A k \in Chan : rx_channels'[k].busy => rx_channels[k].busy
  BY <1>5, <1>6, <1>7, <1>8
<1>10. ASSUME NEW d \in Conn, Receives(d), NEW type \in Receiver,
              Spent(conns[d].tstamp, type)
       PROVE  Spent(conns[d].tstamp, type)'
  <2>1. conns'[d].tstamp = conns[d].tstamp
    BY <1>9, <1>10 DEF SameReceiver
  <2>2. QED BY <1>10, <2>1 DEF Spent
<1>11. BusyIsKept' /\ OrderKept'
  <2>1. orderly' => orderly
    OBVIOUS
  <2>2. QED BY <1>5, <1>9, <1>10, <2>1, StillStep
<1>12. QED BY <1>5, <1>11 DEF RxInv

LEMMA MonEndStep ==
  ASSUME RxInv, NEW c \in Conn, MonEnd(c)
  PROVE  RxInv'
<1>1. conns[c].type = "MON" /\ ~Receives(c)
  BY DEF MonEnd, Running, Receives, Receiver
<1>2. /\ conns' = rx_server_remove(conns, c) /\ at' = [at EXCEPT ![c] = "none"]
      /\ UNCHANGED <<rx_channels, ext_users>>
      /\ UNCHANGED <<itask_run, socket, param, web, fatal, orderly>>
  BY DEF MonEnd
<1>3. /\ rx_channels' \in [Chan -> ChanType]
      /\ ext_users' \in [Chan -> Conn \cup {None}]
  BY <1>2 DEF RxInv, TypeOK, ChanType
<1>4. ASSUME NEW k \in Chan, ext_users'[k] # None
      PROVE  ext_users'[k] = ext_users[k] /\ ext_users[k] # c
  BY <1>1, <1>2, <1>4 DEF RxInv, ExtUserIsExt
<1>5. QED BY <1>1, <1>2, <1>3, <1>4, MinorEnd

(* extint_ext_users_init() forgets one user and keeps the channel.         *)
LEMMA UsersInit ==
  ASSUME TypeOK, NEW ch \in Chan, extint_ext_users_init(ch)
  PROVE  /\ rx_channels' \in [Chan -> ChanType]
         /\ ext_users' \in [Chan -> Conn \cup {None}]
         /\ \A k \in Chan : /\ rx_channels'[k].busy <=> rx_channels[k].busy
                            /\ rx_channels'[k].conn = rx_channels[k].conn
                            /\ rx_channels'[k].chan_enabled <=> rx_channels[k].chan_enabled
         /\ \A k \in Chan : ext_users'[k] # None => ext_users'[k] = ext_users[k] /\ k # ch
<1>1. rx_channels \in [Chan -> ChanType] /\ ext_users \in [Chan -> Conn \cup {None}]
  BY DEF TypeOK, ChanType
<1>2. ASSUME NEW r \in ChanType
      PROVE  /\ [r EXCEPT !.ext = FALSE] \in ChanType
             /\ [r EXCEPT !.ext = FALSE].busy = r.busy
             /\ [r EXCEPT !.ext = FALSE].conn = r.conn
             /\ [r EXCEPT !.ext = FALSE].chan_enabled = r.chan_enabled
  BY DEF ChanType
<1>3. /\ rx_channels' = [rx_channels EXCEPT ![ch] = [rx_channels[ch] EXCEPT !.ext = FALSE]]
      /\ ext_users' = [ext_users EXCEPT ![ch] = None]
  BY <1>1 DEF extint_ext_users_init
<1>4. ext_users' \in [Chan -> Conn \cup {None}]
      /\ \A k \in Chan : ext_users'[k] # None => ext_users'[k] = ext_users[k] /\ k # ch
  BY <1>1, <1>3
<1>5. PICK r \in ChanType : r = [rx_channels[ch] EXCEPT !.ext = FALSE]
  BY <1>1, <1>2
<1>6. \A k \in Chan : rx_channels'[k] = IF k = ch THEN r ELSE rx_channels[k]
  BY <1>1, <1>3, <1>5
<1>7. rx_channels' \in [Chan -> ChanType]
  BY <1>1, <1>3, <1>5
<1>8. /\ r.busy = rx_channels[ch].busy /\ r.conn = rx_channels[ch].conn
      /\ r.chan_enabled = rx_channels[ch].chan_enabled
  BY <1>1, <1>2, <1>5
<1>9. \A k \in Chan : /\ rx_channels'[k].busy <=> rx_channels[k].busy
                      /\ rx_channels'[k].conn = rx_channels[k].conn
                      /\ rx_channels'[k].chan_enabled <=> rx_channels[k].chan_enabled
  BY <1>6, <1>8
<1>10. QED BY <1>4, <1>7, <1>9

LEMMA ExtEndStep ==
  ASSUME RxInv, NEW c \in Conn, ExtEnd(c)
  PROVE  RxInv'
<1>1. conns[c].type = "EXT" /\ ~Receives(c) /\ conns[c].rx_channel \in Chan
  BY StreamRuns DEF ExtEnd, Receives, Receiver, Stream
<1>2. /\ conns' = rx_server_remove(conns, c) /\ at' = [at EXCEPT ![c] = "none"]
      /\ extint_ext_users_init(conns[c].rx_channel)
      /\ UNCHANGED <<itask_run, socket, param, web, fatal, orderly>>
  BY DEF ExtEnd
<1>3. PICK ch \in Chan : ch = conns[c].rx_channel
  BY <1>1
<1>4. /\ rx_channels' \in [Chan -> ChanType]
      /\ ext_users' \in [Chan -> Conn \cup {None}]
      /\ \A k \in Chan : /\ rx_channels'[k].busy <=> rx_channels[k].busy
                         /\ rx_channels'[k].conn = rx_channels[k].conn
                         /\ rx_channels'[k].chan_enabled <=> rx_channels[k].chan_enabled
      /\ \A k \in Chan : ext_users'[k] # None => ext_users'[k] = ext_users[k] /\ k # ch
  BY <1>2, <1>3, UsersInit DEF RxInv
<1>5. ASSUME NEW k \in Chan, ext_users'[k] # None
      PROVE  ext_users'[k] = ext_users[k] /\ ext_users[k] # c
  BY <1>3, <1>4, <1>5 DEF RxInv, ExtUserIsExt
<1>6. \A k \in Chan : /\ rx_channels'[k].busy <=> rx_channels[k].busy
                      /\ rx_channels'[k].conn = rx_channels[k].conn
                      /\ rx_channels'[k].chan_enabled => rx_channels[k].chan_enabled
  BY <1>4
<1>7. QED BY <1>1, <1>2, <1>4, <1>5, <1>6, MinorEnd
---------------------------------------------------------------------------
(* A step that leaves the connections as they are, except their kicks.     *)
LEMMA QuietStep ==
  ASSUME RxInv, TypeOK', OneInSpi',
         \A c \in Conn : /\ Like(conns'[c], conns[c])
                         /\ conns'[c].stop_data <=> conns[c].stop_data
                         /\ \/ at'[c] = at[c] \/ at'[c] = "run"
                            \/ at'[c] = "enabling" /\ Receives(c),
         UNCHANGED <<socket, param, web>>, orderly' => orderly,
         \A k \in Chan : /\ rx_channels'[k].busy <=> rx_channels[k].busy
                         /\ rx_channels'[k].conn = rx_channels[k].conn
                         /\ rx_channels'[k].chan_enabled =>
                              \/ rx_channels[k].chan_enabled
                              \/ \E c \in Conn : Uses(c, k) /\ conns[c].type = "SND",
         \A k \in Chan : ext_users'[k] # None =>
           \/ ext_users'[k] = ext_users[k]
           \/ /\ ext_users'[k] \in Conn
              /\ conns[ext_users'[k]].valid
              /\ conns[ext_users'[k]].type = "EXT"
              /\ conns[ext_users'[k]].rx_channel = k
  PROVE  RxInv'
<1>1. \A c \in Conn : Like(conns'[c], conns[c]) /\ SameReceiver(c)
  BY LikeIsSame
<1>2. \A c \in Conn : Fades(c)
  BY DEF Fades, InSpi
<1>3. \A k \in Chan : ext_users'[k] # None =>
        Like(conns'[ext_users'[k]], conns[ext_users'[k]])
  <2>1. ext_users' \in [Chan -> Conn \cup {None}]
    BY DEF TypeOK
  <2>2. QED BY <1>1, <2>1
<1>4. SearchValid' /\ SlotsKept' /\ SocketServesOne' /\ ExtUserIsExt'
  BY <1>2, <1>3, FadeStep DEF RxInv
<1>5. \A c \in Conn : SameReceiver(c) /\ (at'[c] \in Leaving => at[c] \in Leaving)
  BY <1>1 DEF Leaving
<1>6. ASSUME NEW d \in Conn, Receives(d), NEW type \in Receiver,
             Spent(conns[d].tstamp, type)
      PROVE  Spent(conns[d].tstamp, type)'
  <2>1. conns'[d].tstamp = conns[d].tstamp
    BY <1>1 DEF Like
  <2>2. QED BY <1>6, <2>1 DEF Spent
<1>7. BusyIsKept' /\ OrderKept'
  BY <1>4, <1>5, <1>6, StillStep
<1>8. QED BY <1>4, <1>7 DEF RxInv

(* Connections that do not change look the same.                           *)
LEMMA SameIsLike ==
  ASSUME UNCHANGED conns
  PROVE  \A c \in Conn : /\ Like(conns'[c], conns[c])
                         /\ conns'[c].stop_data <=> conns[c].stop_data
  BY DEF Like

(* rx_enable() of a sound connection's channel, as it starts.              *)
LEMMA SndSetupStep ==
  ASSUME RxInv, NEW c \in Conn, SndSetup(c)
  PROVE  RxInv'
<1>1. /\ Receives(c) /\ conns[c].type = "SND" /\ at[c] = "setup"
  BY StreamRuns DEF SndSetup, Receives, Receiver, Stream
<1>2. PICK ch \in Chan : ch = conns[c].rx_channel
  BY StreamRuns DEF SndSetup, Stream
<1>3. PICK r : r = [rx_channels[ch] EXCEPT !.chan_enabled = TRUE]
  OBVIOUS
<1>4. /\ r \in ChanType /\ r.conn = rx_channels[ch].conn
      /\ r.busy = rx_channels[ch].busy
  <2>1. rx_channels[ch] \in ChanType
    BY DEF RxInv, TypeOK, ChanType
  <2>2. QED BY <1>3, <2>1 DEF ChanType
<1>5. PICK rx : rx = StoreIn(ch, r)
  OBVIOUS
<1>6. /\ rx \in [Chan -> ChanType]
      /\ \A k \in Chan : rx[k] = IF k = ch THEN r ELSE rx_channels[k]
  BY <1>4, <1>5, StoreInChan DEF RxInv
<1>7. /\ rx_channels' = rx /\ itask_run' = SndUsers(rx)
      /\ UNCHANGED <<conns, ext_users, socket, param, web, fatal>>
      /\ \/ orderly' = orderly /\ at' = [at EXCEPT ![c] = "run"]
         \/ orderly /\ orderly' = FALSE /\ at' = [at EXCEPT ![c] = "enabling"]
  BY <1>2, <1>3, <1>5 DEF SndSetup, rx_enable, PumpDone, PumpSwitch, MayHappen
<1>8. at \in [Conn -> {"none", "setup", "run"} \cup InSpi] /\ orderly \in BOOLEAN
  BY DEF RxInv, TypeOK
<1>9. /\ at' \in [Conn -> {"none", "setup", "run"} \cup InSpi]
      /\ \A d \in Conn \ {c} : at'[d] = at[d]
      /\ at'[c] = "run" \/ at'[c] = "enabling"
  BY <1>7, <1>8 DEF InSpi
<1>10. orderly' \in BOOLEAN /\ (orderly' => orderly) /\ itask_run' \in BOOLEAN
  <2>1. SndUsers(rx) \in BOOLEAN
    BY DEF SndUsers
  <2>2. itask_run' \in BOOLEAN
    BY <1>7, <2>1
  <2>3. orderly' = orderly \/ (orderly /\ orderly' = FALSE)
    BY <1>7
  <2>4. orderly' \in BOOLEAN /\ (orderly' => orderly)
    <3>1. CASE orderly' = orderly
      BY <1>8, <3>1
    <3>2. CASE orderly' = FALSE
      BY <3>2
    <3>3. QED BY <2>3, <3>1, <3>2
  <2>5. QED BY <2>2, <2>4
<1>11. TypeOK'
  BY <1>6, <1>7, <1>9, <1>10 DEF RxInv, TypeOK, ChanType
<1>12. OneInSpi'
  <2>1. CASE orderly' = orderly /\ at' = [at EXCEPT ![c] = "run"]
    <3>1. \A d \in Conn : at'[d] \in InSpi => at[d] \in InSpi
      BY <1>8, <2>1 DEF InSpi
    <3>2. QED BY <2>1, <3>1 DEF RxInv, OneInSpi
  <2>2. CASE orderly /\ orderly' = FALSE
    <3>1. \A d \in Conn : at'[d] \in InSpi => d = c
      BY <1>9, <2>2 DEF RxInv, OneInSpi
    <3>2. QED BY <2>2, <3>1 DEF OneInSpi
  <2>3. QED BY <1>7, <2>1, <2>2
<1>13. \A k \in Chan : /\ rx_channels'[k].busy <=> rx_channels[k].busy
                       /\ rx_channels'[k].conn = rx_channels[k].conn
                       /\ rx_channels'[k].chan_enabled =>
                            \/ rx_channels[k].chan_enabled
                            \/ \E d \in Conn : Uses(d, k) /\ conns[d].type = "SND"
  <2>1. Uses(c, ch) /\ conns[c].type = "SND"
    BY <1>1, <1>2, UsesReceives
  <2>2. QED BY <1>4, <1>6, <1>7, <2>1
<1>14. \A d \in Conn : \/ at'[d] = at[d] \/ at'[d] = "run"
                       \/ at'[d] = "enabling" /\ Receives(d)
  BY <1>1, <1>9
<1>15. UNCHANGED <<socket, param, web>> /\ UNCHANGED conns /\ UNCHANGED ext_users
  BY <1>7
<1>16. QED
  BY <1>10, <1>11, <1>12, <1>13, <1>14, <1>15, SameIsLike, QuietStep

LEMMA SndCmdsReceivedStep ==
  ASSUME RxInv, NEW c \in Conn, SndCmdsReceived(c)
  PROVE  RxInv'
<1>1. PICK ch \in Chan : ch = conns[c].rx_channel
  BY StreamRuns DEF SndCmdsReceived, Stream
<1>2. PICK r : r = [rx_channels[ch] EXCEPT !.data_enabled = TRUE]
  OBVIOUS
<1>3. /\ r \in ChanType /\ r.conn = rx_channels[ch].conn
      /\ r.busy = rx_channels[ch].busy
      /\ r.chan_enabled = rx_channels[ch].chan_enabled
  <2>1. rx_channels[ch] \in ChanType
    BY DEF RxInv, TypeOK, ChanType
  <2>2. QED BY <1>2, <2>1 DEF ChanType
<1>4. PICK rx : rx = StoreIn(ch, r)
  OBVIOUS
<1>5. /\ rx \in [Chan -> ChanType]
      /\ \A k \in Chan : rx[k] = IF k = ch THEN r ELSE rx_channels[k]
  BY <1>3, <1>4, StoreInChan DEF RxInv
<1>6. /\ rx_channels' = rx /\ itask_run' = SndUsers(rx)
      /\ UNCHANGED <<conns, ext_users, at, socket, param, web, fatal, orderly>>
  BY <1>1, <1>2, <1>4 DEF SndCmdsReceived, rx_enable, PumpDone
<1>7. itask_run' \in BOOLEAN
  BY <1>6 DEF SndUsers
<1>8. TypeOK' /\ OneInSpi'
  BY <1>5, <1>6, <1>7 DEF RxInv, TypeOK, ChanType, OneInSpi
<1>9. \A k \in Chan : /\ rx_channels'[k].busy <=> rx_channels[k].busy
                      /\ rx_channels'[k].conn = rx_channels[k].conn
                      /\ rx_channels'[k].chan_enabled => rx_channels[k].chan_enabled
  BY <1>3, <1>5, <1>6
<1>10. \A d \in Conn : at'[d] = at[d]
  BY <1>6
<1>11. UNCHANGED <<socket, param, web>> /\ UNCHANGED conns /\ UNCHANGED ext_users
       /\ UNCHANGED orderly
  BY <1>6
<1>12. QED BY <1>8, <1>9, <1>10, <1>11, SameIsLike, QuietStep

(* Messages to the extension's connection, and to none.                    *)
LEMMA ExtSwitchStep ==
  ASSUME RxInv, NEW c \in Conn, ExtSwitch(c)
  PROVE  RxInv'
<1>1. /\ conns[c].valid /\ conns[c].type = "EXT" /\ conns[c].rx_channel \in Chan
  BY StreamRuns DEF ExtSwitch, Stream
<1>2. PICK ch \in Chan : ch = conns[c].rx_channel
  BY <1>1
<1>3. PICK r : r = [rx_channels[ch] EXCEPT !.ext = TRUE]
  OBVIOUS
<1>4. rx_channels \in [Chan -> ChanType] /\ ext_users \in [Chan -> Conn \cup {None}]
  BY DEF RxInv, TypeOK, ChanType
<1>5. /\ r \in ChanType /\ r.conn = rx_channels[ch].conn
      /\ r.busy = rx_channels[ch].busy
      /\ r.chan_enabled = rx_channels[ch].chan_enabled
  <2>1. rx_channels[ch] \in ChanType
    BY <1>4
  <2>2. QED BY <1>3, <2>1 DEF ChanType
<1>6. /\ ext_users' = [ext_users EXCEPT ![ch] = c]
      /\ \/ rx_channels' = [rx_channels EXCEPT ![ch] = r]
         \/ rx_channels' = rx_channels
      /\ UNCHANGED <<conns, at, itask_run, socket, param, web, fatal, orderly>>
  <2>1. [rx_channels EXCEPT ![ch].ext = TRUE] = [rx_channels EXCEPT ![ch] = r]
    BY <1>3, <1>4
  <2>2. QED BY <1>2, <2>1 DEF ExtSwitch
<1>7. /\ rx_channels' \in [Chan -> ChanType]
      /\ \A k \in Chan : /\ rx_channels'[k].busy <=> rx_channels[k].busy
                         /\ rx_channels'[k].conn = rx_channels[k].conn
                         /\ rx_channels'[k].chan_enabled => rx_channels[k].chan_enabled
  <2>1. CASE rx_channels' = [rx_channels EXCEPT ![ch] = r]
    BY <1>4, <1>5, <2>1
  <2>2. CASE rx_channels' = rx_channels
    BY <1>4, <2>2
  <2>3. QED BY <1>6, <2>1, <2>2
<1>8. /\ ext_users' \in [Chan -> Conn \cup {None}]
      /\ \A k \in Chan : ext_users'[k] = ext_users[k] \/ (k = ch /\ ext_users'[k] = c)
  BY <1>4, <1>6
<1>9. TypeOK' /\ OneInSpi'
  BY <1>6, <1>7, <1>8 DEF RxInv, TypeOK, ChanType, OneInSpi
<1>10. \A k \in Chan : ext_users'[k] # None =>
         \/ ext_users'[k] = ext_users[k]
         \/ /\ ext_users'[k] \in Conn
            /\ conns[ext_users'[k]].valid
            /\ conns[ext_users'[k]].type = "EXT"
            /\ conns[ext_users'[k]].rx_channel = k
  BY <1>1, <1>2, <1>8
<1>11. /\ \A d \in Conn : at'[d] = at[d]
       /\ UNCHANGED <<socket, param, web>> /\ UNCHANGED conns /\ UNCHANGED orderly
  BY <1>6
<1>12. QED BY <1>7, <1>9, <1>10, <1>11, SameIsLike, QuietStep

LEMMA ExtBlurStep ==
  ASSUME RxInv, NEW c \in Conn, ExtBlur(c)
  PROVE  RxInv'
<1>1. PICK ch \in Chan : ch = conns[c].rx_channel
  BY StreamRuns DEF ExtBlur, Stream
<1>2. /\ extint_ext_users_init(ch)
      /\ UNCHANGED <<conns, at, itask_run, socket, param, web, fatal, orderly>>
  BY <1>1 DEF ExtBlur
<1>3. /\ rx_channels' \in [Chan -> ChanType]
      /\ ext_users' \in [Chan -> Conn \cup {None}]
      /\ \A k \in Chan : /\ rx_channels'[k].busy <=> rx_channels[k].busy
                         /\ rx_channels'[k].conn = rx_channels[k].conn
                         /\ rx_channels'[k].chan_enabled <=> rx_channels[k].chan_enabled
      /\ \A k \in Chan : ext_users'[k] # None => ext_users'[k] = ext_users[k] /\ k # ch
  BY <1>2, UsersInit DEF RxInv
<1>4. TypeOK' /\ OneInSpi'
  BY <1>2, <1>3 DEF RxInv, TypeOK, ChanType, OneInSpi
<1>5. /\ \A d \in Conn : at'[d] = at[d]
      /\ UNCHANGED <<socket, param, web>> /\ UNCHANGED conns /\ UNCHANGED orderly
  BY <1>2
<1>6. QED BY <1>3, <1>4, <1>5, SameIsLike, QuietStep

(* The panic of a stream that has no channel.                              *)
LEMMA NoChannelStep ==
  ASSUME RxInv, NEW c \in Conn, NoChannel(c)
  PROVE  RxInv'
<1>1. UNCHANGED <<conns, rx_channels, ext_users, at, itask_run, socket, param,
                  web, orderly>> /\ fatal' = "no_channel"
  BY DEF NoChannel
<1>2. TypeOK' /\ OneInSpi'
  BY <1>1 DEF RxInv, TypeOK, OneInSpi
<1>3. /\ \A d \in Conn : at'[d] = at[d]
      /\ UNCHANGED <<socket, param, web>> /\ UNCHANGED conns /\ UNCHANGED orderly
      /\ UNCHANGED rx_channels /\ UNCHANGED ext_users
  BY <1>1
<1>4. QED BY <1>2, <1>3, SameIsLike, QuietStep

(* The admin kicks the users of a channel.                                 *)
LEMMA KickStep ==
  ASSUME RxInv, NEW ch \in Chan, Kick(ch)
  PROVE  RxInv'
<1>1. conns \in [Conn -> ConnType]
  BY DEF RxInv, TypeOK, ConnType
<1>2. ASSUME NEW r \in ConnType
      PROVE  /\ [r EXCEPT !.kick = TRUE] \in ConnType
             /\ Like([r EXCEPT !.kick = TRUE], r)
             /\ [r EXCEPT !.kick = TRUE].stop_data <=> r.stop_data
  BY DEF ConnType, Like
<1>3. /\ UNCHANGED <<rx_channels, ext_users, at, itask_run, socket, param, web,
                     fatal, orderly>>
      /\ \A c \in Conn : conns'[c] = conns[c] \/ conns'[c] = [conns[c] EXCEPT !.kick = TRUE]
      /\ conns' = [c \in Conn |-> conns'[c]]
  BY DEF Kick
<1>4. ASSUME NEW c \in Conn
      PROVE  /\ conns'[c] \in ConnType /\ Like(conns'[c], conns[c])
             /\ conns'[c].stop_data <=> conns[c].stop_data
  <2>1. CASE conns'[c] = conns[c]
    BY <1>1, <2>1 DEF Like
  <2>2. CASE conns'[c] = [conns[c] EXCEPT !.kick = TRUE]
    BY <1>1, <1>2, <2>2
  <2>3. QED BY <1>3, <2>1, <2>2
<1>5. conns' \in [Conn -> ConnType]
  BY <1>3, <1>4
<1>6. TypeOK' /\ OneInSpi'
  BY <1>3, <1>5 DEF RxInv, TypeOK, ConnType, OneInSpi
<1>7. /\ \A d \in Conn : at'[d] = at[d]
      /\ UNCHANGED <<socket, param, web>> /\ UNCHANGED orderly
      /\ UNCHANGED rx_channels /\ UNCHANGED ext_users
  BY <1>3
<1>8. QED BY <1>4, <1>6, <1>7, QuietStep

(* The SPI commands of rx_enable() are done: the stream runs, or ends.     *)
LEMMA PumpResumeStep ==
  ASSUME RxInv, NEW c \in Conn, PumpResume(c)
  PROVE  RxInv'
<1>1. /\ UNCHANGED <<rx_channels, ext_users, itask_run, socket, param, web, fatal, orderly>>
      /\ at[c] \in InSpi
      /\ at[c] = "enabling" => at' = [at EXCEPT ![c] = "run"] /\ UNCHANGED conns
      /\ at[c] # "enabling" => /\ at' = [at EXCEPT ![c] = "none"]
                               /\ conns' = rx_server_remove(conns, c)
  BY DEF PumpResume
<1>2. at \in [Conn -> {"none", "setup", "run"} \cup InSpi]
  BY DEF RxInv, TypeOK
<1>3. ~orderly /\ ~orderly'
  BY <1>1 DEF RxInv, OneInSpi
<1>4. CASE at[c] = "enabling"
  <2>1. /\ at' \in [Conn -> {"none", "setup", "run"} \cup InSpi]
        /\ \A d \in Conn : at'[d] = at[d] \/ at'[d] = "run"
        /\ UNCHANGED conns
    BY <1>1, <1>2, <1>4
  <2>2. TypeOK'
    BY <1>1, <2>1 DEF RxInv, TypeOK
  <2>3. \A d \in Conn : at'[d] \in InSpi => at[d] \in InSpi
    BY <2>1 DEF InSpi
  <2>4. OneInSpi'
    BY <1>1, <2>3 DEF RxInv, OneInSpi
  <2>5. UNCHANGED <<socket, param, web>> /\ UNCHANGED rx_channels /\ UNCHANGED ext_users
    BY <1>1
  <2>6. QED BY <1>3, <2>1, <2>2, <2>4, <2>5, SameIsLike, QuietStep
<1>5. CASE at[c] # "enabling"
  <2>1. PICK cs : cs = conns
    OBVIOUS
  <2>2. PICK O : O = {}
    OBVIOUS
  <2>3. /\ Told(cs, O) /\ conns' = rx_server_remove(cs, c)
        /\ \A d \in O : Receives(d)
    BY <1>1, <1>5, <2>1, <2>2, NobodyTold DEF RxInv
  <2>4. conns[c].type \in Receiver
    BY <1>1 DEF RxInv, SlotsKept
  <2>5. \A k \in Chan : ext_users'[k] # None =>
          ext_users'[k] = ext_users[k] /\ ext_users[k] # c
    BY <1>1, <2>4 DEF RxInv, ExtUserIsExt, Receiver
  <2>6. /\ rx_channels' \in [Chan -> ChanType]
        /\ ext_users' \in [Chan -> Conn \cup {None}]
        /\ \A k \in Chan : rx_channels'[k].busy => rx_channels[k].busy
        /\ at' = [at EXCEPT ![c] = "none"]
        /\ UNCHANGED <<itask_run, socket, param, web, fatal, orderly>>
    BY <1>1, <1>5 DEF RxInv, TypeOK, ChanType
  <2>7. /\ TypeOK' /\ SearchValid' /\ SlotsKept' /\ OneInSpi'
        /\ SocketServesOne' /\ ExtUserIsExt'
        /\ \A d \in Conn \ {c} : at'[d] = at[d]
        /\ Gone(conns', c, O)
    BY <2>3, <2>5, <2>6, RemoveFacts
  <2>8. at[c] \in Leaving
    BY <1>1, <1>5 DEF InSpi, Leaving
  <2>9. BusyIsKept'
    <3> SUFFICES ASSUME NEW k \in Chan, rx_channels'[k].busy
                 PROVE  \E d \in Conn : Keeps(d, k)'
      BY DEF BusyIsKept
    <3>1. PICK d \in Conn : Keeps(d, k)
      BY <1>1 DEF RxInv, BusyIsKept
    <3>2. d # c
      BY <2>8, <3>1 DEF Keeps
    <3>3. conns'[c].type \notin Receiver
      BY <2>7, GoneFacts DEF Receiver
    <3>4. \A e \in Conn \ {c} : /\ Like(conns'[e], conns[e])
                                /\ conns[e].stop_data => conns'[e].stop_data
      BY <2>7, GoneFacts
    <3>5. Keeps(d, k)'
      BY <2>7, <3>1, <3>2, <3>3, <3>4, OthersKeep DEF RxInv
    <3>6. QED BY <3>5
  <2>10. OrderKept'
    BY <1>3 DEF OrderKept
  <2>11. QED BY <2>7, <2>9, <2>10 DEF RxInv
<1>6. QED BY <1>4, <1>5
---------------------------------------------------------------------------
(* Of the steps of the clients the connections' tasks only see a kick.     *)
LEMMA ClientKeeps ==
  ASSUME RxInv, TypeOK', SocketServesOne',
         web.pc = "idle",
         UNCHANGED <<rx_channels, ext_users, at, itask_run, web, fatal, orderly>>,
         \A c \in Conn :
           /\ conns'[c].valid = conns[c].valid /\ conns'[c].type = conns[c].type
           /\ conns'[c].other = conns[c].other
           /\ conns'[c].rx_channel = conns[c].rx_channel
           /\ conns'[c].tstamp = conns[c].tstamp
           /\ conns'[c].stop_data = conns[c].stop_data,
         \A c \in Conn, type \in Receiver :
           Spent(conns[c].tstamp, type) => Spent(conns[c].tstamp, type)'
  PROVE  RxInv'
<1>1. SearchValid'
  BY DEF SearchValid
<1>2. SlotsKept'
  BY DEF RxInv, SlotsKept
<1>3. OneInSpi'
  BY DEF RxInv, OneInSpi
<1>4. ExtUserIsExt'
  BY DEF RxInv, ExtUserIsExt, TypeOK
<1>5. \A c \in Conn : SameReceiver(c) /\ (at'[c] \in Leaving => at[c] \in Leaving)
  BY DEF SameReceiver, Receives
<1>6. BusyIsKept' /\ OrderKept'
  <2>1. \A k \in Chan : rx_channels'[k] = rx_channels[k]
    OBVIOUS
  <2>2. orderly' => orderly
    OBVIOUS
  <2>3. QED BY <1>2, <1>5, <2>1, <2>2, StillStep
<1>7. QED BY <1>1, <1>2, <1>3, <1>4, <1>6 DEF RxInv

(* A client opens a websocket, which the server has not seen yet.          *)
LEMMA OpenStep ==
  ASSUME RxInv, NEW s \in Socket, Open(s)
  PROVE  RxInv'
<1>1. /\ web.pc = "idle" /\ socket[s] = "new"
      /\ socket' = [socket EXCEPT ![s] = "open"]
      /\ UNCHANGED <<rx_channels, ext_users, at, itask_run, web, fatal, orderly>>
      /\ UNCHANGED <<conns, param>>
  BY DEF Open, ClientStep
<1>2. socket \in [Socket -> {"new", "open", "closed"}]
  BY DEF RxInv, TypeOK
<1>3. TypeOK'
  <2>1. socket' \in [Socket -> {"new", "open", "closed"}]
    BY <1>1, <1>2
  <2>2. QED BY <1>1, <2>1 DEF RxInv, TypeOK
<1>4. SocketServesOne'
  <2>1. \A c \in Conn : conns[c].mc # None => conns[c].mc \in Socket
    BY DEF RxInv, TypeOK
  <2>2. QED BY <1>1, <1>2, <2>1 DEF RxInv, SocketServesOne
<1>5. ASSUME NEW c \in Conn, NEW type \in Receiver, Spent(conns[c].tstamp, type)
      PROVE  Spent(conns[c].tstamp, type)'
  BY <1>1, <1>2, <1>5 DEF Spent
<1>6. QED BY <1>1, <1>3, <1>4, <1>5, ClientKeeps

(* The connection of a websocket that closes is told to end, and no longer *)
(* points to it.                                                           *)
LEMMA CloseStep ==
  ASSUME RxInv, NEW s \in Socket, Close(s)
  PROVE  RxInv'
<1>1. /\ web.pc = "idle"
      /\ socket' = [socket EXCEPT ![s] = "closed"]
      /\ param' = [param EXCEPT ![s] = None]
      /\ UNCHANGED <<rx_channels, ext_users, at, itask_run, web, fatal, orderly>>
  BY DEF Close, ClientStep
<1>2. PICK c : c = param[s]
  OBVIOUS
<1>3. \/ /\ c # None /\ conns[c].valid /\ conns[c].mc = s
         /\ conns' = [conns EXCEPT ![c].mc = None, ![c].kick = TRUE]
      \/ /\ ~(c # None /\ conns[c].valid /\ conns[c].mc = s)
         /\ conns' = conns
  BY <1>2 DEF Close
<1>4. /\ conns \in [Conn -> ConnType] /\ c \in Conn \cup {None}
      /\ socket \in [Socket -> {"new", "open", "closed"}]
      /\ param \in [Socket -> Conn \cup {None}]
  BY <1>2 DEF RxInv, TypeOK, ConnType
<1>5. ASSUME NEW r \in ConnType
      PROVE  /\ [r EXCEPT !.mc = None, !.kick = TRUE] \in ConnType
             /\ [r EXCEPT !.mc = None, !.kick = TRUE].valid = r.valid
             /\ [r EXCEPT !.mc = None, !.kick = TRUE].type = r.type
             /\ [r EXCEPT !.mc = None, !.kick = TRUE].other = r.other
             /\ [r EXCEPT !.mc = None, !.kick = TRUE].rx_channel = r.rx_channel
             /\ [r EXCEPT !.mc = None, !.kick = TRUE].tstamp = r.tstamp
             /\ [r EXCEPT !.mc = None, !.kick = TRUE].stop_data = r.stop_data
             /\ [r EXCEPT !.mc = None, !.kick = TRUE].mc = None
  BY DEF ConnType
<1>6. /\ conns' \in [Conn -> ConnType]
      /\ \A d \in Conn :
           /\ conns'[d].valid = conns[d].valid /\ conns'[d].type = conns[d].type
           /\ conns'[d].other = conns[d].other
           /\ conns'[d].rx_channel = conns[d].rx_channel
           /\ conns'[d].tstamp = conns[d].tstamp
           /\ conns'[d].stop_data = conns[d].stop_data
      /\ \A d \in Conn : conns'[d].mc = conns[d].mc \/ (d = c /\ conns'[d].mc = None)
      /\ c # None /\ conns[c].valid /\ conns[c].mc = s => conns'[c].mc = None
  <2>1. CASE c # None /\ conns[c].valid /\ conns[c].mc = s
    <3>1. c \in Conn /\ conns[c] \in ConnType
      BY <1>4, <2>1
    <3>2. conns' = [conns EXCEPT ![c] = [conns[c] EXCEPT !.mc = None, !.kick = TRUE]]
      BY <1>3, <1>4, <2>1, <3>1
    <3>3. PICK r \in ConnType : r = [conns[c] EXCEPT !.mc = None, !.kick = TRUE]
      BY <1>5, <3>1
    <3>4. /\ r.valid = conns[c].valid /\ r.type = conns[c].type
          /\ r.other = conns[c].other /\ r.rx_channel = conns[c].rx_channel
          /\ r.tstamp = conns[c].tstamp /\ r.stop_data = conns[c].stop_data
          /\ r.mc = None
      BY <1>5, <3>1, <3>3
    <3>5. conns' = [conns EXCEPT ![c] = r]
      BY <3>2, <3>3
    <3>6. QED BY <1>4, <3>1, <3>4, <3>5
  <2>2. CASE ~(c # None /\ conns[c].valid /\ conns[c].mc = s)
    BY <1>3, <1>4, <2>2
  <2>3. QED BY <2>1, <2>2
<1>7. TypeOK'
  <2>1. /\ socket' \in [Socket -> {"new", "open", "closed"}]
        /\ param' \in [Socket -> Conn \cup {None}]
    BY <1>1, <1>4
  <2>2. QED BY <1>1, <1>6, <2>1 DEF RxInv, TypeOK, ConnType
<1>8. SocketServesOne'
  <2> SUFFICES ASSUME NEW d \in Conn, conns'[d].valid, conns'[d].mc # None
               PROVE  /\ param'[conns'[d].mc] = d /\ socket'[conns'[d].mc] = "open"
                      /\ conns'[d].mc[1] = conns'[d].tstamp
    BY DEF SocketServesOne
  <2>1. conns'[d].mc = conns[d].mc /\ conns[d].valid /\ conns[d].tstamp = conns'[d].tstamp
    BY <1>6
  <2>2. PICK m \in Socket : m = conns[d].mc
    BY <2>1 DEF RxInv, TypeOK
  <2>3. param[m] = d /\ socket[m] = "open" /\ m[1] = conns[d].tstamp
    BY <2>1, <2>2 DEF RxInv, SocketServesOne
  <2>4. m # s
    BY <1>2, <1>6, <2>1, <2>2, <2>3, RxAssumption
  <2>5. QED BY <1>1, <1>4, <2>1, <2>2, <2>3, <2>4
<1>9. ASSUME NEW d \in Conn, NEW type \in Receiver, Spent(conns[d].tstamp, type)
      PROVE  Spent(conns[d].tstamp, type)'
  BY <1>1, <1>4, <1>6, <1>9 DEF Spent
<1>10. QED BY <1>1, <1>6, <1>7, <1>8, <1>9, ClientKeeps

(* A client that comes again has no connection left.                       *)
LEMMA ReloadStep ==
  ASSUME RxInv, NEW cl \in Client, Reload(cl)
  PROVE  RxInv'
<1>1. /\ web.pc = "idle"
      /\ \A c \in Conn : conns[c].tstamp # cl
      /\ socket' = [s \in Socket |-> IF s[1] = cl THEN "new" ELSE socket[s]]
      /\ UNCHANGED <<rx_channels, ext_users, at, itask_run, web, fatal, orderly>>
      /\ UNCHANGED <<conns, param>>
  BY DEF Reload
<1>2. socket \in [Socket -> {"new", "open", "closed"}]
  BY DEF RxInv, TypeOK
<1>3. TypeOK'
  <2>1. socket' \in [Socket -> {"new", "open", "closed"}]
    BY <1>1, <1>2
  <2>2. QED BY <1>1, <2>1 DEF RxInv, TypeOK
<1>4. SocketServesOne'
  <2>1. \A c \in Conn : conns[c].mc # None => conns[c].mc \in Socket
    BY DEF RxInv, TypeOK
  <2>2. QED BY <1>1, <2>1 DEF RxInv, SocketServesOne
<1>5. ASSUME NEW c \in Conn, NEW type \in Receiver, Spent(conns[c].tstamp, type)
      PROVE  Spent(conns[c].tstamp, type)'
  <2>1. PICK t : t = conns[c].tstamp /\ t # cl /\ conns'[c].tstamp = t
    BY <1>1
  <2>2. <<t, type>> \in Socket => socket'[<<t, type>>] = socket[<<t, type>>]
    BY <1>1, <2>1
  <2>3. QED BY <1>1, <1>5, <2>1, <2>2 DEF Spent
<1>6. QED BY <1>1, <1>3, <1>4, <1>5, ClientKeeps
---------------------------------------------------------------------------
(* The search of the web server task, as it goes over conns[].             *)
Seeks(w) ==
  /\ w \in WebType
  /\ w.sock \in Socket /\ socket[w.sock] = "open" /\ param[w.sock] = None
  /\ w.cfree # None => ~conns[w.cfree].valid

Searches(w) ==
  /\ Seeks(w) /\ w.mon_total < w.i
  /\ orderly => w.i = 1 /\ w.cother = None

(* It finds a slot that is free, and counts monitors before the connection *)
(* to cull.                                                                *)
LEMMA SearchFacts ==
  ASSUME TypeOK, NEW w, Searches(w)
  PROVE  /\ ToCull(w) \in Conn \cup {None}
         /\ ToCull(w) # None =>
              /\ conns[ToCull(w)].valid /\ conns[ToCull(w)].stop_data
              /\ Search(w).mon_total < ToCull(w)
         /\ Search(w) \in WebType /\ Search(w).sock = w.sock
         /\ Search(w).cfree # None => ~conns[Search(w).cfree].valid
         /\ Search(w).cother = LowestOf(Others(w))
         /\ Others(w) \in SUBSET Conn
         /\ orderly /\ ToCull(w) = None => Passed(w) = Conn
<1>1. /\ w \in WebType /\ w.i \in 1..N_CONNS /\ w.cfree \in Conn \cup {None}
      /\ w.cother \in Conn \cup {None} /\ w.mon_total \in 0..N_CONNS
      /\ w.mon_total < w.i
      /\ N_CONNS \in Nat \ {0} /\ None \notin Conn
  BY RxAssumption DEF Searches, Seeks, WebType, Conn
<1>2. /\ ToCull(w) \in Conn \cup {None}
      /\ ToCull(w) # None => /\ ToCull(w) >= w.i /\ conns[ToCull(w)].valid
                             /\ conns[ToCull(w)].stop_data
  <2>1. PICK S \in SUBSET Conn :
          S = {c \in Conn : /\ c >= w.i /\ conns[c].valid
                            /\ conns[c].stop_data /\ conns[c].mc = None}
    OBVIOUS
  <2>2. ToCull(w) = LowestOf(S)
    BY <2>1 DEF ToCull
  <2>3. QED BY <2>1, <2>2, LowestType
<1>3. PICK n : n = IF ToCull(w) = None THEN N_CONNS + 1 ELSE ToCull(w)
  OBVIOUS
<1>4. n \in 1..(N_CONNS + 1) /\ n >= w.i
  BY <1>1, <1>2, <1>3 DEF Conn
<1>5. Passed(w) \in SUBSET (w.i..(n - 1))
  BY <1>1, <1>2, <1>3, <1>4 DEF Passed, Conn
<1>6. PICK m : m = Cardinality({c \in Passed(w) : conns[c].valid /\ conns[c].type = "MON"})
  OBVIOUS
<1>7. m \in Nat /\ m <= n - w.i
  <2>1. {c \in Passed(w) : conns[c].valid /\ conns[c].type = "MON"}
          \in SUBSET (w.i..(n - 1))
    BY <1>5
  <2>2. /\ IsFiniteSet(w.i..(n - 1))
        /\ Cardinality(w.i..(n - 1)) = IF w.i > n - 1 THEN 0 ELSE n - 1 - w.i + 1
    <3>1. w.i \in Int /\ n - 1 \in Int
      BY <1>1, <1>4
    <3>2. QED BY <3>1, FS_Interval
  <2>3. /\ IsFiniteSet({c \in Passed(w) : conns[c].valid /\ conns[c].type = "MON"})
        /\ m <= Cardinality(w.i..(n - 1))
    BY <1>6, <2>1, <2>2, FS_Subset
  <2>4. m \in Nat
    BY <1>6, <2>3, FS_CardinalityType
  <2>5. QED BY <1>1, <1>4, <2>2, <2>3, <2>4
<1>8. w.mon_total + m \in 0..N_CONNS /\ w.mon_total + m < n
  BY <1>1, <1>4, <1>7
<1>9. Passed(w) \in SUBSET Conn /\ Others(w) \in SUBSET Conn
  BY <1>1 DEF Passed, Others, SameClient
<1>10. PICK F \in SUBSET Conn : F = {c \in Passed(w) : ~conns[c].valid}
  BY <1>9
<1>11. PICK f : f = IF w.cfree # None THEN w.cfree ELSE LowestOf(F)
  OBVIOUS
<1>12. f \in Conn \cup {None} /\ (f # None => ~conns[f].valid)
  <2>1. LowestOf(F) \in Conn \cup {None} /\ (LowestOf(F) # None => LowestOf(F) \in F)
    BY LowestType
  <2>2. QED BY <1>1, <1>10, <1>11, <2>1 DEF Searches, Seeks
<1>13. LowestOf(Others(w)) \in Conn \cup {None}
  BY <1>9, LowestType
<1>14. Search(w) = [w EXCEPT !.cfree = f, !.cother = LowestOf(Others(w)),
                             !.mon_total = w.mon_total + m]
  BY <1>6, <1>10, <1>11 DEF Search
<1>15. PICK o : o = LowestOf(Others(w))
  OBVIOUS
<1>16. /\ Search(w) \in WebType /\ Search(w).sock = w.sock
       /\ Search(w).cfree = f /\ Search(w).cother = o
       /\ Search(w).mon_total = w.mon_total + m
  BY <1>1, <1>8, <1>12, <1>13, <1>14, <1>15 DEF WebType
<1>17. ToCull(w) # None => n = ToCull(w)
  BY <1>3
<1>18. orderly /\ ToCull(w) = None => Passed(w) = Conn
  BY RxAssumption DEF Passed, Searches, Seeks, Conn
<1>19. QED BY <1>2, <1>8, <1>9, <1>12, <1>15, <1>16, <1>17, <1>18
---------------------------------------------------------------------------
(* The web server task removes the task of a stream that was told to stop, *)
(* after it has freed the channel.                                         *)
LEMMA CulledIsGone ==
  ASSUME RxInv, NEW c \in Conn, Receives(c),
         conns' = rx_server_remove(conns, c), at' = [at EXCEPT ![c] = "none"],
         UNCHANGED <<ext_users, socket, param, fatal>>,
         orderly' = FALSE, itask_run' \in BOOLEAN,
         rx_channels' \in [Chan -> ChanType],
         \A k \in Chan : rx_channels'[k].busy =>
           rx_channels[k].busy /\ k # conns[c].rx_channel,
         NEW w, Seeks(w), w.mon_total < c,
         web' = [w EXCEPT !.pc = "removed", !.i = c]
  PROVE  RxInv'
<1>1. PICK cs : cs = conns
  OBVIOUS
<1>2. PICK O : O = {}
  OBVIOUS
<1>3. Told(cs, O) /\ conns' = rx_server_remove(cs, c)
  BY <1>1, <1>2, NobodyTold DEF RxInv
<1>4. Gone(conns', c, O)
  BY <1>3, RemovedIsGone
<1>5. /\ conns'[c] = NewConn /\ conns'[c].valid = FALSE
      /\ conns'[c].type = "none"
      /\ \A d \in Conn \ {c} : /\ Like(conns'[d], conns[d])
                               /\ conns'[d].stop_data <=> conns[d].stop_data
  <2>1. \A d \in Conn \ {c} : /\ Like(conns'[d], conns[d])
                              /\ conns'[d].stop_data <=> conns[d].stop_data \/ d \in O
    BY <1>4, GoneFacts
  <2>2. conns'[c] = NewConn /\ conns'[c].valid = FALSE /\ conns'[c].type = "none"
    BY <1>4, GoneFacts DEF Gone
  <2>3. QED BY <1>2, <2>1, <2>2
<1>6. at \in [Conn -> {"none", "setup", "run"} \cup InSpi]
  BY DEF RxInv, TypeOK
<1>7. /\ \A d \in Conn \ {c} : at'[d] = at[d]
      /\ at'[c] = "none"
      /\ at' \in [Conn -> {"none", "setup", "run"} \cup InSpi]
  BY <1>6
<1>8. /\ web' \in WebType /\ web'.pc = "removed" /\ web'.i = c
      /\ web'.sock = w.sock /\ web'.cfree = w.cfree
      /\ web'.mon_total = w.mon_total
  BY DEF Seeks, WebType
<1>9. TypeOK'
  <2>1. conns' \in [Conn -> ConnType]
    BY <1>4 DEF Gone
  <2>2. QED BY <1>7, <1>8, <2>1 DEF RxInv, TypeOK, ConnType, ChanType, WebType
<1>10. \A d \in Conn : Fades(d)
  BY <1>5, <1>7 DEF Fades
<1>11. ASSUME NEW k \in Chan, ext_users'[k] # None
       PROVE  /\ ext_users'[k] = ext_users[k]
              /\ Like(conns'[ext_users'[k]], conns[ext_users'[k]])
  <2>1. ext_users[k] \in Conn /\ conns[ext_users[k]].type = "EXT"
    BY <1>11 DEF RxInv, TypeOK, ExtUserIsExt
  <2>2. ext_users[k] # c
    BY <2>1 DEF Receives, Receiver
  <2>3. QED BY <1>5, <2>1, <2>2
<1>12. SlotsKept' /\ SocketServesOne' /\ ExtUserIsExt'
  BY <1>10, <1>11, FadeSlots DEF RxInv
<1>13. SearchValid'
  <2>1. w.cfree # None => ~conns'[w.cfree].valid
    <3>1. w.cfree \in Conn \cup {None}
      BY DEF Seeks, WebType
    <3>2. QED BY <1>5, <3>1 DEF Seeks, Like
  <2>2. QED BY <1>8, <2>1 DEF SearchValid, Seeks
<1>14. OneInSpi'
  <2>1. \A d \in Conn : at'[d] \in InSpi => at[d] \in InSpi
    BY <1>7 DEF InSpi
  <2>2. QED BY <2>1 DEF RxInv, OneInSpi
<1>15. BusyIsKept'
  <2> SUFFICES ASSUME NEW k \in Chan, rx_channels'[k].busy
               PROVE  \E d \in Conn : Keeps(d, k)'
    BY DEF BusyIsKept
  <2>1. rx_channels[k].busy /\ k # conns[c].rx_channel
    OBVIOUS
  <2>2. PICK d \in Conn : Keeps(d, k)
    BY <2>1 DEF RxInv, BusyIsKept
  <2>3. d # c
    BY <2>1, <2>2 DEF Keeps, Uses
  <2>4. conns'[c].type \notin Receiver
    BY <1>5 DEF Receiver
  <2>5. Keeps(d, k)'
    BY <1>5, <1>7, <1>9, <1>12, <2>2, <2>3, <2>4, OthersKeep DEF RxInv
  <2>6. QED BY <2>5
<1>16. OrderKept'
  BY DEF OrderKept
<1>17. QED BY <1>9, <1>12, <1>13, <1>14, <1>15, <1>16 DEF RxInv

(* The server is lost, or the task is switched out as it frees the channel *)
(* of a connection it culls.                                               *)
LEMMA FreedFirst ==
  ASSUME RxInv, UNCHANGED <<conns, at, ext_users, socket, param>>,
         orderly' = FALSE, itask_run' \in BOOLEAN,
         rx_channels' \in [Chan -> ChanType],
         \A k \in Chan : rx_channels'[k].busy => rx_channels[k].busy,
         fatal' \in {"none", "no_channel", "lock_held", "main_removed"},
         web' \in WebType, SearchValid'
  PROVE  RxInv'
<1>1. TypeOK'
  BY DEF RxInv, TypeOK, ConnType, ChanType, WebType
<1>2. SlotsKept' /\ OneInSpi' /\ SocketServesOne' /\ ExtUserIsExt'
  BY DEF RxInv, SlotsKept, OneInSpi, SocketServesOne, ExtUserIsExt
<1>3. \A c \in Conn : SameReceiver(c) /\ (at'[c] \in Leaving => at[c] \in Leaving)
  BY DEF SameReceiver, Receives
<1>4. BusyIsKept' /\ OrderKept'
  BY <1>1, <1>2, <1>3, StillStep
<1>5. QED BY <1>1, <1>2, <1>4 DEF RxInv

(* The search removes a connection whose websocket is gone, and is then    *)
(* switched out or goes on.                                                *)
LEMMA CullStep ==
  ASSUME RxInv, NEW w, Searches(w), web.pc # "freed", ToCull(w) # None,
         Cull(Search(w), ToCull(w))
  PROVE  RxInv'
<1>1. PICK c \in Conn : c = ToCull(w)
  BY SearchFacts DEF RxInv
<1>2. PICK f : f = Search(w)
  OBVIOUS
<1>3. /\ conns[c].valid /\ conns[c].stop_data /\ f.mon_total < c
      /\ Seeks(f) /\ f.sock = w.sock
  BY <1>1, <1>2, SearchFacts DEF RxInv, Searches, Seeks
<1>4. Receives(c)
  BY <1>3 DEF RxInv, SlotsKept, Receives
<1>5. PICK rx : rx = StoreIn(conns[c].rx_channel, NewChan)
  OBVIOUS
<1>6. /\ rx \in [Chan -> ChanType]
      /\ \A k \in Chan : rx[k].busy => rx_channels[k].busy /\ k # conns[c].rx_channel
  <2>1. PICK ch \in Chan \cup {-1} : ch = conns[c].rx_channel
    BY DEF RxInv, TypeOK
  <2>2. rx_channels \in [Chan -> ChanType]
    BY DEF RxInv, TypeOK, ChanType
  <2>3. /\ rx \in [Chan -> ChanType]
        /\ \A k \in Chan : rx[k] = IF k = ch THEN NewChan ELSE rx_channels[k]
    <3>1. rx = StoreIn(ch, NewChan)
      BY <1>5, <2>1
    <3>2. NewChan \in ChanType
      BY NewTypes
    <3> HIDE <1>5
    <3>3. QED BY <2>2, <3>1, <3>2, StoreInType
  <2>4. NewChan.busy = FALSE
    BY DEF NewChan
  <2>5. QED BY <2>1, <2>3, <2>4
<1>7. /\ rx_channels' = rx /\ itask_run' = SndUsers(rx)
      /\ UNCHANGED <<ext_users, socket, param>>
      /\ TaskRemoveBy(f, c) \/ (/\ PumpSwitch(rx)
                                /\ web' = [f EXCEPT !.pc = "freed", !.i = c]
                                /\ UNCHANGED <<conns, at, fatal>>)
  BY <1>1, <1>2, <1>5 DEF Cull, rx_enable
<1>8. itask_run' \in BOOLEAN
  <2>1. SndUsers(rx) \in BOOLEAN
    BY DEF SndUsers
  <2>2. QED BY <1>7, <2>1
<1>9. CASE at[c] \in InSpi /\ fatal' = "lock_held" /\ UNCHANGED <<conns, at, web, orderly>>
  <2>1. orderly' = FALSE
    <3>1. orderly \in BOOLEAN /\ ~orderly
      BY <1>9 DEF RxInv, TypeOK, OneInSpi
    <3>2. QED BY <1>9, <3>1
  <2>2. web' \in WebType /\ SearchValid'
    <3>1. web \in WebType
      BY DEF RxInv, TypeOK, WebType
    <3>2. ~orderly'
      BY <2>1
    <3>3. UNCHANGED <<conns, web, socket, param>>
      BY <1>7, <1>9
    <3>4. QED BY <3>1, <3>2, <3>3 DEF RxInv, SearchValid
  <2>3. \A k \in Chan : rx_channels'[k].busy => rx_channels[k].busy
    BY <1>6, <1>7
  <2>4. QED BY <1>6, <1>7, <1>8, <1>9, <2>1, <2>2, <2>3, FreedFirst
<1>10. CASE /\ conns' = rx_server_remove(conns, c)
            /\ at' = [at EXCEPT ![c] = "none"]
            /\ web' = [f EXCEPT !.pc = "removed", !.i = c]
            /\ orderly' = FALSE /\ UNCHANGED fatal
  BY <1>3, <1>4, <1>6, <1>7, <1>8, <1>10, CulledIsGone
<1>11. CASE /\ orderly' = FALSE
            /\ web' = [f EXCEPT !.pc = "freed", !.i = c]
            /\ UNCHANGED <<conns, at, fatal>>
  <2>1. /\ web' \in WebType /\ web'.pc = "freed" /\ web'.i = c
        /\ web'.sock = f.sock /\ web'.cfree = f.cfree
        /\ web'.mon_total = f.mon_total
    BY <1>3, <1>11 DEF Seeks, WebType
  <2>2. conns[c].type \in Receiver
    BY <1>4 DEF Receives
  <2>3. conns[c].rx_channel \in Chan \cup {-1}
    BY DEF RxInv, TypeOK
  <2>4. conns[c].rx_channel # -1 => ~rx_channels'[conns[c].rx_channel].busy
    BY <1>6, <1>7, <2>3
  <2>5. SearchValid'
    BY <1>3, <1>7, <1>11, <2>1, <2>2, <2>4 DEF SearchValid, Seeks
  <2>6. \A k \in Chan : rx_channels'[k].busy => rx_channels[k].busy
    BY <1>6, <1>7
  <2>7. fatal' \in {"none", "no_channel", "lock_held", "main_removed"}
    BY <1>11 DEF RxInv, TypeOK
  <2>8. QED BY <1>6, <1>7, <1>8, <1>11, <2>1, <2>5, <2>6, <2>7, FreedFirst
<1>12. QED
  BY <1>3, <1>7, <1>9, <1>10, <1>11 DEF TaskRemoveBy, PumpSwitch

LEMMA CullResumeStep ==
  ASSUME RxInv, CullResume
  PROVE  RxInv'
<1>1. /\ web.pc = "freed" /\ TaskRemoveBy(web, web.i)
      /\ UNCHANGED <<rx_channels, ext_users, itask_run, socket, param>>
  BY DEF CullResume
<1>2. PICK c \in Conn : c = web.i
  BY DEF RxInv, TypeOK
<1>3. PICK w : w = web
  OBVIOUS
<1>4. Seeks(w) /\ w.mon_total < c /\ ~orderly
  BY <1>1, <1>2, <1>3 DEF RxInv, TypeOK, SearchValid, Seeks, WebType
<1>5. orderly \in BOOLEAN /\ itask_run' \in BOOLEAN
      /\ rx_channels' \in [Chan -> ChanType]
  BY <1>1 DEF RxInv, TypeOK, ChanType
<1>6. CASE /\ fatal' \in {"main_removed", "lock_held"}
           /\ UNCHANGED <<conns, at, web, orderly>>
  <2>1. orderly' = FALSE
    BY <1>4, <1>5, <1>6
  <2>2. web' \in WebType /\ SearchValid'
    <3>1. web \in WebType
      BY DEF RxInv, TypeOK, WebType
    <3>2. QED BY <1>1, <1>4, <1>6, <3>1 DEF RxInv, SearchValid
  <2>3. fatal' \in {"none", "no_channel", "lock_held", "main_removed"}
    BY <1>6
  <2>4. QED BY <1>1, <1>5, <1>6, <2>1, <2>2, <2>3, FreedFirst
<1>7. CASE /\ conns[c].valid
           /\ conns' = rx_server_remove(conns, c)
           /\ at' = [at EXCEPT ![c] = "none"]
           /\ web' = [w EXCEPT !.pc = "removed", !.i = c]
           /\ orderly' = FALSE /\ UNCHANGED fatal
  <2>1. Receives(c)
    BY <1>1, <1>2, <1>7 DEF RxInv, SearchValid, Receives
  <2>2. \A k \in Chan : rx_channels'[k].busy =>
          rx_channels[k].busy /\ k # conns[c].rx_channel
    <3>1. -1 \notin Chan
      BY RxAssumption DEF Chan
    <3>2. QED BY <1>1, <1>2, <1>7, <3>1 DEF RxInv, SearchValid
  <2>3. UNCHANGED <<ext_users, socket, param, fatal>>
    BY <1>1, <1>7
  <2>4. QED BY <1>4, <1>5, <1>7, <2>1, <2>2, <2>3, CulledIsGone
<1>8. QED BY <1>1, <1>2, <1>3, <1>6, <1>7 DEF TaskRemoveBy
---------------------------------------------------------------------------
(* What a new partner c leaves of a connection.                            *)
Joins(r, q, c) ==
  /\ r.valid = q.valid /\ r.type = q.type
  /\ r.rx_channel = q.rx_channel /\ r.mc = q.mc /\ r.tstamp = q.tstamp
  /\ r.stop_data <=> q.stop_data
  /\ r.other = q.other \/ r.other = c

(* When a slot is filled, or cleared, the keepers of channels remain.      *)
LEMMA JoinKeeps ==
  ASSUME SlotsKept, TypeOK, SlotsKept', TypeOK', NEW c \in Conn, ~Receives(c),
         at'[c] \notin Leaving,
         \A d \in Conn \ {c} : Joins(conns'[d], conns[d], c) /\ at'[d] = at[d],
         NEW k \in Conn, NEW ch, Keeps(k, ch)
  PROVE  Keeps(k, ch)'
<1>1. Receives(k) /\ conns[k].rx_channel = ch /\ k # c
  BY UsesReceives DEF Keeps
<1>2. /\ conns'[k].valid /\ conns'[k].type = conns[k].type
      /\ conns'[k].type \in Receiver /\ conns'[k].rx_channel = ch
      /\ conns'[k].other = conns[k].other \/ conns'[k].other = c
      /\ conns'[k].stop_data <=> conns[k].stop_data
  BY <1>1 DEF Joins, Receives
<1>3. Uses(k, ch)' /\ at'[k] \notin Leaving
  BY <1>1, <1>2 DEF Uses, Receiver, Keeps
<1>4. CASE conns[k].stop_data
  BY <1>2, <1>3, <1>4 DEF Keeps
<1>5. CASE ~conns[k].stop_data
  <2>1. \A d \in conn_other(k, OtherType(conns[k].type)) : at[d] \notin Leaving
    BY <1>5 DEF Keeps
  <2>2. ASSUME NEW d \in conn_other(k, OtherType(conns[k].type))'
        PROVE  at'[d] \notin Leaving
    <3>0. conns'[k].other \in Conn \cup {None}
      BY DEF TypeOK
    <3>1. /\ d \in Conn /\ d = conns'[k].other
          /\ conns'[d].type = OtherType(conns'[k].type)
          /\ conns'[d].rx_channel = conns'[k].rx_channel
      BY <2>2, <3>0 DEF conn_other, OtherType
    <3>2. CASE d = c
      BY <3>2
    <3>3. CASE d # c
      <4>1. conns[d].type = conns'[d].type /\ conns[d].rx_channel = conns'[d].rx_channel
        BY <3>1, <3>3 DEF Joins
      <4>2. d # None /\ conns[k].other = d
        BY <1>2, <3>1, <3>3, RxAssumption
      <4>3. d \in conn_other(k, OtherType(conns[k].type))
        BY <1>1, <1>2, <3>1, <4>1, <4>2 DEF conn_other
      <4>4. QED BY <2>1, <3>1, <3>3, <4>3
    <3>4. QED BY <3>2, <3>3
  <2>3. QED BY <1>3, <2>2 DEF Keeps
<1>6. QED BY <1>4, <1>5

(* The slot c is filled for the websocket s, or left or made free.         *)
Taken(c, s) ==
  /\ conns'[c].valid /\ conns'[c].type \in Stream \cup {"MON"}
  /\ conns'[c].tstamp = s[1] /\ conns'[c].mc = s /\ ~conns'[c].stop_data
  /\ conns'[c].type = "EXT" => conns'[c].rx_channel \in Chan
  /\ at'[c] = IF conns'[c].type = "SND" THEN "setup" ELSE "run"
  /\ param' = [param EXCEPT ![s] = c]

Blank(c) ==
  /\ ~conns'[c].valid /\ conns'[c].type \notin Receiver \cup {"MON"}
  /\ conns'[c].tstamp = None /\ ~conns'[c].stop_data
  /\ at'[c] = at[c]

(* Filling a free slot, whole or in part, disturbs no other one and no     *)
(* channel, as long as its websocket was unserved.                         *)
LEMMA FillFacts ==
  ASSUME RxInv, TypeOK', NEW c \in Conn, ~conns[c].valid,
         NEW s \in Socket, socket[s] = "open", param[s] = None,
         web' = Idle, UNCHANGED <<ext_users, socket>>, orderly' => orderly,
         \A d \in Conn \ {c} : Joins(conns'[d], conns[d], c) /\ at'[d] = at[d],
         param' = param \/ param' = [param EXCEPT ![s] = c],
         Taken(c, s) \/ Blank(c),
         \A k \in Chan : rx_channels'[k].busy =>
           rx_channels[k].busy \/ Keeps(c, k)'
  PROVE  /\ SearchValid' /\ SlotsKept' /\ OneInSpi' /\ SocketServesOne'
         /\ ExtUserIsExt' /\ BusyIsKept'
         /\ \A cl, type : Spent(cl, type) => Spent(cl, type)'
<1>1. /\ conns[c].type \notin Receiver \cup {"MON"} /\ at[c] \notin InSpi \cup {"setup"}
      /\ ~Receives(c)
  BY DEF RxInv, SlotsKept, Receives
<1>2. s[1] # None /\ None \notin Conn /\ None \notin Socket
  BY RxAssumption
<1>3. param \in [Socket -> Conn \cup {None}]
  BY DEF RxInv, TypeOK
<1>4. SearchValid'
  BY DEF SearchValid, Idle
<1>5. SlotsKept'
  <2> SUFFICES ASSUME NEW d \in Conn PROVE
        /\ conns'[d].type \in Receiver \cup {"MON"} => conns'[d].valid
        /\ conns'[d].valid => conns'[d].type # "none" /\ conns'[d].tstamp # None
        /\ ~conns'[d].valid => conns'[d].tstamp = None
        /\ conns'[d].valid /\ conns'[d].type = "EXT" => conns'[d].rx_channel \in Chan
        /\ conns'[d].stop_data => conns'[d].type \in Receiver
        /\ at'[d] \in InSpi \cup {"setup"} => conns'[d].type \in Receiver
    BY DEF SlotsKept
  <2>1. CASE d # c
    BY <2>1 DEF RxInv, SlotsKept, Joins
  <2>2. CASE d = c /\ Taken(c, s)
    BY <1>2, <2>2 DEF Taken, Stream, Receiver, InSpi
  <2>3. CASE d = c /\ Blank(c)
    BY <1>1, <2>3 DEF Blank
  <2>4. QED BY <2>1, <2>2, <2>3
<1>6. at'[c] \notin InSpi
  BY <1>1 DEF Taken, Blank, InSpi
<1>7. OneInSpi'
  <2>1. \A d \in Conn : at'[d] \in InSpi => at[d] \in InSpi
    BY <1>6
  <2>2. QED BY <2>1 DEF RxInv, OneInSpi
<1>8. SocketServesOne'
  <2> SUFFICES ASSUME NEW d \in Conn, conns'[d].valid, conns'[d].mc # None
               PROVE  /\ param'[conns'[d].mc] = d /\ socket'[conns'[d].mc] = "open"
                      /\ conns'[d].mc[1] = conns'[d].tstamp
    BY DEF SocketServesOne
  <2>1. CASE d = c
    BY <1>3, <2>1 DEF Taken, Blank
  <2>2. CASE d # c
    <3>1. /\ conns'[d].mc = conns[d].mc /\ conns[d].valid
          /\ conns'[d].tstamp = conns[d].tstamp
      BY <2>2 DEF Joins
    <3>2. PICK m \in Socket : m = conns[d].mc
      BY <3>1 DEF RxInv, TypeOK
    <3>3. param[m] = d /\ socket[m] = "open" /\ m[1] = conns[d].tstamp
      BY <3>1, <3>2 DEF RxInv, SocketServesOne
    <3>4. m # s
      BY <1>2, <3>3
    <3>5. QED BY <1>3, <3>1, <3>2, <3>3, <3>4
  <2>3. QED BY <2>1, <2>2
<1>9. ExtUserIsExt'
  <2>1. ext_users \in [Chan -> Conn \cup {None}]
    BY DEF RxInv, TypeOK
  <2>2. QED BY <2>1 DEF RxInv, ExtUserIsExt, Joins
<1>10. BusyIsKept'
  <2> SUFFICES ASSUME NEW k \in Chan, rx_channels'[k].busy
               PROVE  \E d \in Conn : Keeps(d, k)'
    BY DEF BusyIsKept
  <2>1. CASE Keeps(c, k)'
    BY <2>1
  <2>2. CASE rx_channels[k].busy
    <3>1. PICK d \in Conn : Keeps(d, k)
      BY <2>2 DEF RxInv, BusyIsKept
    <3>2. at'[c] \notin Leaving
      BY <1>6 DEF Leaving, InSpi
    <3>3. Keeps(d, k)'
      BY <1>1, <1>5, <3>1, <3>2, JoinKeeps DEF RxInv
    <3>4. QED BY <3>3
  <2>3. QED BY <2>1, <2>2
<1>11. ASSUME NEW cl, NEW type, Spent(cl, type) PROVE Spent(cl, type)'
  BY <1>2, <1>3, <1>11 DEF Spent
<1>12. QED BY <1>4, <1>5, <1>7, <1>8, <1>9, <1>10, <1>11

(* Without a new stream of a receiver nothing else changes.                *)
LEMMA FillElse ==
  ASSUME RxInv, TypeOK', NEW c \in Conn, ~conns[c].valid,
         NEW s \in Socket, socket[s] = "open", param[s] = None,
         web' = Idle, UNCHANGED <<ext_users, socket>>, orderly' => orderly,
         \A d \in Conn \ {c} : Joins(conns'[d], conns[d], c) /\ at'[d] = at[d],
         param' = param \/ param' = [param EXCEPT ![s] = c],
         Taken(c, s) \/ Blank(c),
         \A k \in Chan : rx_channels'[k].busy =>
           rx_channels[k].busy \/ Keeps(c, k)',
         orderly' => /\ UNCHANGED rx_channels
                     /\ conns'[c].type \notin Receiver
                     /\ \A d \in Conn \ {c} : conns'[d].other = conns[d].other
  PROVE  RxInv'
<1>1. /\ SearchValid' /\ SlotsKept' /\ OneInSpi' /\ SocketServesOne'
      /\ ExtUserIsExt' /\ BusyIsKept'
  BY FillFacts
<1>2. \A cl, type : Spent(cl, type) => Spent(cl, type)'
  BY FillFacts
<1>3. CASE ~orderly'
  <2>1. OrderKept'
    BY <1>3 DEF OrderKept
  <2>2. QED BY <1>1, <2>1 DEF RxInv
<1>4. CASE orderly'
  <2>1. /\ conns[c].type \notin Receiver \cup {"MON"} /\ at[c] \notin InSpi
    BY DEF RxInv, SlotsKept
  <2>2. ASSUME NEW d \in Conn PROVE SameReceiver(d) /\ (at'[d] \in Leaving => at[d] \in Leaving)
    <3>1. CASE d = c
      BY <1>4, <2>1, <3>1 DEF SameReceiver, Receives, Taken, Blank, Leaving
    <3>2. CASE d # c
      BY <1>4, <3>2 DEF SameReceiver, Receives, Joins
    <3>3. QED BY <3>1, <3>2
  <2>3. ASSUME NEW d \in Conn, Receives(d), NEW type \in Receiver,
               Spent(conns[d].tstamp, type)
        PROVE  Spent(conns[d].tstamp, type)'
    <3>1. PICK t : t = conns[d].tstamp /\ t = conns'[d].tstamp
      BY <2>2, <2>3 DEF SameReceiver
    <3>2. Spent(t, type)
      BY <2>3, <3>1
    <3>3. Spent(t, type)'
      BY <1>2, <3>2
    <3>4. QED BY <3>1, <3>3 DEF Spent
  <2>4. \A k \in Chan : rx_channels'[k] = rx_channels[k]
    BY <1>4
  <2>5. BusyIsKept' /\ OrderKept'
    BY <1>1, <1>4, <2>2, <2>3, <2>4, StillStep
  <2>6. QED BY <1>1, <2>5 DEF RxInv
<1>5. QED BY <1>3, <1>4

(* A connection is created, or its slot is given back.                     *)
IsFilled(conn, s, o, type, ch) ==
  /\ conn \in ConnType /\ conn.type = type /\ conn.other = o
  /\ conn.rx_channel = ch /\ conn.tstamp = s[1] /\ conn.mc = s
  /\ conn.stop_data = FALSE

Created(c, s, o, type, ch, rx) ==
  /\ Taken(c, s) /\ rx_channels' = rx
  /\ conns'[c].type = type /\ conns'[c].other = o /\ conns'[c].rx_channel = ch

NotCreated(c, ch, rx) ==
  /\ Blank(c) /\ ~orderly'
  /\ \A k \in Chan : rx_channels'[k] = IF k = ch THEN NewChan ELSE rx[k]

(* Create ends in a served websocket with a running task, or in a slot     *)
(* left half filled and a channel freed.                                   *)
LEMMA CreateFacts ==
  ASSUME RxInv, NEW c \in Conn, ~conns[c].valid, NEW s \in Socket,
         NEW conn, NEW o, NEW type \in Stream \cup {"MON"}, NEW ch,
         IsFilled(conn, s, o, type, ch), type = "EXT" => ch \in Chan,
         NEW cs \in [Conn -> ConnType], NEW rx \in [Chan -> ChanType],
         Create(c, s, conn, cs, rx)
  PROVE  /\ TypeOK' /\ web' = Idle /\ UNCHANGED <<ext_users, socket>>
         /\ orderly' => orderly
         /\ \A d \in Conn \ {c} : conns'[d] = cs[d] /\ at'[d] = at[d]
         /\ param' = param \/ param' = [param EXCEPT ![s] = c]
         /\ Created(c, s, o, type, ch, rx) \/ NotCreated(c, ch, rx)
<1>0. /\ conn \in ConnType /\ conn.type = type /\ conn.other = o
      /\ conn.rx_channel = ch /\ conn.tstamp = s[1] /\ conn.mc = s
      /\ conn.stop_data = FALSE
  BY DEF IsFilled
<1>1. /\ at \in [Conn -> {"none", "setup", "run"} \cup InSpi]
      /\ param \in [Socket -> Conn \cup {None}]
      /\ itask_run \in BOOLEAN /\ orderly \in BOOLEAN
  BY DEF RxInv, TypeOK
<1>2. UNCHANGED <<ext_users, socket, fatal>> /\ web' = Idle
  BY DEF Create, WebDone
<1>3. PICK r : r = [conn EXCEPT !.valid = TRUE]
  OBVIOUS
<1>4. /\ r \in ConnType /\ r.valid = TRUE /\ r.type = type
      /\ r.other = o /\ r.rx_channel = ch
      /\ r.tstamp = s[1] /\ r.mc = s /\ r.stop_data = FALSE
  BY <1>0, <1>3 DEF ConnType
<1>5. PICK freed : freed = IF ch = -1 THEN rx ELSE [rx EXCEPT ![ch] = NewChan]
  OBVIOUS
<1>6. /\ freed \in [Chan -> ChanType]
      /\ \A k \in Chan : freed[k] = IF k = ch THEN NewChan ELSE rx[k]
  <2>1. -1 \notin Chan /\ ch \in Chan \cup {-1}
    BY <1>0, RxAssumption DEF Chan, ConnType
  <2>2. QED BY <1>5, <2>1, NewTypes
<1>7. CASE /\ conns' = [cs EXCEPT ![c] = r]
           /\ param' = [param EXCEPT ![s] = c]
           /\ at' = [at EXCEPT ![c] = IF type = "SND" THEN "setup" ELSE "run"]
           /\ rx_channels' = rx
           /\ UNCHANGED <<itask_run, orderly>>
  <2>1. /\ conns' \in [Conn -> ConnType] /\ conns'[c] = r
        /\ \A d \in Conn \ {c} : conns'[d] = cs[d]
    BY <1>4, <1>7
  <2>2. /\ at' \in [Conn -> {"none", "setup", "run"} \cup InSpi]
        /\ at'[c] = IF type = "SND" THEN "setup" ELSE "run"
        /\ \A d \in Conn \ {c} : at'[d] = at[d]
    BY <1>1, <1>7
  <2>3. param' \in [Socket -> Conn \cup {None}]
    BY <1>1, <1>7
  <2>4. TypeOK'
    BY <1>2, <1>7, <2>1, <2>2, <2>3, NewTypes
       DEF RxInv, TypeOK, ConnType, ChanType, WebType
  <2>5. Taken(c, s)
    BY <1>4, <1>7, <2>1, <2>2 DEF Taken
  <2>6. Created(c, s, o, type, ch, rx)
    BY <1>4, <1>7, <2>1, <2>5 DEF Created
  <2>7. QED BY <1>2, <1>7, <2>1, <2>2, <2>4, <2>6
<1>8. CASE /\ orderly /\ orderly' = FALSE
           /\ rx_channels' = freed /\ itask_run' = SndUsers(freed)
           /\ conns' = [cs EXCEPT ![c] = NewConn]
           /\ UNCHANGED <<at, param>>
  <2>1. /\ conns' \in [Conn -> ConnType] /\ conns'[c] = NewConn
        /\ \A d \in Conn \ {c} : conns'[d] = cs[d]
    BY <1>8, NewTypes
  <2>2. itask_run' \in BOOLEAN
    BY <1>8 DEF SndUsers
  <2>3. orderly' \in BOOLEAN /\ ~orderly'
    BY <1>8
  <2>4. TypeOK'
    BY <1>2, <1>6, <1>8, <2>1, <2>2, <2>3, NewTypes
       DEF RxInv, TypeOK, ConnType, ChanType, WebType
  <2>5. Blank(c)
    BY <1>8, <2>1 DEF Blank, NewConn, Receiver
  <2>6. NotCreated(c, ch, rx)
    BY <1>6, <1>8, <2>3, <2>5 DEF NotCreated
  <2>7. QED BY <1>2, <1>8, <2>1, <2>3, <2>4, <2>6
<1>9. QED
  BY <1>0, <1>3, <1>5, <1>7, <1>8 DEF Create, rx_enable, MayHappen, WebDone

LEMMA RefuseStep ==
  ASSUME RxInv, NEW c \in Conn \cup {None}, c # None => ~conns[c].valid,
         NEW s \in Socket, socket[s] = "open", param[s] = None,
         Refuse(c)
  PROVE  RxInv'
<1>1. /\ conns' = IF c = None THEN conns ELSE [conns EXCEPT ![c] = NewConn]
      /\ web' = Idle
      /\ UNCHANGED <<rx_channels, ext_users, at, itask_run, socket, param,
                     fatal, orderly>>
  BY DEF Refuse, WebDone
<1>2. conns \in [Conn -> ConnType] /\ None \notin Conn
  BY RxAssumption DEF RxInv, TypeOK, ConnType
<1>3. CASE c # None
  <2>1. c \in Conn /\ conns' = [conns EXCEPT ![c] = NewConn]
    BY <1>1, <1>3
  <2>2. /\ conns' \in [Conn -> ConnType] /\ conns'[c] = NewConn
        /\ \A d \in Conn \ {c} : conns'[d] = conns[d]
    BY <1>2, <2>1, NewTypes
  <2>3. TypeOK'
    BY <1>1, <2>2, NewTypes DEF RxInv, TypeOK, ConnType, ChanType, WebType
  <2>4. Blank(c)
    BY <1>1, <2>2 DEF Blank, NewConn, Receiver
  <2>5. /\ \A d \in Conn \ {c} : Joins(conns'[d], conns[d], c) /\ at'[d] = at[d]
        /\ \A d \in Conn \ {c} : conns'[d].other = conns[d].other
    BY <1>1, <2>2 DEF Joins
  <2>6. conns'[c].type \notin Receiver
    BY <2>4 DEF Blank
  <2>7. /\ UNCHANGED <<ext_users, socket>> /\ UNCHANGED param
        /\ UNCHANGED rx_channels /\ UNCHANGED orderly
    BY <1>1
  <2>8. QED BY <1>1, <1>3, <2>1, <2>3, <2>4, <2>5, <2>6, <2>7, FillElse
<1>4. CASE c = None
  <2>1. UNCHANGED conns
    BY <1>1, <1>4
  <2>2. TypeOK'
    <3>1. web' \in WebType
      BY <1>1, NewTypes
    <3>2. TypeOK
      BY DEF RxInv
    <3>3. QED BY <1>1, <2>1, <3>1, <3>2 DEF TypeOK, WebType
  <2>3. SearchValid'
    BY <1>1 DEF SearchValid, Idle
  <2>4. SlotsKept' /\ OneInSpi' /\ SocketServesOne' /\ ExtUserIsExt'
    <3>1. SlotsKept /\ OneInSpi /\ SocketServesOne /\ ExtUserIsExt
      BY DEF RxInv
    <3>2. SlotsKept' /\ OneInSpi'
      BY <1>1, <2>1, <3>1 DEF SlotsKept, OneInSpi
    <3>3. SocketServesOne' /\ ExtUserIsExt'
      BY <1>1, <2>1, <3>1 DEF SocketServesOne, ExtUserIsExt
    <3>4. QED BY <3>2, <3>3
  <2>5. \A d \in Conn : SameReceiver(d) /\ (at'[d] \in Leaving => at[d] \in Leaving)
    BY <1>1, <2>1 DEF SameReceiver, Receives
  <2>6. ASSUME NEW d \in Conn, NEW type, Spent(conns[d].tstamp, type)
        PROVE  Spent(conns[d].tstamp, type)'
    BY <1>1, <2>1, <2>6 DEF Spent
  <2>7. \A k \in Chan : rx_channels'[k] = rx_channels[k]
    BY <1>1
  <2>8. BusyIsKept' /\ OrderKept'
    BY <1>1, <2>2, <2>4, <2>5, <2>6, <2>7, StillStep
  <2>9. QED BY <2>2, <2>3, <2>4, <2>8 DEF RxInv
<1>5. QED BY <1>3, <1>4

(* The record the web server fills is that of a connection.                *)
LEMMA FilledType ==
  ASSUME NEW s \in Socket, NEW o \in Conn \cup {None},
         NEW type \in Stream \cup {"MON"}, NEW ch \in Chan \cup {-1}
  PROVE  IsFilled(Filled(s, o, type, ch), s, o, type, ch)
<1>0. PICK r : r = Filled(s, o, type, ch)
  OBVIOUS
<1>1. PICK t \in Client : t = s[1]
  BY RxAssumption
<1>2. ASSUME NEW n \in ConnType, NEW q,
             q = [n EXCEPT !.type = type, !.other = o, !.rx_channel = ch, !.mc = s,
                           !.tstamp = t]
      PROVE  /\ q \in ConnType /\ q.type = type /\ q.other = o
             /\ q.rx_channel = ch /\ q.tstamp = t /\ q.mc = s
             /\ q.stop_data = n.stop_data
  BY <1>2 DEF ConnType
<1>3. Filled(s, o, type, ch) =
        [NewConn EXCEPT !.type = type, !.other = o, !.rx_channel = ch, !.mc = s,
                        !.tstamp = t]
  BY <1>1 DEF Filled
<1>4. NewConn \in ConnType /\ NewConn.stop_data = FALSE
  BY NewTypes DEF NewConn
<1>5. /\ r \in ConnType /\ r.type = type /\ r.other = o
      /\ r.rx_channel = ch /\ r.tstamp = t /\ r.mc = s
      /\ r.stop_data = FALSE
  BY <1>0, <1>2, <1>3, <1>4
<1>6. QED BY <1>0, <1>1, <1>5 DEF IsFilled

(* A connection for which the channels stay as they are.                   *)
LEMMA CreateAside ==
  ASSUME RxInv, NEW c \in Conn, ~conns[c].valid,
         NEW s \in Socket, socket[s] = "open", param[s] = None,
         NEW o \in Conn \cup {None},
         NEW type \in Stream \cup {"MON"}, type \notin Receiver,
         NEW ch \in Chan \cup {-1}, type = "EXT" => ch \in Chan,
         Create(c, s, Filled(s, o, type, ch), conns, rx_channels)
  PROVE  RxInv'
<1>0. PICK conn : conn = Filled(s, o, type, ch)
  OBVIOUS
<1>1. IsFilled(conn, s, o, type, ch)
  BY <1>0, FilledType
<1>2. PICK cs : cs = conns
  OBVIOUS
<1>3. PICK rx : rx = rx_channels
  OBVIOUS
<1>4. Create(c, s, conn, cs, rx)
  BY <1>0, <1>2, <1>3
<1>5. /\ TypeOK' /\ web' = Idle /\ UNCHANGED <<ext_users, socket>>
      /\ orderly' => orderly
      /\ \A d \in Conn \ {c} : conns'[d] = cs[d] /\ at'[d] = at[d]
      /\ param' = param \/ param' = [param EXCEPT ![s] = c]
      /\ Created(c, s, o, type, ch, rx) \/ NotCreated(c, ch, rx)
  <2>1. cs \in [Conn -> ConnType] /\ rx \in [Chan -> ChanType]
    BY <1>2, <1>3 DEF RxInv, TypeOK, ConnType, ChanType
  <2>2. QED BY <1>1, <1>4, <2>1, CreateFacts
<1>6. /\ \A d \in Conn \ {c} : Joins(conns'[d], conns[d], c) /\ at'[d] = at[d]
      /\ \A d \in Conn \ {c} : conns'[d].other = conns[d].other
  BY <1>2, <1>5 DEF Joins
<1>7. \A k \in Chan : rx_channels'[k].busy => rx_channels[k].busy
  BY <1>3, <1>5 DEF NewChan, Created, NotCreated
<1>8. orderly' => UNCHANGED rx_channels /\ conns'[c].type \notin Receiver
  BY <1>3, <1>5 DEF Created, NotCreated
<1>9. Taken(c, s) \/ Blank(c)
  BY <1>5 DEF Created, NotCreated
<1>10. QED BY <1>5, <1>6, <1>7, <1>8, <1>9, FillElse

LEMMA AllocExtStep ==
  ASSUME RxInv, NEW w, Seeks(w), w.cfree # None, w.sock[2] = "EXT",
         AllocExt(w, w.cfree, w.sock)
  PROVE  RxInv'
<1>1. PICK c \in Conn, s \in Socket : c = w.cfree /\ s = w.sock
  BY DEF Seeks, WebType
<1>2. ~conns[c].valid /\ socket[s] = "open" /\ param[s] = None
  BY <1>1 DEF Seeks
<1>3. PICK o \in Conn \cup {None} : o = w.cother
  BY DEF Seeks, WebType
<1>4. CASE o # None /\ conns[o].rx_channel # -1
  <2>1. PICK ch \in Chan : ch = conns[o].rx_channel
    BY <1>4 DEF RxInv, TypeOK
  <2>2. Create(c, s, Filled(s, o, "EXT", ch), conns, rx_channels)
    BY <1>1, <1>3, <1>4, <2>1 DEF AllocExt
  <2>3. PICK type \in Stream \cup {"MON"} : type = "EXT" /\ type \notin Receiver
    BY DEF Stream, Receiver
  <2>4. QED BY <1>2, <2>1, <2>2, <2>3, CreateAside
<1>5. CASE ~(o # None /\ conns[o].rx_channel # -1)
  <2>1. PICK r : r = [NewConn EXCEPT !.type = "EXT", !.other = o]
    OBVIOUS
  <2>2. /\ r \in ConnType /\ r.valid = FALSE /\ r.type = "EXT"
        /\ r.tstamp = None /\ r.stop_data = FALSE
    BY <2>1, NewTypes DEF NewConn, ConnType, Stream
  <2>3. /\ conns' = [conns EXCEPT ![c] = r]
        /\ param' = [param EXCEPT ![s] = c] /\ web' = Idle
        /\ UNCHANGED <<fatal, socket>>
        /\ UNCHANGED <<rx_channels, ext_users, at, itask_run, orderly>>
    BY <1>1, <1>3, <1>5, <2>1 DEF AllocExt, WebDone
  <2>4. conns \in [Conn -> ConnType] /\ param \in [Socket -> Conn \cup {None}]
    BY DEF RxInv, TypeOK, ConnType
  <2>5. /\ conns' \in [Conn -> ConnType] /\ conns'[c] = r
        /\ \A d \in Conn \ {c} : conns'[d] = conns[d]
        /\ param' \in [Socket -> Conn \cup {None}]
    BY <2>2, <2>3, <2>4
  <2>6. TypeOK'
    BY <2>3, <2>5, NewTypes DEF RxInv, TypeOK, ConnType, ChanType, WebType
  <2>7. Blank(c) /\ conns'[c].type \notin Receiver
    BY <2>2, <2>3, <2>5 DEF Blank, Receiver
  <2>8. /\ \A d \in Conn \ {c} : Joins(conns'[d], conns[d], c) /\ at'[d] = at[d]
        /\ \A d \in Conn \ {c} : conns'[d].other = conns[d].other
    BY <2>3, <2>5 DEF Joins
  <2>9. /\ UNCHANGED <<ext_users, socket>> /\ UNCHANGED rx_channels
        /\ UNCHANGED orderly
    BY <2>3
  <2>10. /\ web' = Idle
         /\ param' = param \/ param' = [param EXCEPT ![s] = c]
         /\ \A k \in Chan : rx_channels'[k].busy => rx_channels[k].busy
    BY <2>3
  <2>11. QED BY <1>2, <2>6, <2>7, <2>8, <2>9, <2>10, FillElse
<1>6. QED BY <1>4, <1>5

(* A stream that takes a free channel keeps it.                            *)
LEMMA NewKeeps ==
  ASSUME NEW c \in Conn, NEW s, NEW type \in Receiver, NEW ch \in Chan, NEW rx,
         Created(c, s, None, type, ch, rx)
  PROVE  Keeps(c, ch)'
<1>1. /\ conns'[c].valid /\ conns'[c].type = type /\ conns'[c].other = None
      /\ conns'[c].rx_channel = ch /\ at'[c] \in {"setup", "run"}
  BY DEF Created, Taken
<1>2. Uses(c, ch)' /\ at'[c] \notin Leaving
  BY <1>1 DEF Uses, Receiver, Leaving
<1>3. conn_other(c, OtherType(conns[c].type))' = {}
  BY <1>1 DEF conn_other
<1>4. QED BY <1>2, <1>3 DEF Keeps

(* A first stream gets a channel nobody uses.                              *)
LEMMA AloneOrder ==
  ASSUME RxInv, SlotsKept', NEW c \in Conn, ~conns[c].valid, NEW s \in Socket,
         NEW ch \in Chan, ~rx_channels[ch].busy, NEW rx, s[2] \in Receiver,
         Created(c, s, None, s[2], ch, rx),
         rx[ch].busy, rx[ch].conn = c, ~rx[ch].chan_enabled,
         \A k \in Chan \ {ch} : rx[k] = rx_channels[k],
         \A d \in Conn \ {c} : conns'[d] = conns[d],
         \A cl, type : Spent(cl, type) => Spent(cl, type)',
         orderly' => orderly
  PROVE  OrderKept'
<1> SUFFICES ASSUME orderly' PROVE
      /\ \A d \in Conn : Receives(d)' => ReceiverKept(d)'
      /\ \A k \in Chan : rx_channels'[k].chan_enabled =>
           \E d \in Conn : Uses(d, k)' /\ conns'[d].type = "SND"
  BY DEF OrderKept
<1>1. /\ \A d \in Conn : Receives(d) => ReceiverKept(d)
      /\ \A k \in Chan : rx_channels[k].chan_enabled =>
           \E d \in Conn : Uses(d, k) /\ conns[d].type = "SND"
  BY DEF RxInv, OrderKept
<1>2. /\ rx_channels' = rx /\ conns'[c].type = s[2] /\ conns'[c].rx_channel = ch
      /\ conns'[c].tstamp = s[1] /\ ~conns'[c].stop_data
      /\ param' = [param EXCEPT ![s] = c]
  BY DEF Created, Taken
<1>3. ASSUME NEW d \in Conn \ {c}, NEW k
      PROVE  Uses(d, k)' <=> Uses(d, k)
  BY DEF Uses
<1>4. ASSUME NEW d \in Conn \ {c}, Receives(d)
      PROVE  conns[d].rx_channel # ch
  BY <1>1, <1>4 DEF ReceiverKept
<1>5. ReceiverKept(c)'
  <2>1. Spent(s[1], s[2])'
    <3>1. param \in [Socket -> Conn \cup {None}] /\ s = <<s[1], s[2]>> /\ c # None
      BY RxAssumption DEF RxInv, TypeOK
    <3>2. param'[s] # None
      BY <1>2, <3>1
    <3>3. QED BY <3>1, <3>2 DEF Spent
  <2>2. Spent(conns[c].tstamp, conns[c].type)'
    BY <1>2, <2>1 DEF Spent
  <2>3. ASSUME NEW d \in Conn, Uses(d, ch)', c # d PROVE FALSE
    <3>1. Uses(d, ch)
      BY <1>3, <2>3
    <3>2. QED BY <1>4, <2>3, <3>1, UsesReceives
  <2>4. QED BY <1>2, <2>2, <2>3 DEF ReceiverKept
<1>6. ASSUME NEW d \in Conn, Receives(d)' PROVE ReceiverKept(d)'
  <2>1. CASE d = c
    BY <1>5, <2>1
  <2>2. CASE d # c
    <3>1. conns'[d] = conns[d] /\ Receives(d) /\ ReceiverKept(d)
      BY <1>1, <1>6, <2>2 DEF Receives
    <3>2. conns[d].rx_channel # ch
      BY <1>4, <2>2, <3>1
    <3>3. /\ conns'[d].rx_channel \in Chan
          /\ rx_channels'[conns'[d].rx_channel].busy
          /\ conns'[d].type = "SND" => rx_channels'[conns'[d].rx_channel].conn = d
      BY <1>2, <3>1, <3>2 DEF ReceiverKept
    <3>4. PICK t, u : t = conns[d].tstamp /\ u = conns[d].type
      OBVIOUS
    <3>5. /\ Spent(t, u)'
          /\ conns[d].stop_data => Spent(t, OtherType(u))'
      BY <3>1, <3>4 DEF ReceiverKept
    <3>6. /\ Spent(conns[d].tstamp, conns[d].type)'
          /\ conns'[d].stop_data => Spent(conns[d].tstamp, OtherType(conns[d].type))'
      BY <3>1, <3>4, <3>5 DEF Spent, OtherType
    <3>7. ASSUME NEW e \in Conn, Uses(e, conns[d].rx_channel)', d # e
          PROVE  Partnership(d, e)'
      <4>1. e # c
        BY <1>2, <3>1, <3>2, <3>7 DEF Uses
      <4>2. Uses(e, conns[d].rx_channel) /\ conns'[e] = conns[e]
        BY <3>1, <3>7, <4>1 DEF Uses
      <4>3. Partnership(d, e)
        BY <3>1, <3>7, <4>2 DEF ReceiverKept
      <4>4. QED BY <3>1, <4>2, <4>3 DEF Partnership
    <3>8. QED BY <3>3, <3>6, <3>7 DEF ReceiverKept
  <2>3. QED BY <2>1, <2>2
<1>7. ASSUME NEW k \in Chan, rx_channels'[k].chan_enabled
      PROVE  \E d \in Conn : Uses(d, k)' /\ conns'[d].type = "SND"
  <2>1. rx_channels[k].chan_enabled
    BY <1>2, <1>7
  <2>2. PICK d \in Conn : Uses(d, k) /\ conns[d].type = "SND"
    BY <1>1, <2>1
  <2>3. d # c
    BY <2>2 DEF Uses
  <2>4. QED BY <1>3, <2>2, <2>3
<1>8. QED BY <1>6, <1>7

LEMMA AllocAloneStep ==
  ASSUME RxInv, NEW w, Seeks(w), w.cfree # None, w.sock[2] \in Receiver,
         AllocAlone(w, w.cfree, w.sock)
  PROVE  RxInv'
<1>1. PICK c \in Conn, s \in Socket : c = w.cfree /\ s = w.sock
  BY DEF Seeks, WebType
<1>2. ~conns[c].valid /\ socket[s] = "open" /\ param[s] = None
  BY <1>1 DEF Seeks
<1>3. CASE FreeChans = {}
  <2>1. \/ Create(c, s, Filled(s, None, "MON", -1), conns, rx_channels)
        \/ Refuse(c)
    BY <1>1, <1>3 DEF AllocAlone
  <2>2. CASE Refuse(c)
    BY <1>2, <2>2, RefuseStep
  <2>3. CASE Create(c, s, Filled(s, None, "MON", -1), conns, rx_channels)
    <3>1. PICK type \in Stream \cup {"MON"} : type = "MON" /\ type \notin Receiver
      BY DEF Receiver
    <3>2. PICK o \in Conn \cup {None}, ch \in Chan \cup {-1} : o = None /\ ch = -1
      OBVIOUS
    <3>3. type = "EXT" => ch \in Chan
      BY <3>1
    <3>4. Create(c, s, Filled(s, o, type, ch), conns, rx_channels)
      BY <2>3, <3>1, <3>2
    <3>5. QED BY <1>2, <3>1, <3>3, <3>4, CreateAside
  <2>4. QED BY <2>1, <2>2, <2>3
<1>4. CASE FreeChans # {}
  <2>1. PICK ch \in Chan : ch = LowestOf(FreeChans) /\ ~rx_channels[ch].busy
    <3>1. FreeChans \in SUBSET Nat
      BY RxAssumption DEF FreeChans, Chan
    <3>2. LowestOf(FreeChans) \in FreeChans
      BY <1>4, <3>1, LowestExists
    <3>3. QED BY <3>2 DEF FreeChans
  <2>2. PICK r : r = [NewChan EXCEPT !.busy = TRUE, !.conn = c]
    OBVIOUS
  <2>3. r \in ChanType /\ r.busy = TRUE /\ r.conn = c /\ r.chan_enabled = FALSE
    <3>1. ASSUME NEW q \in ChanType, NEW p, p = [q EXCEPT !.busy = TRUE, !.conn = c]
          PROVE  /\ p \in ChanType /\ p.busy = TRUE /\ p.conn = c
                 /\ p.chan_enabled = q.chan_enabled
      BY <3>1 DEF ChanType
    <3>2. NewChan \in ChanType /\ NewChan.chan_enabled = FALSE
      BY NewTypes DEF NewChan
    <3>3. QED BY <2>2, <3>1, <3>2
  <2>4. PICK rx : rx = StoreIn(ch, r)
    OBVIOUS
  <2>5. /\ rx \in [Chan -> ChanType]
        /\ \A k \in Chan : rx[k] = IF k = ch THEN r ELSE rx_channels[k]
    BY <2>3, <2>4, StoreInChan DEF RxInv
  <2>6. PICK conn : conn = Filled(s, None, s[2], ch)
    OBVIOUS
  <2>7. PICK type \in Stream \cup {"MON"} : type = s[2] /\ type \in Receiver
    BY <1>1 DEF Receiver, Stream
  <2>8. IsFilled(conn, s, None, type, ch)
    BY <2>6, <2>7, FilledType
  <2>9. PICK cs : cs = conns
    OBVIOUS
  <2>10. Create(c, s, conn, cs, rx)
    BY <1>1, <1>4, <2>1, <2>2, <2>4, <2>6, <2>9 DEF AllocAlone
  <2>11. /\ TypeOK' /\ web' = Idle /\ UNCHANGED <<ext_users, socket>>
         /\ orderly' => orderly
         /\ \A d \in Conn \ {c} : conns'[d] = cs[d] /\ at'[d] = at[d]
         /\ param' = param \/ param' = [param EXCEPT ![s] = c]
         /\ Created(c, s, None, type, ch, rx) \/ NotCreated(c, ch, rx)
    <3>1. cs \in [Conn -> ConnType]
      BY <2>9 DEF RxInv, TypeOK, ConnType
    <3>2. type = "EXT" => ch \in Chan
      BY <2>1
    <3>3. QED BY <1>2, <2>5, <2>8, <2>10, <3>1, <3>2, CreateFacts
  <2>12. /\ \A d \in Conn \ {c} : Joins(conns'[d], conns[d], c) /\ at'[d] = at[d]
         /\ \A d \in Conn \ {c} : conns'[d] = conns[d]
    BY <2>9, <2>11 DEF Joins
  <2>13. Taken(c, s) \/ Blank(c)
    BY <2>11 DEF Created, NotCreated
  <2>14. CASE NotCreated(c, ch, rx)
    <3>1. \A k \in Chan : rx_channels'[k].busy => rx_channels[k].busy
      BY <2>5, <2>14 DEF NotCreated, NewChan
    <3>2. ~orderly'
      BY <2>14 DEF NotCreated
    <3>3. QED BY <1>2, <2>11, <2>12, <2>13, <3>1, <3>2, FillElse
  <2>15. CASE Created(c, s, None, type, ch, rx)
    <3>1. Keeps(c, ch)' /\ rx_channels' = rx
      BY <2>7, <2>15, NewKeeps DEF Created
    <3>2. ASSUME NEW k \in Chan, rx_channels'[k].busy
          PROVE  rx_channels[k].busy \/ Keeps(c, k)'
      BY <2>5, <3>1, <3>2
    <3>3. /\ SearchValid' /\ SlotsKept' /\ OneInSpi' /\ SocketServesOne'
          /\ ExtUserIsExt' /\ BusyIsKept'
          /\ \A cl, ty : Spent(cl, ty) => Spent(cl, ty)'
      BY <1>2, <2>11, <2>12, <2>13, <3>2, FillFacts
    <3>4. Created(c, s, None, s[2], ch, rx) /\ s[2] \in Receiver
      BY <2>7, <2>15
    <3>5. /\ rx[ch].busy /\ rx[ch].conn = c /\ ~rx[ch].chan_enabled
          /\ \A k \in Chan \ {ch} : rx[k] = rx_channels[k]
      BY <2>3, <2>5
    <3>6. OrderKept'
      BY <1>2, <2>1, <2>11, <2>12, <3>3, <3>4, <3>5, AloneOrder
    <3>7. QED BY <2>11, <3>3, <3>6 DEF RxInv
  <2>16. QED BY <2>11, <2>14, <2>15
<1>5. QED BY <1>3, <1>4

(* The socket s gets the free slot c and the channel ch of its client's    *)
(* other stream o, whose array of channels becomes rx.                     *)
JoinsPartner(c, s, o, ch, rx) ==
  /\ c \in Conn /\ ~conns[c].valid
  /\ s \in Socket /\ socket[s] = "open" /\ param[s] = None /\ s[2] \in Receiver
  /\ o \in Conn /\ conns[o].valid /\ conns[o].tstamp = s[1]
  /\ conns[o].type = OtherType(s[2])
  /\ \A d \in Conn : conns[d].valid /\ conns[d].tstamp = s[1] => conns[d].type # s[2]
  /\ ch \in Chan /\ ch = conns[o].rx_channel
  /\ Created(c, s, o, s[2], ch, rx)
  /\ \A k \in Chan : /\ rx[k].busy <=> rx_channels[k].busy
                     /\ rx[k].chan_enabled <=> rx_channels[k].chan_enabled
                     /\ k # ch => rx[k].conn = rx_channels[k].conn
  /\ rx[ch].conn = IF s[2] = "SND" \/ rx_channels[ch].conn = None
                   THEN c ELSE rx_channels[ch].conn
  /\ \A d \in Conn \ {c, o} : conns'[d] = conns[d]
  /\ Joins(conns'[o], conns[o], c) /\ conns'[o].other = c
  /\ \A cl, type : Spent(cl, type) => Spent(cl, type)'

(* The same of the stream that shares the channel of the only other one of *)
(* its client.                                                             *)
LEMMA SharedOrder ==
  ASSUME RxInv, SlotsKept', orderly, NEW c, NEW s, NEW o, NEW ch, NEW rx,
         JoinsPartner(c, s, o, ch, rx)
  PROVE  OrderKept'
<1>a. /\ c \in Conn /\ ~conns[c].valid
      /\ s \in Socket /\ socket[s] = "open" /\ param[s] = None /\ s[2] \in Receiver
      /\ o \in Conn /\ conns[o].valid /\ conns[o].tstamp = s[1]
      /\ conns[o].type = OtherType(s[2])
      /\ \A d \in Conn : conns[d].valid /\ conns[d].tstamp = s[1] => conns[d].type # s[2]
      /\ ch \in Chan /\ ch = conns[o].rx_channel
  BY DEF JoinsPartner
<1>b. /\ Created(c, s, o, s[2], ch, rx)
      /\ \A k \in Chan : /\ rx[k].busy <=> rx_channels[k].busy
                         /\ rx[k].chan_enabled <=> rx_channels[k].chan_enabled
                         /\ k # ch => rx[k].conn = rx_channels[k].conn
      /\ rx[ch].conn = IF s[2] = "SND" \/ rx_channels[ch].conn = None
                       THEN c ELSE rx_channels[ch].conn
      /\ \A d \in Conn \ {c, o} : conns'[d] = conns[d]
      /\ Joins(conns'[o], conns[o], c) /\ conns'[o].other = c
      /\ \A cl, type : Spent(cl, type) => Spent(cl, type)'
  BY DEF JoinsPartner
<1> USE <1>a, <1>b
<1> SUFFICES ASSUME orderly' PROVE
      /\ \A d \in Conn : Receives(d)' => ReceiverKept(d)'
      /\ \A k \in Chan : rx_channels'[k].chan_enabled =>
           \E d \in Conn : Uses(d, k)' /\ conns'[d].type = "SND"
  BY DEF OrderKept
<1>1. /\ \A d \in Conn : Receives(d) => ReceiverKept(d)
      /\ \A k \in Chan : rx_channels[k].chan_enabled =>
           \E d \in Conn : Uses(d, k) /\ conns[d].type = "SND"
  BY DEF RxInv, OrderKept
<1>2. /\ rx_channels' = rx /\ conns'[c].type = s[2] /\ conns'[c].rx_channel = ch
      /\ conns'[c].tstamp = s[1] /\ ~conns'[c].stop_data /\ conns'[c].other = o
      /\ param' = [param EXCEPT ![s] = c]
  BY DEF Created, Taken
<1>3. /\ conns'[o].valid /\ conns'[o].type = conns[o].type
      /\ conns'[o].rx_channel = ch /\ conns'[o].tstamp = s[1]
      /\ conns'[o].stop_data <=> conns[o].stop_data
      /\ o # c
  BY DEF Joins
<1>4. param \in [Socket -> Conn \cup {None}] /\ s = <<s[1], s[2]>>
      /\ None \notin Conn
  BY RxAssumption DEF RxInv, TypeOK
<1>5. Receives(o) /\ ReceiverKept(o)
  BY <1>1 DEF Receives, OtherType, Receiver
<1>6. OtherType(conns[o].type) = s[2] /\ conns[o].type # s[2]
  BY DEF OtherType, Receiver
<1>7. ~conns[o].stop_data
  <2>1. SUFFICES ASSUME conns[o].stop_data PROVE FALSE
    OBVIOUS
  <2>2. Spent(s[1], s[2])
    BY <1>5, <1>6, <2>1 DEF ReceiverKept
  <2>3. QED BY <1>4, <2>2 DEF Spent
<1>8. ASSUME NEW d \in Conn, Uses(d, ch), d # o PROVE FALSE
  <2>1. Partnership(o, d)
    BY <1>5, <1>8 DEF ReceiverKept
  <2>2. conns[d].valid /\ conns[d].tstamp = s[1] /\ conns[d].type = s[2]
    BY <1>8, <2>1 DEF Partnership, Uses, OtherType, Receiver
  <2>3. QED BY <2>2
<1>9. ASSUME NEW d \in Conn \ {c}, NEW k
      PROVE  Uses(d, k)' <=> Uses(d, k)
  <2>1. conns'[d].valid = conns[d].valid /\ conns'[d].type = conns[d].type
        /\ conns'[d].rx_channel = conns[d].rx_channel
    BY DEF Joins
  <2>2. QED BY <2>1 DEF Uses
<1>10. Spent(s[1], s[2])'
  <2>1. param'[s] # None
    BY <1>2, <1>4
  <2>2. QED BY <1>4, <2>1 DEF Spent
<1>11. ReceiverKept(c)'
  <2>1. Spent(conns[c].tstamp, conns[c].type)'
    BY <1>2, <1>10 DEF Spent
  <2>2. rx_channels[ch].busy
    BY <1>5 DEF ReceiverKept
  <2>3. ASSUME NEW d \in Conn, Uses(d, ch)', c # d PROVE Partnership(c, d)'
    <3>1. d = o
      BY <1>8, <1>9, <2>3
    <3>2. QED BY <1>2, <1>3, <1>6, <3>1 DEF Partnership
  <2>4. conns'[c].type = "SND" => rx_channels'[ch].conn = c
    BY <1>2
  <2>5. QED BY <1>2, <2>1, <2>2, <2>3, <2>4 DEF ReceiverKept
<1>12. ReceiverKept(o)'
  <2>1. PICK t, u : t = conns[o].tstamp /\ u = conns[o].type
    OBVIOUS
  <2>2. Spent(t, u)'
    BY <1>5, <2>1 DEF ReceiverKept
  <2>3. Spent(conns[o].tstamp, conns[o].type)'
    BY <1>3, <2>1, <2>2 DEF Spent
  <2>4. rx_channels[ch].busy /\ (conns[o].type = "SND" => rx_channels[ch].conn = o)
    BY <1>5 DEF ReceiverKept
  <2>5. conns'[o].type = "SND" => rx_channels'[ch].conn = o
    BY <1>2, <1>3, <1>4, <1>6, <2>4
  <2>6. ASSUME NEW d \in Conn, Uses(d, ch)', o # d PROVE Partnership(o, d)'
    <3>1. d = c
      BY <1>8, <1>9, <2>6
    <3>2. QED BY <1>2, <1>3, <1>6, <1>7, <3>1 DEF Partnership
  <2>7. QED BY <1>2, <1>3, <1>7, <2>3, <2>4, <2>5, <2>6 DEF ReceiverKept
<1>13. ASSUME NEW d \in Conn, Receives(d)', d # c, d # o PROVE ReceiverKept(d)'
  <2>1. conns'[d] = conns[d] /\ Receives(d) /\ ReceiverKept(d)
    BY <1>1, <1>13 DEF Receives
  <2>2. conns[d].rx_channel # ch
    BY <1>8, <1>13, <2>1, UsesReceives
  <2>3. /\ conns'[d].rx_channel \in Chan
        /\ rx_channels'[conns'[d].rx_channel].busy
        /\ conns'[d].type = "SND" => rx_channels'[conns'[d].rx_channel].conn = d
    <3>1. PICK k \in Chan : /\ k = conns[d].rx_channel /\ k # ch
                            /\ rx_channels[k].busy
                            /\ conns[d].type = "SND" => rx_channels[k].conn = d
      BY <2>1, <2>2 DEF ReceiverKept
    <3>2. rx_channels'[k].busy /\ rx_channels'[k].conn = rx_channels[k].conn
      BY <1>2, <3>1
    <3>3. QED BY <2>1, <3>1, <3>2
  <2>4. PICK t, u : t = conns[d].tstamp /\ u = conns[d].type
    OBVIOUS
  <2>5. /\ Spent(t, u)'
        /\ conns[d].stop_data => Spent(t, OtherType(u))'
    BY <2>1, <2>4 DEF ReceiverKept
  <2>6. /\ Spent(conns[d].tstamp, conns[d].type)'
        /\ conns'[d].stop_data => Spent(conns[d].tstamp, OtherType(conns[d].type))'
    <3>1. /\ conns'[d].tstamp = t /\ conns'[d].type = u
          /\ conns'[d].stop_data = conns[d].stop_data
      BY <2>1, <2>4
    <3>2. Spent(conns[d].tstamp, conns[d].type)'
      BY <2>5, <3>1 DEF Spent
    <3>3. PICK v : v = OtherType(u)
      OBVIOUS
    <3>4. OtherType(conns[d].type)' = v
      BY <3>1, <3>3 DEF OtherType
    <3>5. conns'[d].stop_data => Spent(t, v)'
      BY <2>5, <3>1, <3>3
    <3>6. conns'[d].stop_data => Spent(conns[d].tstamp, OtherType(conns[d].type))'
      BY <3>1, <3>4, <3>5 DEF Spent
    <3>7. QED BY <3>2, <3>6
  <2>7. ASSUME NEW e \in Conn, Uses(e, conns[d].rx_channel)', d # e
        PROVE  Partnership(d, e)'
    <3>1. e # c
      BY <1>2, <2>1, <2>2, <2>7 DEF Uses
    <3>2. Uses(e, conns[d].rx_channel)
      BY <1>9, <2>1, <2>7, <3>1 DEF Uses, Joins
    <3>3. e # o
      BY <2>2, <3>2 DEF Uses
    <3>4. Partnership(d, e)
      BY <2>1, <2>7, <3>2 DEF ReceiverKept
    <3>5. QED BY <2>1, <3>1, <3>3, <3>4 DEF Partnership
  <2>8. QED BY <2>3, <2>6, <2>7 DEF ReceiverKept
<1>14. ASSUME NEW k \in Chan, rx_channels'[k].chan_enabled
       PROVE  \E d \in Conn : Uses(d, k)' /\ conns'[d].type = "SND"
  <2>1. rx_channels[k].chan_enabled
    BY <1>2, <1>14
  <2>2. PICK d \in Conn : Uses(d, k) /\ conns[d].type = "SND"
    BY <1>1, <2>1
  <2>3. d # c /\ conns'[d].type = conns[d].type
    BY <2>2 DEF Uses, Joins
  <2>4. QED BY <1>9, <2>2, <2>3
<1>15. QED BY <1>11, <1>12, <1>13, <1>14

LEMMA AllocSharedStep ==
  ASSUME RxInv, NEW w, Seeks(w), w.cfree # None, w.sock[2] \in Receiver,
         w.cother # None,
         orderly => /\ conns[w.cother].valid
                    /\ conns[w.cother].tstamp = w.sock[1]
                    /\ conns[w.cother].type \in Partners(w.sock[2])
                    /\ \A d \in Conn : conns[d].valid /\ conns[d].tstamp = w.sock[1]
                                         => conns[d].type # w.sock[2],
         AllocShared(w, w.cfree, w.sock)
  PROVE  RxInv'
<1>1. PICK c \in Conn, s \in Socket, o \in Conn :
        c = w.cfree /\ s = w.sock /\ o = w.cother
  BY DEF Seeks, WebType
<1>2. ~conns[c].valid /\ socket[s] = "open" /\ param[s] = None
  BY <1>1 DEF Seeks
<1>3. /\ conns \in [Conn -> ConnType] /\ rx_channels \in [Chan -> ChanType]
      /\ -1 \notin Chan
  BY RxAssumption DEF RxInv, TypeOK, ConnType, ChanType, Chan
<1>4. CASE conns[o].type = "MON"
  <2>1. Refuse(c)
    BY <1>1, <1>4 DEF AllocShared
  <2>2. QED BY <1>2, <2>1, RefuseStep
<1>5. CASE conns[o].type # "MON"
  <2>1. PICK ch \in Chan \cup {-1} : ch = conns[o].rx_channel
    BY DEF RxInv, TypeOK
  <2>2. PICK rx : rx = IF ch = -1 THEN rx_channels
                       ELSE StoreIn(ch, [rx_channels[ch] EXCEPT !.conn =
                              IF s[2] = "SND" \/ @ = None THEN c ELSE @])
    OBVIOUS
  <2>3. /\ rx \in [Chan -> ChanType]
        /\ \A k \in Chan : /\ rx[k].busy <=> rx_channels[k].busy
                           /\ rx[k].chan_enabled <=> rx_channels[k].chan_enabled
                           /\ k # ch => rx[k].conn = rx_channels[k].conn
        /\ ch \in Chan => rx[ch].conn = IF s[2] = "SND" \/ rx_channels[ch].conn = None
                                        THEN c ELSE rx_channels[ch].conn
    <3>1. CASE ch = -1
      BY <1>3, <2>2, <3>1
    <3>2. CASE ch \in Chan
      <4>1. PICK n : n = IF s[2] = "SND" \/ rx_channels[ch].conn = None
                         THEN c ELSE rx_channels[ch].conn
        OBVIOUS
      <4>2. PICK r : r = [rx_channels[ch] EXCEPT !.conn = n]
        OBVIOUS
      <4>3. rx_channels[ch] \in ChanType /\ n \in Conn \cup {None}
        BY <1>3, <3>2, <4>1 DEF ChanType
      <4>4. /\ r \in ChanType /\ r.busy = rx_channels[ch].busy
            /\ r.chan_enabled = rx_channels[ch].chan_enabled /\ r.conn = n
        BY <4>2, <4>3 DEF ChanType
      <4>5. rx = StoreIn(ch, r)
        BY <1>3, <2>2, <3>2, <4>1, <4>2
      <4>6. /\ rx \in [Chan -> ChanType]
            /\ \A k \in Chan : rx[k] = IF k = ch THEN r ELSE rx_channels[k]
        BY <3>2, <4>4, <4>5, StoreInChan DEF RxInv
      <4>7. QED BY <3>2, <4>1, <4>4, <4>6
    <3>3. QED BY <3>1, <3>2
  <2>4. PICK q : q = [conns[o] EXCEPT !.other = c]
    OBVIOUS
  <2>5. q \in ConnType /\ Joins(q, conns[o], c) /\ q.other = c
    <3>1. conns[o] \in ConnType
      BY <1>3
    <3>2. QED BY <2>4, <3>1 DEF ConnType, Joins
  <2>6. PICK cs : cs = [conns EXCEPT ![o] = q]
    OBVIOUS
  <2>7. /\ cs \in [Conn -> ConnType]
        /\ \A d \in Conn : cs[d] = IF d = o THEN q ELSE conns[d]
    BY <1>3, <2>5, <2>6
  <2>8. PICK conn : conn = Filled(s, o, s[2], ch)
    OBVIOUS
  <2>9. PICK type \in Stream \cup {"MON"} :
          type = s[2] /\ type \in Receiver /\ type # "EXT"
    BY <1>1 DEF Receiver, Stream
  <2>10. IsFilled(conn, s, o, type, ch)
    BY <2>8, <2>9, FilledType
  <2>11. Create(c, s, conn, cs, rx)
    <3>1. cs = [conns EXCEPT ![o].other = c]
      BY <2>4, <2>6
    <3>2. QED BY <1>1, <1>5, <2>1, <2>2, <2>8, <3>1 DEF AllocShared
  <2>12. /\ TypeOK' /\ web' = Idle /\ UNCHANGED <<ext_users, socket>>
         /\ orderly' => orderly
         /\ \A d \in Conn \ {c} : conns'[d] = cs[d] /\ at'[d] = at[d]
         /\ param' = param \/ param' = [param EXCEPT ![s] = c]
         /\ Created(c, s, o, type, ch, rx) \/ NotCreated(c, ch, rx)
    <3>1. rx \in [Chan -> ChanType] /\ cs \in [Conn -> ConnType]
      BY <2>3, <2>7
    <3>2. type = "EXT" => ch \in Chan
      BY <2>9
    <3>3. QED BY <1>2, <2>10, <2>11, <3>1, <3>2, CreateFacts
  <2>13. \A d \in Conn \ {c} : Joins(conns'[d], conns[d], c) /\ at'[d] = at[d]
    <3>1. ASSUME NEW d \in Conn \ {c} PROVE Joins(conns'[d], conns[d], c)
      <4>1. CASE d = o
        BY <2>5, <2>7, <2>12, <4>1
      <4>2. CASE d # o
        <5>1. conns'[d] = conns[d]
          BY <2>7, <2>12, <4>2
        <5>2. QED BY <5>1 DEF Joins
      <4>3. QED BY <4>1, <4>2
    <3>2. QED BY <2>12, <3>1
  <2>14. Taken(c, s) \/ Blank(c)
    BY <2>12 DEF Created, NotCreated
  <2>15. \A k \in Chan : rx_channels'[k].busy => rx_channels[k].busy
    <3>1. CASE Created(c, s, o, type, ch, rx)
      BY <2>3, <3>1 DEF Created
    <3>2. CASE NotCreated(c, ch, rx)
      BY <2>3, <3>2 DEF NotCreated, NewChan
    <3>3. QED BY <2>12, <3>1, <3>2
  <2>16. CASE ~orderly'
    BY <1>2, <2>12, <2>13, <2>14, <2>15, <2>16, FillElse
  <2>17. CASE orderly'
    <3>1. /\ SearchValid' /\ SlotsKept' /\ OneInSpi' /\ SocketServesOne'
          /\ ExtUserIsExt' /\ BusyIsKept'
          /\ \A cl, ty : Spent(cl, ty) => Spent(cl, ty)'
      BY <1>2, <2>12, <2>13, <2>14, <2>15, FillFacts
    <3>2. orderly /\ Created(c, s, o, type, ch, rx)
      BY <2>12, <2>17 DEF NotCreated
    <3>3. /\ conns[o].valid /\ conns[o].tstamp = s[1]
          /\ conns[o].type \in Partners(s[2])
          /\ \A d \in Conn : conns[d].valid /\ conns[d].tstamp = s[1]
                               => conns[d].type # s[2]
      BY <1>1, <3>2
    <3>4. conns[o].type = OtherType(s[2]) /\ Receives(o) /\ s[2] \in Receiver
      BY <1>5, <2>9, <3>3 DEF Partners, OtherType, Receiver, Receives
    <3>5. ch \in Chan
      BY <2>1, <3>2, <3>4 DEF RxInv, OrderKept, ReceiverKept
    <3>6. Created(c, s, o, s[2], ch, rx)
      BY <2>9, <3>2
    <3>7. o # c
      BY <1>2, <3>3
    <3>8. /\ \A d \in Conn \ {c, o} : conns'[d] = conns[d]
          /\ Joins(conns'[o], conns[o], c) /\ conns'[o].other = c
      BY <2>5, <2>7, <2>12, <2>13, <3>7
    <3>9. /\ o \in Conn /\ ch = conns[o].rx_channel /\ SlotsKept'
          /\ \A cl, ty : Spent(cl, ty) => Spent(cl, ty)'
      BY <2>1, <3>1
    <3>10. /\ \A k \in Chan : /\ rx[k].busy <=> rx_channels[k].busy
                              /\ rx[k].chan_enabled <=> rx_channels[k].chan_enabled
                              /\ k # ch => rx[k].conn = rx_channels[k].conn
           /\ rx[ch].conn = IF s[2] = "SND" \/ rx_channels[ch].conn = None
                            THEN c ELSE rx_channels[ch].conn
      BY <2>3, <3>5
    <3>11. OrderKept'
      <4>1. JoinsPartner(c, s, o, ch, rx)
        BY <1>2, <3>3, <3>4, <3>5, <3>6, <3>8, <3>9, <3>10 DEF JoinsPartner
      <4>2. RxInv /\ SlotsKept' /\ orderly
        BY <3>2, <3>9
      <4>3. QED BY <4>1, <4>2, SharedOrder
    <3>12. QED BY <2>12, <3>1, <3>11 DEF RxInv
  <2>18. QED BY <2>16, <2>17
<1>6. QED BY <1>4, <1>5

LEMMA ContinueStep ==
  ASSUME RxInv, NEW w, Searches(w), web.pc # "freed", Continue(w)
  PROVE  RxInv'
<1>1. PICK f : f = Search(w)
  OBVIOUS
<1>2. PICK s \in Socket : s = w.sock
  BY DEF Searches, Seeks
<1>3. socket[s] = "open" /\ param[s] = None
  BY <1>2 DEF Searches, Seeks
<1>4. Seeks(f) /\ f.sock = s
  BY <1>1, <1>2, SearchFacts DEF RxInv, Searches, Seeks
<1>5. CASE Refuse(None)
  <2>1. PICK c \in Conn \cup {None} : c = None
    OBVIOUS
  <2>2. QED BY <1>3, <1>5, <2>1, RefuseStep
<1>6. CASE ToCull(w) # None /\ Cull(f, ToCull(w))
  BY <1>1, <1>6, CullStep
<1>7. CASE ToCull(w) = None /\ f.cfree # None /\ ~Rejected(w)
  <2>1. CASE s[2] = "EXT"
    <3>1. AllocExt(f, f.cfree, f.sock)
      BY <1>1, <1>2, <1>4, <1>7, <2>1 DEF Continue
    <3>2. QED BY <1>4, <1>7, <2>1, <3>1, AllocExtStep
  <2>2. CASE s[2] # "EXT" /\ f.cother = None
    <3>1. AllocAlone(f, f.cfree, f.sock)
      BY <1>1, <1>2, <1>4, <1>7, <2>2 DEF Continue
    <3>2. f.sock[2] \in Receiver
      BY <1>4, <2>2, RxAssumption DEF Stream, Receiver
    <3>3. QED BY <1>4, <1>7, <3>1, <3>2, AllocAloneStep
  <2>3. CASE s[2] # "EXT" /\ f.cother # None
    <3>1. AllocShared(f, f.cfree, f.sock)
      BY <1>1, <1>2, <1>4, <1>7, <2>3 DEF Continue
    <3>2. s[2] \in Receiver
      BY <2>3, RxAssumption DEF Stream, Receiver
    <3>3. ASSUME orderly
          PROVE  /\ conns[f.cother].valid
                 /\ conns[f.cother].tstamp = s[1]
                 /\ conns[f.cother].type \in Partners(s[2])
                 /\ \A d \in Conn : conns[d].valid /\ conns[d].tstamp = s[1]
                                      => conns[d].type # s[2]
      <4>1. Passed(w) = Conn /\ w.cother = None
        BY <1>7, <3>3, SearchFacts DEF RxInv, Searches
      <4>2. f.cother \in Others(w)
        BY <1>1, <2>3, SearchFacts, LowestType DEF RxInv
      <4>3. f.cother \in SameClient(w) /\ conns[f.cother].type \in Partners(s[2])
        BY <1>2, <4>1, <4>2 DEF Others
      <4>4. SameClient(w) = {d \in Conn : conns[d].valid /\ conns[d].tstamp = s[1]}
        BY <1>2, <4>1 DEF SameClient
      <4>5. \A d \in SameClient(w) : conns[d].type # s[2]
        BY <1>2, <1>7 DEF Rejected
      <4>6. QED BY <4>3, <4>4, <4>5
    <3>4. QED BY <1>4, <1>7, <2>3, <3>1, <3>2, <3>3, AllocSharedStep
  <2>4. QED BY <2>1, <2>2, <2>3
<1>8. QED BY <1>1, <1>5, <1>6, <1>7 DEF Continue

LEMMA MessageStep ==
  ASSUME RxInv, NEW s \in Socket, Message(s)
  PROVE  RxInv'
<1>1. /\ web.pc = "idle" /\ socket[s] = "open" /\ param[s] = None
  BY DEF Message
<1>2. PICK w : w = [Idle EXCEPT !.sock = s]
  OBVIOUS
<1>3. Continue(w)
  BY <1>2 DEF Message
<1>4. Searches(w)
  <2>1. ASSUME NEW n \in WebType, NEW q, q = [n EXCEPT !.sock = s]
        PROVE  /\ q \in WebType /\ q.sock = s /\ q.i = n.i /\ q.cfree = n.cfree
               /\ q.cother = n.cother /\ q.mon_total = n.mon_total
    BY <2>1 DEF WebType
  <2>2. /\ Idle \in WebType /\ Idle.i = 1 /\ Idle.cfree = None
        /\ Idle.cother = None /\ Idle.mon_total = 0
    BY NewTypes DEF Idle
  <2>3. /\ w \in WebType /\ w.sock = s /\ w.i = 1 /\ w.cfree = None
        /\ w.cother = None /\ w.mon_total = 0
    BY <1>2, <2>1, <2>2
  <2>4. w.mon_total < w.i
    BY <2>3
  <2>5. QED BY <1>1, <2>3, <2>4 DEF Searches, Seeks
<1>5. QED BY <1>1, <1>3, <1>4, ContinueStep

LEMMA SearchOnStep ==
  ASSUME RxInv, SearchOn
  PROVE  RxInv'
<1>1. web.pc = "removed"
  BY DEF SearchOn
<1>2. PICK w : w = web
  OBVIOUS
<1>3. Continue(w)
  BY <1>2 DEF SearchOn
<1>4. Searches(w)
  BY <1>1, <1>2 DEF RxInv, TypeOK, SearchValid, Searches, Seeks, WebType
<1>5. QED BY <1>1, <1>3, <1>4, ContinueStep
---------------------------------------------------------------------------
LEMMA InitialState == Init => RxInv
<1> SUFFICES ASSUME Init PROVE RxInv
  OBVIOUS
<1>1. /\ conns = [c \in Conn |-> NewConn] /\ rx_channels = [ch \in Chan |-> NewChan]
      /\ ext_users = [ch \in Chan |-> None] /\ at = [c \in Conn |-> "none"]
      /\ itask_run = FALSE /\ web = Idle /\ fatal = "none" /\ orderly = TRUE
      /\ socket = [s \in Socket |-> "new"] /\ param = [s \in Socket |-> None]
  BY DEF Init
<1>2. \A c \in Conn : /\ conns[c] = NewConn /\ at[c] = "none"
                      /\ ~conns[c].valid /\ conns[c].type = "none"
                      /\ conns[c].tstamp = None /\ conns[c].stop_data = FALSE
  BY <1>1 DEF NewConn
<1>3. TypeOK
  <2>1. /\ conns \in [Conn -> ConnType] /\ rx_channels \in [Chan -> ChanType]
        /\ web \in WebType
    BY <1>1, NewTypes
  <2>2. /\ ext_users \in [Chan -> Conn \cup {None}]
        /\ at \in [Conn -> {"none", "setup", "run"} \cup InSpi]
        /\ itask_run \in BOOLEAN /\ socket \in [Socket -> {"new", "open", "closed"}]
        /\ param \in [Socket -> Conn \cup {None}]
        /\ fatal \in {"none", "no_channel", "lock_held", "main_removed"}
        /\ orderly \in BOOLEAN
    BY <1>1
  <2>3. QED BY <2>1, <2>2 DEF TypeOK, ConnType, ChanType, WebType
<1>4. SearchValid
  BY <1>1 DEF SearchValid, Idle
<1>5. SlotsKept
  <2>1. \A c \in Conn : at[c] \notin InSpi \cup {"setup"}
    BY <1>2 DEF InSpi
  <2>2. QED BY <1>2, <2>1 DEF SlotsKept, Receiver
<1>6. OneInSpi
  BY <1>2 DEF OneInSpi, InSpi
<1>7. SocketServesOne
  BY <1>2 DEF SocketServesOne
<1>8. ExtUserIsExt
  BY <1>1 DEF ExtUserIsExt
<1>9. BusyIsKept
  BY <1>1 DEF BusyIsKept, NewChan
<1>10. OrderKept
  BY <1>1, <1>2 DEF OrderKept, Receives, NewChan
<1>11. QED BY <1>3, <1>4, <1>5, <1>6, <1>7, <1>8, <1>9, <1>10 DEF RxInv

LEMMA Step == RxInv /\ [Next]_vars => RxInv'
<1> SUFFICES ASSUME RxInv, [Next]_vars PROVE RxInv'
  OBVIOUS
<1>1. ASSUME NEW c \in Conn,
             \/ SndSetup(c) \/ SndCmdsReceived(c) \/ StopData(c)
             \/ SndEnd(c) \/ WfEnd(c) \/ MonEnd(c) \/ PumpResume(c)
             \/ ExtSwitch(c) \/ ExtBlur(c) \/ ExtEnd(c) \/ NoChannel(c)
      PROVE  RxInv'
  BY <1>1, SndSetupStep, SndCmdsReceivedStep, StopDataStep, SndEndStep, WfEndStep,
     MonEndStep, PumpResumeStep, ExtSwitchStep, ExtBlurStep, ExtEndStep, NoChannelStep
<1>2. ASSUME NEW ch \in Chan, Kick(ch) PROVE RxInv'
  BY <1>2, KickStep
<1>3. ASSUME NEW s \in Socket, Message(s) \/ Open(s) \/ Close(s) PROVE RxInv'
  BY <1>3, MessageStep, OpenStep, CloseStep
<1>4. CASE CullResume \/ SearchOn
  BY <1>4, CullResumeStep, SearchOnStep
<1>5. ASSUME NEW cl \in Client, Reload(cl) PROVE RxInv'
  BY <1>5, ReloadStep
<1>6. CASE UNCHANGED vars
  <2>1. UNCHANGED <<conns, rx_channels, ext_users, at, itask_run, socket, param,
                    web, fatal, orderly>>
    BY <1>6 DEF vars
  <2>2. TypeOK' /\ SearchValid' /\ SlotsKept' /\ OneInSpi'
    <3>1. TypeOK'
      BY <2>1 DEF RxInv, TypeOK
    <3>2. SearchValid'
      BY <2>1 DEF RxInv, SearchValid
    <3>3. SlotsKept' /\ OneInSpi'
      BY <2>1 DEF RxInv, SlotsKept, OneInSpi
    <3>4. QED BY <3>1, <3>2, <3>3
  <2>3. SocketServesOne' /\ ExtUserIsExt'
    BY <2>1 DEF RxInv, SocketServesOne, ExtUserIsExt
  <2>4. BusyIsKept' /\ OrderKept'
    <3>1. \A d \in Conn : SameReceiver(d) /\ (at'[d] \in Leaving => at[d] \in Leaving)
      BY <2>1 DEF SameReceiver, Receives
    <3>2. ASSUME NEW d \in Conn, NEW type, Spent(conns[d].tstamp, type)
          PROVE  Spent(conns[d].tstamp, type)'
      BY <2>1, <3>2 DEF Spent
    <3>3. \A k \in Chan : rx_channels'[k] = rx_channels[k]
      BY <2>1
    <3>4. QED BY <2>1, <2>2, <2>3, <3>1, <3>2, <3>3, StillStep
  <2>5. QED BY <2>2, <2>3, <2>4 DEF RxInv
<1>7. QED BY <1>1, <1>2, <1>3, <1>4, <1>5, <1>6 DEF Next

(* The channels, the connections and the websockets agree with each other  *)
(* in every state, whatever the number of each.                            *)
THEOREM RxInvariance == Spec => []RxInv
<1>1. Init => RxInv
  BY InitialState
<1>2. RxInv /\ [Next]_vars => RxInv'
  BY Step
<1>3. QED BY <1>1, <1>2, PTL DEF Spec

(* Every field of a connection, a channel and the search has its type.     *)
THEOREM TypeCorrect == Spec => []TypeOK
<1>1. RxInv => TypeOK
  BY DEF RxInv
<1>2. QED BY <1>1, RxInvariance, PTL

(* A connection is served by the one open websocket that points back to    *)
(* it.                                                                     *)
THEOREM SocketsServeOne == Spec => []SocketServesOne
<1>1. RxInv => SocketServesOne
  BY DEF RxInv
<1>2. QED BY <1>1, RxInvariance, PTL

(* ext_users[] names a connection of an extension on that channel, never a *)
(* slot that was freed or reused.                                          *)
THEOREM ExtUsersAreExt == Spec => []ExtUserIsExt
<1>1. RxInv => ExtUserIsExt
  BY DEF RxInv
<1>2. QED BY <1>1, RxInvariance, PTL

(* A busy channel has a stream that will free it, however the ends of the  *)
(* two streams cross, and whatever is culled.                              *)
THEOREM ChannelsNotLeaked == Spec => []NoLeakedChannel
<1>1. RxInv => NoLeakedChannel
  BY DEF RxInv, BusyIsKept, Keeps, NoLeakedChannel
<1>2. QED BY <1>1, RxInvariance, PTL

(* A stream's channel stays busy until the last stream that uses it ends,  *)
(* as long as nothing was culled and no fault happened.                    *)
THEOREM UsedChannelsBusy == Spec => []UsedIsBusy
<1>1. RxInv => UsedIsBusy
  <2> SUFFICES ASSUME RxInv, orderly, NEW c \in Conn,
                      conns[c].valid, conns[c].type \in {"SND", "W/F"}
               PROVE  \E ch \in Chan : Uses(c, ch) /\ rx_channels[ch].busy
    BY DEF UsedIsBusy
  <2>1. ReceiverKept(c)
    BY DEF RxInv, OrderKept, Receives, Receiver
  <2>2. QED BY <2>1 DEF ReceiverKept, Uses
<1>2. QED BY <1>1, RxInvariance, PTL

(* Two clients never share a channel, as long as nothing was culled and no *)
(* fault happened.                                                         *)
THEOREM OneClientPerChannel == Spec => []OneClient
<1>1. RxInv => OneClient
  <2> SUFFICES ASSUME RxInv, orderly, NEW ch \in Chan, NEW c \in Conn, NEW d \in Conn,
                      Uses(c, ch), Uses(d, ch)
               PROVE  conns[c].tstamp = conns[d].tstamp
    BY DEF OneClient
  <2>1. ReceiverKept(c) /\ conns[c].rx_channel = ch
    BY UsesReceives DEF RxInv, OrderKept
  <2>2. c # d => Partnership(c, d)
    BY <2>1 DEF ReceiverKept
  <2>3. QED BY <2>2 DEF Partnership
<1>2. QED BY <1>1, RxInvariance, PTL

(* The connection that data_pump() wakes for an enabled channel is a sound *)
(* connection, as long as nothing was culled and no fault happened.        *)
THEOREM WakesSoundOnly == Spec => []WakesSound
<1>1. RxInv => WakesSound
  <2> SUFFICES ASSUME RxInv, orderly, NEW ch \in Chan, rx_channels[ch].chan_enabled
               PROVE  /\ rx_channels[ch].conn # None
                      /\ conns[rx_channels[ch].conn].type = "SND"
    BY DEF WakesSound
  <2>1. PICK c \in Conn : Uses(c, ch) /\ conns[c].type = "SND"
    BY DEF RxInv, OrderKept
  <2>2. ReceiverKept(c) /\ conns[c].rx_channel = ch
    BY <2>1, UsesReceives DEF RxInv, OrderKept
  <2>3. rx_channels[ch].conn = c
    BY <2>1, <2>2 DEF ReceiverKept
  <2>4. QED BY <2>1, <2>3, RxAssumption
<1>2. QED BY <1>1, RxInvariance, PTL
---------------------------------------------------------------------------
(* The channels are leased: what a step does to the streams on them, as    *)
(* long as nothing was culled and no fault happened.                       *)
SameStream(c) ==
  /\ Receives(c)' <=> Receives(c)
  /\ Receives(c) => /\ conns'[c].type = conns[c].type
                    /\ conns'[c].rx_channel = conns[c].rx_channel
                    /\ conns'[c].tstamp = conns[c].tstamp

Comes(c) ==
  /\ ~Receives(c) /\ Receives(c)'
  /\ \A d \in Conn : Receives(d) =>
       /\ conns[d].tstamp = conns'[c].tstamp => conns[d].rx_channel = conns'[c].rx_channel
       /\ <<conns[d].tstamp, conns[d].type>> # <<conns'[c].tstamp, conns'[c].type>>

(* At most one stream comes or ends, and a new one is on the only channel  *)
(* of its client.                                                          *)
OneChanges ==
  \E c \in Conn : /\ \A d \in Conn \ {c} : SameStream(d)
                  /\ SameStream(c) \/ Comes(c) \/ (Receives(c) /\ ~Receives(c)')

(* Connections that do not change, and those that look the same.           *)
LEMMA NobodyChanges ==
  ASSUME \A c \in Conn : Like(conns'[c], conns[c])
  PROVE  OneChanges
<1>1. \A c \in Conn : SameStream(c)
  BY DEF Like, SameStream, Receives
<1>2. 1 \in Conn
  BY NewTypes
<1>3. QED BY <1>1, <1>2 DEF OneChanges

LEMMA UnchangedConns ==
  ASSUME UNCHANGED conns
  PROVE  OneChanges
  BY SameIsLike, NobodyChanges

(* A connection that ends takes at most its own stream away.               *)
LEMMA OneIsGone ==
  ASSUME NEW c \in Conn, NEW O, NEW cs, Told(cs, O),
         conns' = rx_server_remove(cs, c)
  PROVE  OneChanges
<1>1. Gone(conns', c, O)
  BY RemovedIsGone
<1>2. ASSUME NEW d \in Conn \ {c} PROVE SameStream(d)
  <2>1. Like(conns'[d], conns[d])
    BY <1>1, GoneFacts
  <2>2. QED BY <2>1 DEF Like, SameStream, Receives
<1>3. ~Receives(c)'
  BY <1>1, GoneFacts DEF Receives
<1>4. SameStream(c) \/ Receives(c)
  BY <1>3 DEF SameStream
<1>5. QED BY <1>2, <1>3, <1>4 DEF OneChanges

(* A stream ends, or is switched out in an SPI command on its way.         *)
LEMMA EndWithChanges ==
  ASSUME NEW c \in Conn, NEW O, NEW cs, Told(cs, O), NEW rx, NEW pc,
         EndWith(c, cs, rx, pc), orderly'
  PROVE  orderly /\ OneChanges
<1>1. orderly /\ conns' = rx_server_remove(cs, c)
  BY DEF EndWith, PumpDone, PumpSwitch
<1>2. QED BY <1>1, OneIsGone

LEMMA EndsChange ==
  ASSUME RxInv, NEW c \in Conn, orderly',
         StopData(c) \/ SndEnd(c) \/ WfEnd(c) \/ MonEnd(c) \/ ExtEnd(c)
  PROVE  orderly /\ OneChanges
<1> DEFINE T(O) == [d \in Conn |-> IF d \in O THEN [conns[d] EXCEPT !.stop_data = TRUE]
                                   ELSE conns[d]]
<1>1. /\ Told(conns, {})
      /\ Told(T(conn_other(c, "W/F")), conn_other(c, "W/F"))
      /\ Told(T(conn_other(c, "SND")), conn_other(c, "SND"))
  BY NobodyTold, ToldOf DEF RxInv
<1>2. CASE StopData(c)
  BY <1>1, <1>2, EndWithChanges DEF StopData
<1>3. CASE SndEnd(c)
  <2>1. \E cs \in {conns, T(conn_other(c, "W/F"))} : \E rx, pc : EndWith(c, cs, rx, pc)
    BY <1>3 DEF SndEnd
  <2>2. QED BY <1>1, <2>1, EndWithChanges
<1>4. CASE WfEnd(c)
  <2>1. \/ \E rx, pc : EndWith(c, conns, rx, pc)
        \/ /\ conns' = rx_server_remove(T(conn_other(c, "SND")), c)
           /\ UNCHANGED orderly
    BY <1>4 DEF WfEnd
  <2>2. QED BY <1>1, <2>1, EndWithChanges, OneIsGone
<1>5. CASE MonEnd(c) \/ ExtEnd(c)
  <2>1. conns' = rx_server_remove(conns, c) /\ UNCHANGED orderly
    BY <1>5 DEF MonEnd, ExtEnd
  <2>2. QED BY <1>1, <2>1, OneIsGone
<1>6. QED BY <1>2, <1>3, <1>4, <1>5

(* Kicks, and websockets that are closed, leave every stream where it is.  *)
LEMMA ToldKeepsStreams ==
  ASSUME RxInv, \/ \E ch \in Chan : Kick(ch)
                \/ \E s \in Socket : Close(s)
  PROVE  UNCHANGED orderly /\ OneChanges
<1>1. conns \in [Conn -> ConnType]
  BY DEF RxInv, TypeOK, ConnType
<1>2. ASSUME NEW r \in ConnType, NEW q \in {[r EXCEPT !.kick = TRUE],
                                            [r EXCEPT !.mc = None, !.kick = TRUE]}
      PROVE  /\ q.valid = r.valid /\ q.type = r.type
             /\ q.rx_channel = r.rx_channel /\ q.tstamp = r.tstamp
  BY <1>2 DEF ConnType
<1>3. /\ UNCHANGED orderly
      /\ \A c \in Conn : \/ conns'[c] = conns[c]
                         \/ conns'[c] = [conns[c] EXCEPT !.kick = TRUE]
                         \/ conns'[c] = [conns[c] EXCEPT !.mc = None, !.kick = TRUE]
  <2>1. ASSUME NEW ch \in Chan, Kick(ch) PROVE <1>3!:
    BY <2>1 DEF Kick
  <2>2. ASSUME NEW s \in Socket, Close(s) PROVE <1>3!:
    <3>1. \/ conns' = conns
          \/ conns' = [conns EXCEPT ![param[s]].mc = None, ![param[s]].kick = TRUE]
      BY <2>2 DEF Close
    <3>2. UNCHANGED orderly
      BY <2>2 DEF Close, ClientStep
    <3>3. QED BY <1>1, <3>1, <3>2
  <2>3. QED BY <2>1, <2>2
<1>4. \A c \in Conn : SameStream(c)
  <2>1. ASSUME NEW c \in Conn
        PROVE  /\ conns'[c].valid = conns[c].valid /\ conns'[c].type = conns[c].type
               /\ conns'[c].rx_channel = conns[c].rx_channel
               /\ conns'[c].tstamp = conns[c].tstamp
    <3>1. PICK r \in ConnType : r = conns[c]
      BY <1>1
    <3>2. CASE conns'[c] = r
      BY <3>1, <3>2
    <3>3. CASE conns'[c] \in {[r EXCEPT !.kick = TRUE], [r EXCEPT !.mc = None, !.kick = TRUE]}
      BY <1>2, <3>1, <3>3
    <3>4. QED BY <1>3, <3>1, <3>2, <3>3
  <2>2. QED BY <2>1 DEF SameStream, Receives
<1>5. 1 \in Conn
  BY NewTypes
<1>6. QED BY <1>3, <1>4, <1>5 DEF OneChanges

(* The steps that are taken only after a fault, or amid one.               *)
LEMMA OutOfOrder ==
  ASSUME RxInv, orderly', \/ \E c \in Conn : PumpResume(c)
                          \/ CullResume \/ SearchOn
  PROVE  orderly /\ OneChanges
<1>1. orderly => web.pc = "idle" /\ \A c \in Conn : at[c] \notin InSpi
  BY DEF RxInv, SearchValid, OneInSpi
<1>2. ASSUME NEW c \in Conn, PumpResume(c) PROVE FALSE
  BY <1>1, <1>2 DEF PumpResume
<1>3. CASE CullResume
  BY <1>1, <1>3 DEF CullResume, TaskRemoveBy
<1>4. CASE SearchOn
  <2>1. Continue(web)
    BY <1>4 DEF SearchOn
  <2>2. orderly
    BY <2>1 DEF Continue, Refuse, Cull, TaskRemoveBy, PumpSwitch, AllocExt, AllocAlone,
                AllocShared, Create
  <2>3. QED BY <1>1, <1>4, <2>2 DEF SearchOn
<1>5. QED BY <1>2, <1>3, <1>4

(* A connection that is created has what the web server filled in, and the *)
(* others are as before but for their link.                                *)
Linked(cs, c) == cs = conns \/ \E d \in Conn : cs = [conns EXCEPT ![d].other = c]

Creates(c, s, type, ch) ==
  /\ c \in Conn /\ ~conns[c].valid
  /\ \E conn, o, cs, rx : /\ IsFilled(conn, s, o, type, ch) /\ Linked(cs, c)
                         /\ Create(c, s, conn, cs, rx)

LEMMA CreatedStream ==
  ASSUME RxInv, orderly', NEW c, NEW s, NEW type, NEW ch, Creates(c, s, type, ch)
  PROVE  /\ orderly
         /\ \A d \in Conn \ {c} : SameStream(d)
         /\ conns'[c].valid /\ conns'[c].type = type
         /\ conns'[c].rx_channel = ch /\ conns'[c].tstamp = s[1]
         /\ ~Receives(c)
<1>0. /\ c \in Conn /\ ~conns[c].valid
  BY DEF Creates
<1>a. PICK conn, o, cs, rx : /\ IsFilled(conn, s, o, type, ch) /\ Linked(cs, c)
                             /\ Create(c, s, conn, cs, rx)
  BY DEF Creates
<1>1. conns \in [Conn -> ConnType]
  BY DEF RxInv, TypeOK, ConnType
<1>b. ASSUME NEW q \in ConnType, NEW p, p = [q EXCEPT !.other = c]
      PROVE  /\ p.valid = q.valid /\ p.type = q.type
             /\ p.rx_channel = q.rx_channel /\ p.tstamp = q.tstamp
  BY <1>b DEF ConnType
<1>2. PICK r : r = [conn EXCEPT !.valid = TRUE]
  OBVIOUS
<1>3. /\ r.valid = TRUE /\ r.type = type /\ r.rx_channel = ch /\ r.tstamp = s[1]
  BY <1>a, <1>2 DEF IsFilled, ConnType
<1>4. conns' = [cs EXCEPT ![c] = r] /\ orderly
  BY <1>a, <1>2 DEF Create, MayHappen
<1>5. /\ cs = [d \in Conn |-> cs[d]]
      /\ \A d \in Conn : /\ cs[d].valid = conns[d].valid /\ cs[d].type = conns[d].type
                         /\ cs[d].rx_channel = conns[d].rx_channel
                         /\ cs[d].tstamp = conns[d].tstamp
  <2>1. CASE cs = conns
    BY <1>1, <2>1
  <2>2. ASSUME NEW e \in Conn, cs = [conns EXCEPT ![e].other = c] PROVE <1>5!:
    <3>1. \A d \in Conn : cs[d] = IF d = e THEN [conns[d] EXCEPT !.other = c] ELSE conns[d]
      BY <1>1, <2>2
    <3>2. cs = [d \in Conn |-> cs[d]]
      BY <1>1, <2>2
    <3>3. ASSUME NEW d \in Conn
          PROVE  /\ cs[d].valid = conns[d].valid /\ cs[d].type = conns[d].type
                 /\ cs[d].rx_channel = conns[d].rx_channel
                 /\ cs[d].tstamp = conns[d].tstamp
      <4>1. conns[d] \in ConnType
        BY <1>1
      <4>2. CASE d = e
        BY <1>b, <3>1, <4>1, <4>2
      <4>3. CASE d # e
        BY <3>1, <4>3
      <4>4. QED BY <4>2, <4>3
    <3>4. QED BY <3>2, <3>3
  <2>3. QED BY <1>a, <2>1, <2>2 DEF Linked
<1>6. conns'[c] = r /\ \A d \in Conn \ {c} : conns'[d] = cs[d]
  BY <1>0, <1>4, <1>5
<1>7. \A d \in Conn \ {c} : SameStream(d)
  BY <1>5, <1>6 DEF SameStream, Receives
<1>8. QED BY <1>0, <1>3, <1>4, <1>6, <1>7 DEF Receives

(* A set of two connections or more has two members at least.              *)
LEMMA OnlyMember ==
  ASSUME NEW S \in SUBSET Conn, ~(Cardinality(S) > 1), NEW x \in S, NEW y \in S
  PROVE  x = y
<1>1. SUFFICES ASSUME x # y PROVE FALSE
  OBVIOUS
<1>2. IsFiniteSet(Conn)
  BY RxAssumption, FS_Interval DEF Conn
<1>3. IsFiniteSet(S)
  BY <1>2, FS_Subset
<1>4. Cardinality({x}) = 1 /\ IsFiniteSet({x})
  BY FS_Singleton
<1>5. Cardinality({x} \cup {y}) = 2
  <2>1. y \notin {x}
    BY <1>1
  <2>2. Cardinality({x} \cup {y}) = IF y \in {x} THEN Cardinality({x}) ELSE Cardinality({x}) + 1
    BY <1>4, FS_AddElement
  <2>3. QED BY <1>4, <2>1, <2>2
<1>6. Cardinality({x} \cup {y}) <= Cardinality(S) /\ Cardinality(S) \in Nat
  BY <1>3, FS_Subset, FS_CardinalityType
<1>7. QED BY <1>5, <1>6

(* The search for the websocket s, as a message begins it.                 *)
LEMMA FirstSearch ==
  ASSUME RxInv, NEW s \in Socket, socket[s] = "open", param[s] = None,
         NEW w, w = [Idle EXCEPT !.sock = s]
  PROVE  Searches(w) /\ w.sock = s /\ w.i = 1 /\ w.cother = None
<1>1. ASSUME NEW n \in WebType, NEW q, q = [n EXCEPT !.sock = s]
      PROVE  /\ q \in WebType /\ q.sock = s /\ q.i = n.i /\ q.cfree = n.cfree
             /\ q.cother = n.cother /\ q.mon_total = n.mon_total
  BY <1>1 DEF WebType
<1>2. /\ Idle \in WebType /\ Idle.i = 1 /\ Idle.cfree = None
      /\ Idle.cother = None /\ Idle.mon_total = 0
  BY NewTypes DEF Idle
<1>3. /\ w \in WebType /\ w.sock = s /\ w.i = 1 /\ w.cfree = None
      /\ w.cother = None /\ w.mon_total = 0
  BY <1>1, <1>2
<1>4. w.mon_total < w.i
  BY <1>3
<1>5. QED BY <1>3, <1>4 DEF Searches, Seeks

(* The message of a websocket brings at most one stream, on the channel of *)
(* its client's other one or on a channel of its own.                      *)
LEMMA MessageChanges ==
  ASSUME RxInv, orderly', NEW s \in Socket, Message(s)
  PROVE  orderly /\ OneChanges
<1>1. /\ web.pc = "idle" /\ socket[s] = "open" /\ param[s] = None
  BY DEF Message
<1>2. PICK w : w = [Idle EXCEPT !.sock = s]
  OBVIOUS
<1>3. Continue(w)
  BY <1>2 DEF Message
<1>4. Searches(w) /\ w.sock = s /\ w.cother = None
  BY <1>1, <1>2, FirstSearch
<1>5. PICK f : f = Search(w)
  OBVIOUS
<1>6. /\ f \in WebType /\ f.sock = s /\ (f.cfree # None => ~conns[f.cfree].valid)
      /\ f.cother = LowestOf(Others(w)) /\ Others(w) \in SUBSET Conn
      /\ f.cother \in Conn \cup {None} /\ f.cfree \in Conn \cup {None}
  BY <1>4, <1>5, SearchFacts DEF RxInv, WebType
<1>7. CASE Refuse(None)
  BY <1>7, UnchangedConns DEF Refuse
<1>8. CASE \E c \in Conn : Cull(f, c)
  <2>1. orderly /\ UNCHANGED conns
    BY <1>8 DEF Cull, TaskRemoveBy, PumpSwitch
  <2>2. QED BY <2>1, UnchangedConns
<1>9. CASE ToCull(w) = None /\ f.cfree # None /\ ~Rejected(w)
  <2>1. PICK c \in Conn : c = f.cfree /\ ~conns[c].valid
    BY <1>6, <1>9
  <2>2. PICK o \in Conn \cup {None} : o = f.cother
    BY <1>6
  <2>3. ASSUME Refuse(c) PROVE orderly /\ OneChanges
    <3>1. orderly /\ conns' = [conns EXCEPT ![c] = NewConn]
      BY <2>3, RxAssumption DEF Refuse
    <3>2. /\ ~conns'[c].valid /\ \A d \in Conn \ {c} : conns'[d] = conns[d]
      BY <3>1 DEF RxInv, TypeOK, NewConn
    <3>3. \A d \in Conn : SameStream(d)
      BY <2>1, <3>2 DEF SameStream, Receives
    <3>4. QED BY <3>1, <3>3 DEF OneChanges
  <2>4. CASE s[2] = "EXT"
    <3>1. AllocExt(f, c, s)
      BY <1>3, <1>4, <1>5, <1>6, <1>9, <2>1, <2>4 DEF Continue
    <3>2. CASE o # None /\ conns[o].rx_channel # -1
      <4>1. PICK ch \in Chan \cup {-1}, type \in Stream \cup {"MON"} :
              ch = conns[o].rx_channel /\ type = "EXT"
        BY <3>2 DEF RxInv, TypeOK, Stream
      <4>2. Creates(c, s, type, ch)
        <5>1. Create(c, s, Filled(s, o, type, ch), conns, rx_channels)
          BY <2>2, <3>1, <3>2, <4>1 DEF AllocExt
        <5>2. IsFilled(Filled(s, o, type, ch), s, o, type, ch)
          BY FilledType
        <5>3. QED BY <2>1, <5>1, <5>2 DEF Creates, Linked
      <4>3. /\ orderly /\ \A d \in Conn \ {c} : SameStream(d)
            /\ conns'[c].type = type /\ ~Receives(c)
        BY <2>1, <4>2, CreatedStream
      <4>4. SameStream(c)
        BY <4>1, <4>3 DEF SameStream, Receives, Receiver
      <4>5. QED BY <4>3, <4>4 DEF OneChanges
    <3>3. CASE ~(o # None /\ conns[o].rx_channel # -1)
      <4>1. PICK r : r = [NewConn EXCEPT !.type = "EXT", !.other = o]
        OBVIOUS
      <4>2. ~r.valid
        BY <4>1 DEF NewConn
      <4>3. orderly /\ conns' = [conns EXCEPT ![c] = r]
        BY <2>2, <3>1, <3>3, <4>1 DEF AllocExt
      <4>4. ~conns'[c].valid /\ \A d \in Conn \ {c} : conns'[d] = conns[d]
        BY <4>2, <4>3 DEF RxInv, TypeOK
      <4>5. \A d \in Conn : SameStream(d)
        BY <2>1, <4>4 DEF SameStream, Receives
      <4>6. QED BY <4>3, <4>5 DEF OneChanges
    <3>4. QED BY <3>2, <3>3
  <2>5. CASE s[2] # "EXT"
    <3>1. PICK type \in Receiver : type = s[2]
      BY <2>5, RxAssumption DEF Stream, Receiver
    <3>2. ASSUME NEW t, NEW ch, Creates(c, s, t, ch),
                 t \in Receiver =>
                   /\ t = type
                   /\ orderly => \A e \in Others(w) : Receives(e) => conns[e].rx_channel = ch
          PROVE  orderly /\ OneChanges
      <4>1. /\ orderly /\ \A e \in Conn \ {c} : SameStream(e)
            /\ conns'[c].valid /\ conns'[c].type = t
            /\ conns'[c].rx_channel = ch /\ conns'[c].tstamp = s[1]
            /\ ~Receives(c)
        BY <2>1, <3>2, CreatedStream
      <4>2. CASE t \notin Receiver
        <5>1. SameStream(c)
          BY <4>1, <4>2 DEF SameStream, Receives
        <5>2. QED BY <4>1, <5>1 DEF OneChanges
      <4>3. CASE t \in Receiver
        <5>1. Receives(c)'
          BY <4>1, <4>3 DEF Receives
        <5>2. SameClient(w) = {e \in Conn : conns[e].valid /\ conns[e].tstamp = s[1]}
          BY <1>4, <1>9, <4>1, SearchFacts DEF RxInv, SameClient
        <5>3. \A e \in SameClient(w) : conns[e].type # type
          BY <1>4, <1>9, <3>1 DEF Rejected
        <5>4. \A e \in SameClient(w) : Receives(e) => e \in Others(w)
          BY <1>4, <3>1, <5>3 DEF Others, Partners, Receives, Receiver
        <5>5. ASSUME NEW e \in Conn, Receives(e), conns[e].tstamp = s[1]
              PROVE  conns[e].rx_channel = ch /\ conns[e].type # t
          BY <3>2, <4>1, <4>3, <5>2, <5>3, <5>4, <5>5 DEF Receives
        <5>6. Comes(c)
          BY <4>1, <5>1, <5>5 DEF Comes
        <5>7. QED BY <4>1, <5>6 DEF OneChanges
      <4>4. QED BY <4>2, <4>3
    <3>3. CASE o = None
      <4>1. Others(w) = {}
        BY <1>6, <2>2, <3>3, LowestType
      <4>2. AllocAlone(f, c, s)
        BY <1>3, <1>4, <1>5, <1>6, <1>9, <2>1, <2>2, <2>5, <3>3 DEF Continue
      <4>3. FreeChans # {} => LowestOf(FreeChans) \in Chan
        <5>1. FreeChans \in SUBSET Nat
          BY RxAssumption DEF FreeChans, Chan
        <5>2. QED BY <5>1, LowestExists DEF FreeChans
      <4>4. \/ Refuse(c)
            \/ Creates(c, s, "MON", -1)
            \/ \E ch \in Chan : Creates(c, s, type, ch)
        <5>1. /\ IsFilled(Filled(s, None, "MON", -1), s, None, "MON", -1)
              /\ \A ch \in Chan : IsFilled(Filled(s, None, type, ch), s, None, type, ch)
          BY <3>1, FilledType DEF Receiver, Stream
        <5>2. Linked(conns, c)
          BY DEF Linked
        <5>3. CASE FreeChans = {}
          BY <2>1, <4>2, <5>1, <5>2, <5>3 DEF AllocAlone, Creates
        <5>4. CASE FreeChans # {}
          <6>1. PICK ch \in Chan : ch = LowestOf(FreeChans)
            BY <4>3, <5>4
          <6>2. \E rx : Create(c, s, Filled(s, None, type, ch), conns, rx)
            BY <3>1, <4>2, <5>4, <6>1 DEF AllocAlone
          <6>3. QED BY <2>1, <5>1, <5>2, <6>2 DEF Creates
        <5>5. QED BY <5>3, <5>4
      <4>5. "MON" \notin Receiver
        BY DEF Receiver
      <4>6. QED BY <2>3, <3>2, <4>1, <4>4, <4>5
    <3>4. CASE o # None
      <4>1. AllocShared(f, c, s)
        BY <1>3, <1>4, <1>5, <1>6, <1>9, <2>1, <2>2, <2>5, <3>4 DEF Continue
      <4>2. PICK ch \in Chan \cup {-1} : o \in Conn /\ ch = conns[o].rx_channel
        BY <3>4 DEF RxInv, TypeOK
      <4>3. Refuse(c) \/ Creates(c, s, type, ch)
        <5>1. \/ Refuse(c)
              \/ \E rx : Create(c, s, Filled(s, o, type, ch), [conns EXCEPT ![o].other = c], rx)
          BY <2>2, <3>1, <4>1, <4>2 DEF AllocShared
        <5>2. IsFilled(Filled(s, o, type, ch), s, o, type, ch)
          BY <3>1, FilledType DEF Receiver, Stream
        <5>3. Linked([conns EXCEPT ![o].other = c], c)
          BY <4>2 DEF Linked
        <5>4. QED BY <2>1, <5>1, <5>2, <5>3 DEF Creates
      <4>4. \A e \in Others(w) : e = o
        <5>1. o \in Others(w) /\ ~(Cardinality(Others(w)) > 1)
          BY <1>6, <1>9, <2>2, <3>4, LowestType DEF Rejected
        <5>2. QED BY <1>6, <5>1, OnlyMember
      <4>5. type \in Receiver =>
              /\ type = type
              /\ orderly => \A e \in Others(w) : Receives(e) => conns[e].rx_channel = ch
        BY <4>2, <4>4
      <4>6. CASE Creates(c, s, type, ch)
        BY <3>2, <4>5, <4>6
      <4>7. QED BY <2>3, <4>3, <4>6
    <3>5. QED BY <3>3, <3>4
  <2>6. QED BY <2>4, <2>5
<1>10. ToCull(w) \in Conn \cup {None}
  BY <1>4, SearchFacts DEF RxInv
<1>11. \/ Refuse(None)
       \/ \E c \in Conn : Cull(f, c)
       \/ ToCull(w) = None /\ f.cfree # None /\ ~Rejected(w)
  BY <1>3, <1>5, <1>10 DEF Continue
<1>12. QED BY <1>7, <1>8, <1>9, <1>11
---------------------------------------------------------------------------
LEMMA StepChanges ==
  ASSUME RxInv, [Next]_vars, orderly'
  PROVE  orderly /\ OneChanges
<1>1. ASSUME NEW c \in Conn,
             \/ SndSetup(c) \/ SndCmdsReceived(c)
             \/ ExtSwitch(c) \/ ExtBlur(c) \/ NoChannel(c)
      PROVE  orderly /\ OneChanges
  <2>1. orderly /\ UNCHANGED conns
    BY <1>1 DEF SndSetup, SndCmdsReceived, ExtSwitch, ExtBlur, NoChannel, PumpDone,
                PumpSwitch
  <2>2. QED BY <2>1, UnchangedConns
<1>2. ASSUME NEW c \in Conn,
             \/ StopData(c) \/ SndEnd(c) \/ WfEnd(c) \/ MonEnd(c) \/ ExtEnd(c)
      PROVE  orderly /\ OneChanges
  BY <1>2, EndsChange
<1>3. CASE (\E c \in Conn : PumpResume(c)) \/ CullResume \/ SearchOn
  BY <1>3, OutOfOrder
<1>4. CASE (\E ch \in Chan : Kick(ch)) \/ (\E s \in Socket : Close(s))
  BY <1>4, ToldKeepsStreams
<1>5. ASSUME NEW s \in Socket, Message(s) PROVE orderly /\ OneChanges
  BY <1>5, MessageChanges
<1>6. CASE UNCHANGED vars \/ (\E s \in Socket : Open(s)) \/ (\E cl \in Client : Reload(cl))
  <2>1. orderly /\ UNCHANGED conns
    BY <1>6 DEF vars, Open, Reload, ClientStep
  <2>2. QED BY <2>1, UnchangedConns
<1>7. QED BY <1>1, <1>2, <1>3, <1>4, <1>5, <1>6 DEF Next

(* What the channels look like to their clients: in order, a channel is    *)
(* busy if and only if there is a stream on it.                            *)
Busy == [ch \in Chan |-> rx_channels[ch].busy]
OnChannel == [ch \in Chan |-> Streams(ch)]

LeaseTyped ==
  /\ Busy \in [Chan -> BOOLEAN]
  /\ OnChannel \in [Chan -> SUBSET (Client \X {"SND", "W/F"})]

BusyWithStreams ==
  orderly => Busy = [ch \in Chan |-> OnChannel[ch] # {}]

LEMMA LeaseIsTyped == RxInv => LeaseTyped
<1> SUFFICES ASSUME RxInv PROVE LeaseTyped
  OBVIOUS
<1>1. \A ch \in Chan : rx_channels[ch].busy \in BOOLEAN
  BY DEF RxInv, TypeOK
<1>2. ASSUME NEW c \in Conn, NEW ch \in Chan, Uses(c, ch)
      PROVE  <<conns[c].tstamp, conns[c].type>> \in Client \X {"SND", "W/F"}
  <2>1. conns[c].tstamp # None /\ conns[c].type \in {"SND", "W/F"}
    BY <1>2 DEF RxInv, SlotsKept, Uses
  <2>2. conns[c].tstamp \in Client \cup {None}
    BY DEF RxInv, TypeOK
  <2>3. QED BY <2>1, <2>2
<1>3. QED BY <1>1, <1>2 DEF LeaseTyped, Busy, OnChannel, Streams

LEMMA BusyIsStreams == RxInv => BusyWithStreams
<1> SUFFICES ASSUME RxInv, orderly, NEW ch \in Chan
             PROVE  rx_channels[ch].busy = (Streams(ch) # {})
  BY DEF BusyWithStreams, Busy, OnChannel
<1>1. Streams(ch) # {} <=> \E c \in Conn : Uses(c, ch)
  BY DEF Streams
<1>2. ASSUME NEW c \in Conn, Uses(c, ch) PROVE rx_channels[ch].busy
  BY <1>2, UsesReceives DEF RxInv, OrderKept, ReceiverKept
<1>3. rx_channels[ch].busy => \E c \in Conn : Uses(c, ch)
  BY DEF RxInv, BusyIsKept, Keeps
<1>4. rx_channels[ch].busy \in BOOLEAN
  BY DEF RxInv, TypeOK
<1>5. QED BY <1>1, <1>2, <1>3, <1>4

(* The stream of a connection, on its channel.                             *)
IsOn(c, s, ch) ==
  /\ Receives(c) /\ conns[c].rx_channel = ch
  /\ s = <<conns[c].tstamp, conns[c].type>>

LEMMA StreamsOn ==
  ASSUME NEW ch \in Chan, NEW s
  PROVE  s \in OnChannel[ch] <=> \E c \in Conn : IsOn(c, s, ch)
<1>1. s \in OnChannel[ch] <=>
        \E c \in Conn : Uses(c, ch) /\ s = <<conns[c].tstamp, conns[c].type>>
  BY DEF OnChannel, Streams
<1>2. QED BY <1>1, UsesReceives DEF IsOn

LEMMA StreamsOnNext ==
  ASSUME NEW ch \in Chan, NEW s
  PROVE  s \in OnChannel'[ch] <=> \E c \in Conn : IsOn(c, s, ch)'
<1>1. s \in OnChannel'[ch] <=>
        \E c \in Conn : Uses(c, ch)' /\ s = <<conns'[c].tstamp, conns'[c].type>>
  BY DEF OnChannel, Streams
<1>2. \A c \in Conn : Uses(c, ch)' <=> Receives(c)' /\ conns'[c].rx_channel = ch
  BY DEF Uses, Receives, Receiver
<1>3. QED BY <1>1, <1>2 DEF IsOn

LEMMA SameIsOn ==
  ASSUME NEW c, SameStream(c)
  PROVE  \A s, ch : IsOn(c, s, ch)' <=> IsOn(c, s, ch)
  BY DEF SameStream, IsOn

(* Each stream is that of one connection only.                             *)
LEMMA OneConnection ==
  ASSUME RxInv, orderly, NEW ch \in Chan, NEW c \in Conn, NEW d \in Conn,
         NEW s, NEW r, IsOn(c, s, ch), IsOn(d, r, ch)
  PROVE  r[1] = s[1] /\ (r = s => c = d)
<1>1. Uses(d, ch) /\ ReceiverKept(c) /\ conns[c].rx_channel = ch
  BY UsesReceives DEF IsOn, RxInv, OrderKept
<1>2. c # d => Partnership(c, d)
  BY <1>1 DEF ReceiverKept
<1>3. QED BY <1>2 DEF Partnership, IsOn

(* No stream comes or ends.                                                *)
LEMMA NoneChanges ==
  ASSUME LeaseTyped, LeaseTyped', \A c \in Conn : SameStream(c)
  PROVE  OnChannel' = OnChannel
<1>1. ASSUME NEW ch \in Chan PROVE OnChannel'[ch] = OnChannel[ch]
  <2>1. \A s : s \in OnChannel'[ch] <=> s \in OnChannel[ch]
    BY StreamsOn, StreamsOnNext, SameIsOn
  <2>2. QED BY <2>1
<1>2. QED BY <1>1 DEF LeaseTyped

(* A stream comes.                                                         *)
LEMMA OneComes ==
  ASSUME RxInv, RxInv', orderly, orderly', LeaseTyped, LeaseTyped',
         NEW c \in Conn, \A d \in Conn \ {c} : SameStream(d), Comes(c)
  PROVE  \E ch \in Chan, s \in Client \X {"SND", "W/F"} :
           /\ \A k \in Chan : \A r \in OnChannel[k] : r # s /\ (r[1] = s[1] <=> k = ch)
           /\ OnChannel' = [OnChannel EXCEPT ![ch] = @ \cup {s}]
<1>1. PICK ch, s : ch = conns'[c].rx_channel /\ s = <<conns'[c].tstamp, conns'[c].type>>
  OBVIOUS
<1>2. Receives(c)' /\ ~Receives(c)
  BY DEF Comes
<1>3. ch \in Chan
  BY <1>1, <1>2 DEF RxInv, OrderKept, ReceiverKept
<1>4. IsOn(c, s, ch)'
  BY <1>1, <1>2 DEF IsOn
<1>5. s \in Client \X {"SND", "W/F"}
  <2>1. s \in OnChannel'[ch]
    BY <1>3, <1>4, StreamsOnNext
  <2>2. QED BY <1>3, <2>1 DEF LeaseTyped
<1>6. \A r, k : ~IsOn(c, r, k) /\ (IsOn(c, r, k)' <=> r = s /\ k = ch)
  BY <1>1, <1>2 DEF IsOn
<1>7. ASSUME NEW k \in Chan, NEW r \in OnChannel[k]
      PROVE  r # s /\ (r[1] = s[1] <=> k = ch)
  <2>1. PICK d \in Conn : IsOn(d, r, k)
    BY StreamsOn
  <2>2. d # c /\ IsOn(d, r, k)'
    BY <1>6, <2>1, SameIsOn
  <2>3. /\ conns[d].tstamp = conns'[c].tstamp => conns[d].rx_channel = conns'[c].rx_channel
        /\ <<conns[d].tstamp, conns[d].type>> # <<conns'[c].tstamp, conns'[c].type>>
    BY <2>1 DEF Comes, IsOn
  <2>4. r # s /\ (r[1] = s[1] => k = ch)
    BY <1>1, <2>1, <2>3 DEF IsOn
  <2>5. ASSUME k = ch PROVE r[1] = s[1]
    <3>1. ReceiverKept(c)'
      BY <1>2 DEF RxInv, OrderKept
    <3>2. Uses(d, ch)'
      BY <2>2, <2>5 DEF IsOn, Uses, Receives, Receiver
    <3>3. conns'[c].tstamp = conns'[d].tstamp
      BY <1>1, <2>2, <3>1, <3>2 DEF ReceiverKept, Partnership
    <3>4. QED BY <1>1, <2>2, <3>3 DEF IsOn
  <2>6. QED BY <2>4, <2>5
<1>8. ASSUME NEW k \in Chan
      PROVE  OnChannel'[k] = IF k = ch THEN OnChannel[k] \cup {s} ELSE OnChannel[k]
  <2>1. \A r : r \in OnChannel'[k] <=> r \in OnChannel[k] \/ (r = s /\ k = ch)
    BY <1>6, StreamsOn, StreamsOnNext, SameIsOn
  <2>2. QED BY <2>1
<1>9. OnChannel' = [OnChannel EXCEPT ![ch] = @ \cup {s}]
  BY <1>3, <1>8 DEF LeaseTyped
<1>10. QED BY <1>3, <1>5, <1>7, <1>9

(* A stream ends.                                                          *)
LEMMA OneEnds ==
  ASSUME RxInv, orderly, LeaseTyped, LeaseTyped',
         NEW c \in Conn, \A d \in Conn \ {c} : SameStream(d),
         Receives(c), ~Receives(c)'
  PROVE  \E ch \in Chan, s \in Client \X {"SND", "W/F"} :
           /\ s \in OnChannel[ch]
           /\ OnChannel' = [OnChannel EXCEPT ![ch] = @ \ {s}]
<1>1. PICK ch, s : ch = conns[c].rx_channel /\ s = <<conns[c].tstamp, conns[c].type>>
  OBVIOUS
<1>2. ch \in Chan
  BY <1>1 DEF RxInv, OrderKept, ReceiverKept
<1>3. IsOn(c, s, ch)
  BY <1>1 DEF IsOn
<1>4. s \in OnChannel[ch] /\ s \in Client \X {"SND", "W/F"}
  BY <1>2, <1>3, StreamsOn DEF LeaseTyped
<1>5. \A r, k : ~IsOn(c, r, k)' /\ (IsOn(c, r, k) <=> r = s /\ k = ch)
  BY <1>1 DEF IsOn
<1>6. ASSUME NEW k \in Chan
      PROVE  OnChannel'[k] = IF k = ch THEN OnChannel[k] \ {s} ELSE OnChannel[k]
  <2>1. ASSUME NEW d \in Conn \ {c}, IsOn(d, s, k) PROVE k # ch
    BY <1>2, <1>3, <2>1, OneConnection
  <2>2. \A r : r \in OnChannel'[k] <=> r \in OnChannel[k] /\ ~(r = s /\ k = ch)
    BY <1>5, <2>1, StreamsOn, StreamsOnNext, SameIsOn
  <2>3. QED BY <2>2
<1>7. OnChannel' = [OnChannel EXCEPT ![ch] = @ \ {s}]
  BY <1>2, <1>6 DEF LeaseTyped
<1>8. QED BY <1>2, <1>4, <1>7

LEMMA LeaseStep == RxInv /\ RxInv' /\ [Next]_vars => [Lease!Next]_Lease!vars
<1> SUFFICES ASSUME RxInv, RxInv', [Next]_vars PROVE Lease!Next \/ UNCHANGED Lease!vars
  OBVIOUS
<1>1. LeaseTyped /\ BusyWithStreams
  BY LeaseIsTyped, BusyIsStreams
<1>2. LeaseTyped' /\ BusyWithStreams'
  BY LeaseIsTyped, BusyIsStreams, PTL
<1>3. CASE ~orderly'
  <2>1. orderly' = FALSE
    BY <1>3 DEF RxInv, TypeOK
  <2>2. Lease!Disorder
    BY <1>2, <2>1 DEF LeaseTyped, Busy, OnChannel, Lease!Disorder
  <2>3. QED BY <2>2 DEF Lease!Next
<1>4. CASE orderly'
  <2>1. orderly /\ UNCHANGED orderly /\ OneChanges
    BY <1>4, StepChanges DEF RxInv, TypeOK
  <2>2. PICK c \in Conn : /\ \A d \in Conn \ {c} : SameStream(d)
                          /\ SameStream(c) \/ Comes(c) \/ (Receives(c) /\ ~Receives(c)')
    BY <2>1 DEF OneChanges
  <2>3. /\ Busy = [ch \in Chan |-> OnChannel[ch] # {}]
        /\ Busy' = [ch \in Chan |-> OnChannel'[ch] # {}]
    BY <1>1, <1>2, <1>4, <2>1 DEF BusyWithStreams
  <2>4. CASE SameStream(c)
    <3>1. OnChannel' = OnChannel
      BY <1>1, <1>2, <2>2, <2>4, NoneChanges
    <3>2. Busy' = Busy
      BY <2>3, <3>1
    <3>3. QED BY <2>1, <3>1, <3>2 DEF Lease!vars, Busy, OnChannel
  <2>5. CASE Comes(c)
    <3>1. PICK ch \in Chan, s \in Client \X {"SND", "W/F"} :
            /\ \A k \in Chan : \A r \in OnChannel[k] : r # s /\ (r[1] = s[1] <=> k = ch)
            /\ OnChannel' = [OnChannel EXCEPT ![ch] = @ \cup {s}]
      BY <1>1, <1>2, <1>4, <2>1, <2>2, <2>5, OneComes
    <3>2. Busy' = [Busy EXCEPT ![ch] = TRUE]
      BY <1>1, <2>3, <3>1 DEF LeaseTyped
    <3>3. Lease!Begin(ch, s)
      BY <2>1, <3>1, <3>2 DEF Lease!Begin, Busy, OnChannel
    <3>4. QED BY <3>3 DEF Lease!Next
  <2>6. CASE Receives(c) /\ ~Receives(c)'
    <3>1. PICK ch \in Chan, s \in Client \X {"SND", "W/F"} :
            /\ s \in OnChannel[ch]
            /\ OnChannel' = [OnChannel EXCEPT ![ch] = @ \ {s}]
      BY <1>1, <1>2, <1>4, <2>1, <2>2, <2>6, OneEnds
    <3>2. Busy' = [Busy EXCEPT ![ch] = OnChannel[ch] # {s}]
      BY <1>1, <2>3, <3>1 DEF LeaseTyped
    <3>3. Lease!End(ch, s)
      BY <2>1, <3>1, <3>2 DEF Lease!End, Busy, OnChannel
    <3>4. QED BY <3>3 DEF Lease!Next
  <2>7. QED BY <2>2, <2>4, <2>5, <2>6
<1>5. QED BY <1>3, <1>4

(* The connections implement the lease of a channel: it is had by one      *)
(* client, which has no other, from its first stream to the end of its     *)
(* last, as long as nothing was culled and no fault happened.              *)
THEOREM ChannelsLeased == Spec => ChannelsAreLeased
<1>1. Init => Lease!Init
  <2> SUFFICES ASSUME Init PROVE Lease!Init
    OBVIOUS
  <2>1. RxInv /\ orderly /\ \A ch \in Chan : rx_channels[ch].busy = FALSE
    BY InitialState DEF Init, NewChan
  <2>2. LeaseTyped /\ BusyWithStreams
    BY <2>1, LeaseIsTyped, BusyIsStreams
  <2>3. \A ch \in Chan : Streams(ch) = {}
    BY <2>1, <2>2 DEF BusyWithStreams, Busy, OnChannel
  <2>4. orderly = TRUE
    BY DEF Init
  <2>5. QED BY <2>1, <2>3, <2>4 DEF Lease!Init
<1>2. RxInv /\ RxInv' /\ [Next]_vars => [Lease!Next]_Lease!vars
  BY LeaseStep
<1>3. QED BY <1>1, <1>2, RxInvariance, PTL DEF Spec, ChannelsAreLeased, Lease!Spec
=============================================================================
