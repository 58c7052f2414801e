--------------------------- MODULE ReceiverLease ---------------------------
(***************************************************************************)
(* What rx_server promises of the receiver channels: a channel is leased   *)
(* to one client at a time, which has no other, from its first stream, a   *)
(* sound or a waterfall one, to the end of its last.  The promise is void  *)
(* from the moment that something which it does not cover happens.         *)
(***************************************************************************)
CONSTANTS Chan,     \* the receiver channels
          Stream    \* the streams that come and go: <<client, type>>

VARIABLES busy,     \* which channels cannot be had by another client
          streams,  \* the streams on each channel
          orderly   \* whether the promise still stands

vars == <<busy, streams, orderly>>

Init ==
  /\ busy = [ch \in Chan |-> FALSE]
  /\ streams = [ch \in Chan |-> {}]
  /\ orderly = TRUE

\* The streams of a client are those on this channel.
Begin(ch, s) ==
  /\ orderly /\ UNCHANGED orderly
  /\ \A k \in Chan : \A r \in streams[k] : r # s /\ (r[1] = s[1] <=> k = ch)
  /\ streams' = [streams EXCEPT ![ch] = @ \cup {s}]
  /\ busy' = [busy EXCEPT ![ch] = TRUE]

\* The channel is free with the end of the last stream on it, not before.
End(ch, s) ==
  /\ orderly /\ UNCHANGED orderly
  /\ s \in streams[ch]
  /\ streams' = [streams EXCEPT ![ch] = @ \ {s}]
  /\ busy' = [busy EXCEPT ![ch] = streams[ch] # {s}]

Disorder ==
  /\ orderly' = FALSE
  /\ busy' \in [Chan -> BOOLEAN]
  /\ streams' \in [Chan -> SUBSET Stream]

Next == \/ Disorder
        \/ \E ch \in Chan, s \in Stream : Begin(ch, s) \/ End(ch, s)

Spec == Init /\ [][Next]_vars
=============================================================================
