--------------------------- MODULE PriorityLock ---------------------------
(***************************************************************************)
(* What a lock of support/coroutines.cpp promises to the tasks that share  *)
(* it: one of them holds it at a time, a task waits only while another one *)
(* holds the lock or is about to take it, and the lock goes to a task of   *)
(* the highest priority among those that want it.                          *)
(***************************************************************************)
EXTENDS Naturals

CONSTANTS Client, None, Rank

VARIABLES holder,      \* the client that holds the lock, or None
          contenders   \* the clients that wait for it

lock == <<holder, contenders>>

Outranks(t, S) == \A u \in S : Rank[u] <= Rank[t]

Init == holder = None /\ contenders = {}

Wait(t) ==
  /\ t \notin contenders /\ holder # t
  /\ holder # None \/ contenders # {}
  /\ contenders' = contenders \cup {t}
  /\ UNCHANGED holder

\* A client that arrives takes the lock at once ...
TakeAtOnce(t) ==
  /\ holder = None /\ t \notin contenders
  /\ Outranks(t, contenders)
  /\ holder' = t
  /\ UNCHANGED contenders

\* ... or after having waited.
Take(t) ==
  /\ holder = None /\ t \in contenders
  /\ Outranks(t, contenders)
  /\ holder' = t
  /\ contenders' = contenders \ {t}

Release ==
  /\ holder # None
  /\ holder' = None
  /\ UNCHANGED contenders

Next == Release \/ \E t \in Client : Wait(t) \/ TakeAtOnce(t) \/ Take(t)

Spec == Init /\ [][Next]_lock
=============================================================================
