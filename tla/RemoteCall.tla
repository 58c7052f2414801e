---------------------------- MODULE RemoteCall ----------------------------
(***************************************************************************)
(* What handing work to a child process (support/shmem.cpp) promises its   *)
(* caller: the function runs once for each call, after the caller has      *)
(* prepared the shared data and before the call returns, and never in      *)
(* between calls, when the data is the caller's again.                     *)
(***************************************************************************)
CONSTANT Use

VARIABLE phase     \* phase[u]: where the call of the channel use u is

Init == phase = [u \in Use |-> "idle"]

Advance(u, from, to) == phase[u] = from /\ phase' = [phase EXCEPT ![u] = to]

Next == \E u \in Use : \/ Advance(u, "idle", "called")
                       \/ Advance(u, "called", "running")
                       \/ Advance(u, "running", "served")
                       \/ Advance(u, "served", "idle")

Spec == Init /\ [][Next]_phase
=============================================================================
