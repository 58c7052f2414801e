---------------------------- MODULE CommandPort ----------------------------
(***************************************************************************)
(* What the SPI functions of platform/common/spi.cpp promise to the tasks  *)
(* that send commands to the embedded CPU: the port is a priority lock,    *)
(* and while a task holds it, the embedded CPU takes the task's command    *)
(* once at most, however often it has been offered.                        *)
(***************************************************************************)
EXTENDS PriorityLock

VARIABLE taken     \* how often the holder's command has been taken

port == <<lock, taken>>

PortInit == Init /\ taken = 0

Accept == holder # None /\ taken = 0 /\ taken' = 1 /\ UNCHANGED lock

Leave == Release /\ taken' = 0

Contend == /\ \E t \in Client : Wait(t) \/ TakeAtOnce(t) \/ Take(t)
           /\ UNCHANGED taken

PortNext == Accept \/ Leave \/ Contend

PortSpec == PortInit /\ [][PortNext]_port
=============================================================================
