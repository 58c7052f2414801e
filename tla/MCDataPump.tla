---------------------------- MODULE MCDataPump ----------------------------
(* Instances of DataPump for TLC.                                          *)
EXTENDS DataPump

CONSTANTS snd1, snd2, web

\* The priorities of coroutines.h: DATAPUMP, SND, WEBSERVER.
Priority == [t \in Task |-> CASE t = pump -> 6
                              [] t \in Snd -> 5
                              [] t \in Web -> 3]
=============================================================================
