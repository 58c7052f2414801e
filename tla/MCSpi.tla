------------------------------- MODULE MCSpi -------------------------------
(* Instances of Spi for TLC.                                               *)
EXTENDS Spi

CONSTANTS spi_pump, gps, search, web

\* The priorities of coroutines.h: SPIPUMP, MED (3) and GPS_ACQ.
Priority == [t \in Task |-> CASE t = spi_pump -> 7
                              [] t \in {gps, web} -> 3
                              [] t = search -> 2]

\* Two GPS tasks that wait for their replies, and one that does not wait.
Calls == {<<spi_pump, "set">>, <<gps, "get">>, <<search, "get">>,
          <<web, "misc">>, <<web, "set_noduplex">>}
=============================================================================
