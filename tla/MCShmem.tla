------------------------------ MODULE MCShmem ------------------------------
(* Instances of Shmem for TLC.                                             *)
EXTENDS Shmem

CONSTANTS spi, wf, wspr

\* The SPI channel, and the WSPR channel of receiver 1 with its NO_WAIT calls.
SpiAndWspr == {<<spi, 0>>, <<wspr, 1>>}
Wspr == {<<wspr, 1>>}

\* The waterfall channel, one child for every receiver.
TwoWaterfalls == {<<wf, 0>>, <<wf, 1>>}

\* Two receivers' waterfalls and the WSPR decoder.
Receivers == TwoWaterfalls \cup Wspr

Nobody == {}
=============================================================================
