----------------------------- MODULE MCRxServer -----------------------------
(* A page of the Kiwi UI, which opens three websockets, and a kiwirecorder,  *)
(* which opens one.                                                          *)
EXTENDS RxServer

CONSTANTS page, krec

PageAndSound ==
  {<<page, "SND">>, <<page, "W/F">>, <<page, "EXT">>, <<krec, "SND">>}
=============================================================================
