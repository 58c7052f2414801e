------------------------------- MODULE MCNbuf -------------------------------
(* Instances of Nbuf for TLC.                                              *)
EXTENDS Nbuf
=============================================================================
