-------------------------- MODULE MCLogCodec ----------------------------
(* Instances of LogCodec for TLC.                                          *)
EXTENDS LogCodec, TLC
=============================================================================
