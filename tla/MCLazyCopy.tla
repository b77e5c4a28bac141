------------------------------ MODULE MCLazyCopy ----------------------------
(* Instances of LazyCopy for TLC.                                          *)
EXTENDS LazyCopy
=============================================================================
