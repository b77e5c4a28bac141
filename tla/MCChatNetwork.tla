---------------------------- MODULE MCChatNetwork ---------------------------
(* Instances of ChatNetwork for TLC.                                       *)
EXTENDS ChatNetwork

CONSTANTS p1, p2, p3

(* p1, which talks and may leave, is in the middle.                        *)
Star == {<<p2, p1>>, <<p3, p1>>}
=============================================================================
