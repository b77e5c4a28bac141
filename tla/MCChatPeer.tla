------------------------------ MODULE MCChatPeer ----------------------------
(* Instances of ChatPeer for TLC.                                          *)
EXTENDS ChatPeer
=============================================================================
