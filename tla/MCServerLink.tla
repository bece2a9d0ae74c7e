---------------------------- MODULE MCServerLink ----------------------------
(* Instances of ServerLink for TLC.                                          *)
EXTENDS ServerLink
=============================================================================
