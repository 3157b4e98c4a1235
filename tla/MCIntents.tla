------------------------------ MODULE MCIntents ------------------------------
(* Small instances of MessageIntents.                                      *)
EXTENDS MessageIntents
=============================================================================
