---------------------------- MODULE MCSchedules ----------------------------
(* Instances of ChannelSchedules for TLC. *)
EXTENDS ChannelSchedules

CONSTANTS k1

OneKey == [c \in Callers |-> k1]
============================================================================
