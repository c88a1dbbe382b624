-------------------------- MODULE MCEventCollector --------------------------
(***************************************************************************)
(* EventCollector alone, for TLC: the cron, no run by hand and no failure. *)
(***************************************************************************)
EXTENDS EventCollector

CONSTANT cron
=============================================================================
