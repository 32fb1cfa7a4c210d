-------------------------- MODULE MCUptimeRewards --------------------------
(***************************************************************************)
(* Small instances of UptimeRewards for TLC.                               *)
(***************************************************************************)
EXTENDS UptimeRewards
=============================================================================
