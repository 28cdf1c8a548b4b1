---------------------------- MODULE MCHostedApps ----------------------------
(* Small instances of HostedApps for TLC. *)
EXTENDS HostedApps
=============================================================================
