--------------------------- MODULE MCPaneSupervisor ---------------------------
(* PaneSupervisor with the bounds its configurations name. *)
EXTENDS PaneSupervisor
=============================================================================
