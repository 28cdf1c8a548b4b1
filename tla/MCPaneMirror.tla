---------------------------- MODULE MCPaneMirror ----------------------------
(* Small instances of PaneMirror for TLC. *)
EXTENDS PaneMirror
=============================================================================
