------------------------------- MODULE MCPopen -------------------------------
(***************************************************************************)
(* Popen with up to three streams; its constants are numbers and strings   *)
(* that the configuration gives.                                           *)
(***************************************************************************)
EXTENDS Popen
=============================================================================
