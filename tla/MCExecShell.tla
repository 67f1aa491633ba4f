----------------------------- MODULE MCExecShell -----------------------------
(***************************************************************************)
(* ExecShell for all ways the application may treat the three signals, and *)
(* for the ways a program started from a shell or a service finds them.    *)
(***************************************************************************)
EXTENDS ExecShell

AllActions == [Sig -> Action]

\* Signals are ignored or left alone across execve, never handled.
InheritedActions == [Sig -> {"SIG_DFL", "SIG_IGN"}]
=============================================================================
