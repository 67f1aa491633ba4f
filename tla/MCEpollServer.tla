---------------------------- MODULE MCEpollServer ----------------------------
(***************************************************************************)
(* EpollServer with a polite client and clients that send more than a      *)
(* buffer, do not read, or leave early.                                    *)
(***************************************************************************)
EXTENDS EpollServer, TLC
CONSTANTS p, r1, r2

\* One full buffer, enough for a second write after a reset, and one byte.
SendBound == (p :> 2) @@ (r1 :> 4) @@ (r2 :> 1)
=============================================================================
