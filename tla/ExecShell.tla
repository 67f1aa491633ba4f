------------------------------ MODULE ExecShell ------------------------------
(***************************************************************************)
(* exec_shell of execShell/execShell.c: signals are ignored and blocked    *)
(* while a command runs in a child, and given back to the child before it  *)
(* executes the command and to the caller before it returns.               *)
(*                                                                         *)
(* The order of the calls is what matters, because between any two of them *)
(* the terminal may send SIGINT or SIGQUIT to the caller and the child, and *)
(* the child may end.  The application around exec_shell may ignore each   *)
(* signal, handle it, or leave it alone; its handler of SIGCHLD takes the  *)
(* status of every child that ended.  A handler of yet another signal makes *)
(* waitpid return before the command has ended.                            *)
(***************************************************************************)
EXTENDS Naturals

CONSTANTS
    Action0,    \* [Sig -> Action]: the signal actions exec_shell may find
    OtherHandler, \* TRUE: the application handles another signal, without SA_RESTART
    MaxCalls    \* bound: calls of exec_shell

Keyboard == {"SIGINT", "SIGQUIT"}
Sig      == Keyboard \cup {"SIGCHLD"}
Action   == {"SIG_DFL", "SIG_IGN", "handler"}

ASSUME ExecShellAssumption ==
    /\ Action0 \subseteq [Sig -> Action]
    /\ OtherHandler \in BOOLEAN
    /\ MaxCalls \in Nat

VARIABLES
    pc,         \* the next call of exec_shell; "app" outside of it; "killed"
    action,     \* signal actions of the caller
    mask,       \* SIGCHLD is "blocked" or "open" in the caller
    pending,    \* a blocked SIGCHLD waits
    saved,      \* sig_int, sig_quit and omask
    child,      \* the child of this call
    ret,        \* what exec_shell returned
    eintr,      \* waitpid was interrupted in this call
    before,     \* action and mask when it was called
    calls

vars == <<pc, action, mask, pending, saved, child, ret, eintr, before, calls>>

Mask       == {"blocked", "open"}
Point      == {"app", "int", "quit", "block", "vfork", "child", "wait",
               "restore int", "restore quit", "restore mask", "killed"}
Saved      == [sig_int: Action, sig_quit: Action, omask: Mask \cup {"unset"}]
ChildState == {"none", "int", "quit", "mask", "exec", "runs", "zombie", "reaped"}
Child      == [st: ChildState, action: [Keyboard -> Action], mask: Mask]
NoChild    == [st |-> "none", action |-> [s \in Keyboard |-> "SIG_DFL"], mask |-> "open"]

TypeOK ==
    /\ pc \in Point
    /\ action \in [Sig -> Action]
    /\ mask \in Mask
    /\ pending \in BOOLEAN
    /\ saved \in Saved
    /\ child \in Child
    /\ ret \in {"none", "-1", "status"}
    /\ eintr \in BOOLEAN
    /\ before \in [action: [Sig -> Action], mask: Mask]
    /\ calls \in 0 .. MaxCalls

Init ==
    /\ pc = "app"
    /\ action \in Action0
    /\ mask \in Mask
    /\ pending = FALSE
    /\ saved = [sig_int |-> "SIG_DFL", sig_quit |-> "SIG_DFL", omask |-> "unset"]
    /\ child = NoChild
    /\ ret = "none"
    /\ eintr = FALSE
    /\ before = [action |-> action, mask |-> mask]
    /\ calls = 0

-----------------------------------------------------------------------------
(* The caller up to vfork.                                                 *)

\* A command that an interrupted call left running is not followed any more.
Call ==
    /\ pc = "app"
    /\ calls < MaxCalls
    /\ pc' = "int"
    /\ child' = NoChild
    /\ ret' = "none"
    /\ eintr' = FALSE
    /\ before' = [action |-> action, mask |-> mask]
    /\ calls' = calls + 1
    /\ UNCHANGED <<action, mask, pending, saved>>

IgnoreInt ==
    /\ pc = "int"
    /\ saved' = [saved EXCEPT !.sig_int = action["SIGINT"]]
    /\ action' = [action EXCEPT !["SIGINT"] = "SIG_IGN"]
    /\ pc' = "quit"
    /\ UNCHANGED <<mask, pending, child, ret, eintr, before, calls>>

\* Mutant: SIGINT is written twice.
IgnoreIntAgain ==
    /\ pc = "quit"
    /\ saved' = [saved EXCEPT !.sig_quit = action["SIGINT"]]
    /\ action' = [action EXCEPT !["SIGINT"] = "SIG_IGN"]
    /\ pc' = "block"
    /\ UNCHANGED <<mask, pending, child, ret, eintr, before, calls>>

IgnoreQuit ==
    /\ pc = "quit"
    /\ saved' = [saved EXCEPT !.sig_quit = action["SIGQUIT"]]
    /\ action' = [action EXCEPT !["SIGQUIT"] = "SIG_IGN"]
    /\ pc' = "block"
    /\ UNCHANGED <<mask, pending, child, ret, eintr, before, calls>>

Block(how, old) ==
    /\ pc = "block"
    /\ saved' = [saved EXCEPT !.omask = old]
    /\ mask' = how
    /\ pc' = "vfork"
    /\ UNCHANGED <<action, pending, child, ret, eintr, before, calls>>

\* Mutants: SIGCHLD is not in the set that is blocked; omask is not filled in.
BlockNothing       == Block(mask, mask)
BlockChldUnsaved   == Block("blocked", "unset")

BlockChld == Block("blocked", mask)

\* The caller is suspended until the child calls execl or _exit.
Vfork ==
    /\ pc = "vfork"
    /\ child' = [st |-> "int", action |-> [s \in Keyboard |-> action[s]], mask |-> mask]
    /\ pc' = "child"
    /\ UNCHANGED <<action, mask, pending, saved, ret, eintr, before, calls>>

\* Mutant: the error returns at once.
VforkFailsAtOnce ==
    /\ pc = "vfork"
    /\ ret' = "-1"
    /\ pc' = "app"
    /\ UNCHANGED <<action, mask, pending, saved, child, eintr, before, calls>>

VforkFails ==
    /\ pc = "vfork"
    /\ ret' = "-1"
    /\ pc' = "restore int"
    /\ UNCHANGED <<action, mask, pending, saved, child, eintr, before, calls>>

-----------------------------------------------------------------------------
(* The child.                                                              *)

\* The child ends.  Its status is discarded if the caller ignores SIGCHLD, is
\* taken by the handler if there is one and the signal is not blocked, or
\* waits.
Ended(c) ==
    LET handled == action["SIGCHLD"] = "handler" /\ mask = "open" IN
    /\ child' = [c EXCEPT !.st = IF handled \/ action["SIGCHLD"] = "SIG_IGN"
                                 THEN "reaped" ELSE "zombie"]
    /\ pending' = (pending \/ (action["SIGCHLD"] = "handler" /\ mask = "blocked"))

ChildRestores(st, s, old, next) ==
    /\ child.st = st
    /\ child' = [child EXCEPT !.action[s] = old, !.st = next]
    /\ UNCHANGED <<pc, action, mask, pending, saved, ret, eintr, before, calls>>

ChildRestoresInt  == ChildRestores("int", "SIGINT", saved.sig_int, "quit")

\* Mutant: the actions are given back in the caller only.
ChildKeepsQuit    == ChildRestores("quit", "SIGQUIT", child.action["SIGQUIT"], "mask")
ChildRestoresQuit == ChildRestores("quit", "SIGQUIT", saved.sig_quit, "mask")

ChildRestoresMask ==
    /\ child.st = "mask"
    /\ child' = [child EXCEPT !.mask = saved.omask, !.st = "exec"]
    /\ UNCHANGED <<pc, action, mask, pending, saved, ret, eintr, before, calls>>

\* execl sets what is handled back to SIG_DFL.
ChildExecs ==
    /\ child.st = "exec"
    /\ child' = [child EXCEPT !.st = "runs",
                     !.action = [s \in Keyboard |->
                         IF child.action[s] = "handler" THEN "SIG_DFL" ELSE child.action[s]]]
    /\ pc' = IF pc = "child" THEN "wait" ELSE pc
    /\ UNCHANGED <<action, mask, pending, saved, ret, eintr, before, calls>>

\* The command ends, or there is no shell and the child calls _exit(127).
ChildExits ==
    /\ child.st \in {"exec", "runs"}
    /\ Ended(child)
    /\ pc' = IF pc = "child" THEN "wait" ELSE pc
    /\ UNCHANGED <<action, mask, saved, ret, eintr, before, calls>>

-----------------------------------------------------------------------------
(* The caller after vfork.                                                 *)

Waitpid ==
    /\ pc = "wait"
    /\ child.st = "zombie"
    /\ child' = [child EXCEPT !.st = "reaped"]
    /\ ret' = "status"
    /\ pc' = "restore int"
    /\ UNCHANGED <<action, mask, pending, saved, eintr, before, calls>>

\* ECHILD: the status is gone.
WaitpidFails ==
    /\ pc = "wait"
    /\ child.st = "reaped"
    /\ ret' = "-1"
    /\ pc' = "restore int"
    /\ UNCHANGED <<action, mask, pending, saved, child, eintr, before, calls>>

\* EINTR: a handler ran while the command did; waitpid is not called again.
WaitpidInterrupted ==
    /\ OtherHandler
    /\ pc = "wait"
    /\ child.st = "runs"
    /\ ret' = "-1"
    /\ eintr' = TRUE
    /\ pc' = "restore int"
    /\ UNCHANGED <<action, mask, pending, saved, child, before, calls>>

RestoreInt ==
    /\ pc = "restore int"
    /\ action' = [action EXCEPT !["SIGINT"] = saved.sig_int]
    /\ pc' = "restore quit"
    /\ UNCHANGED <<mask, pending, saved, child, ret, eintr, before, calls>>

RestoreQuit ==
    /\ pc = "restore quit"
    /\ action' = [action EXCEPT !["SIGQUIT"] = saved.sig_quit]
    /\ pc' = "restore mask"
    /\ UNCHANGED <<mask, pending, saved, child, ret, eintr, before, calls>>

\* A SIGCHLD that waited is delivered; its handler finds a child only if
\* waitpid was interrupted.
RestoreMask ==
    /\ pc = "restore mask"
    /\ mask' = saved.omask
    /\ pending' = (pending /\ saved.omask = "blocked")
    /\ child' = IF pending /\ saved.omask = "open" /\ child.st = "zombie"
                THEN [child EXCEPT !.st = "reaped"] ELSE child
    /\ pc' = "app"
    /\ UNCHANGED <<action, saved, ret, eintr, before, calls>>

-----------------------------------------------------------------------------
(* The terminal sends a signal to the caller and to the child.             *)

TerminalSignal(s) ==
    /\ pc # "killed"
    /\ LET dies == child.st \in {"int", "quit", "mask", "exec", "runs"}
                   /\ child.action[s] = "SIG_DFL"
       IN  /\ IF dies THEN Ended(child) ELSE UNCHANGED <<child, pending>>
           /\ pc' = CASE action[s] = "SIG_DFL"         -> "killed"
                      [] action[s] # "SIG_DFL" /\ dies /\ pc = "child" -> "wait"
                      [] OTHER                          -> pc
    /\ UNCHANGED <<action, mask, saved, ret, eintr, before, calls>>

Caller == \/ Call \/ IgnoreInt \/ IgnoreQuit \/ BlockChld \/ Vfork \/ VforkFails
          \/ Waitpid \/ WaitpidFails \/ WaitpidInterrupted \/ RestoreInt \/ RestoreQuit \/ RestoreMask
ChildStep == \/ ChildRestoresInt \/ ChildRestoresQuit \/ ChildRestoresMask
             \/ ChildExecs \/ ChildExits

Next == Caller \/ ChildStep \/ \E s \in Keyboard : TerminalSignal(s)

Spec == Init /\ [][Next]_vars

-----------------------------------------------------------------------------

\* A key that interrupts the command does not end the caller that waits for
\* it: while a child is there, the caller is, unless a handler of another
\* signal interrupted waitpid and exec_shell has returned without the command.
CallerSurvives == pc = "killed" /\ ~eintr => child.st \in {"none", "reaped"}

\* The command reacts to the terminal as it would without exec_shell: what the
\* application ignored stays ignored, the rest ends it; nor is SIGCHLD blocked
\* in it unless it was.
CommandSignals ==
    child.st = "runs" =>
        /\ \A s \in Keyboard :
               (child.action[s] = "SIG_IGN") <=> (before.action[s] = "SIG_IGN")
        /\ child.mask = before.mask

\* However exec_shell returns, the caller's signals are what they were.
RestoredOnReturn ==
    pc = "app" => action = before.action /\ mask = before.mask

\* exec_shell returns when the command is over, and returns the status of its
\* child, not the application's handler, whenever the child ends: "-1" means
\* that nothing was run, unless the application ignores SIGCHLD.  All this
\* unless a handler of another signal interrupted waitpid: then "-1" comes with
\* a command that may still run.
StatusIsTheCommands ==
    pc = "app" /\ ~eintr =>
        /\ child.st \in {"none", "reaped"}
        /\ ret = "-1" => child.st = "none" \/ before.action["SIGCHLD"] = "SIG_IGN"

\* "add SIGCHLD to avoid the No child processes error": waitpid always finds
\* the child.
NoChildError == pc = "wait" => child.st # "reaped"
=============================================================================
