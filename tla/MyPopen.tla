------------------------------ MODULE MyPopen ------------------------------
(***************************************************************************)
(* pipe_open/popen_iml.c: mypopen, its child, the pipe between them, and   *)
(* another child of the caller.  mypopen waits before it returns the       *)
(* stream, so that nobody reads or writes at the caller's end meanwhile.   *)
(***************************************************************************)
EXTENDS Integers

CONSTANTS
    PipeSize,   \* bytes a pipe holds
    MaxOutput   \* bound: bytes a command writes

VARIABLES
    type,       \* 'r' or 'w'
    parent,     \* "caller", "wait", "stream" or "null": where mypopen is, or what it returned;
                \* "closed" once the caller closed the stream
    child,      \* "none", "exec", "command", "caller", "zombie" or "reaped"
    other,      \* the other child: "running", "zombie" or "reaped"
    reads,      \* the command reads its standard input to the end
    left,       \* bytes the command still writes to its standard output
    pipe        \* bytes in the pipe
mypopenVars == <<type, parent, child, other, reads, left, pipe>>

MyPopenInit ==
    /\ type = "r" /\ parent = "caller" /\ child = "none" /\ other \in {"running", "reaped"}
    /\ reads = FALSE /\ left = 0 /\ pipe = 0

\* pipe or fork may fail, and type may be neither.
Mypopen(t, stdin, output) ==
    /\ parent = "caller"
    /\ type' = t
    /\ \/ parent' = "null" /\ UNCHANGED <<child, reads, left>>
       \/ parent' = "wait" /\ child' = "exec" /\ reads' = stdin /\ left' = output
    /\ UNCHANGED <<other, pipe>>

\* When execvp fails, mypopen returns NULL in the child too, and a second copy
\* of the caller goes on.
Exec ==
    /\ child = "exec"
    /\ child' \in {"command", "caller"}
    /\ UNCHANGED <<type, parent, other, reads, left, pipe>>

\* Mutant: the child's other standard stream.
OtherStream(stream) == IF type = "w" THEN stream = "stdout" ELSE stream = "stdin"
\* What dup2 made the pipe of the child.
OnPipe(stream) == IF type = "r" THEN stream = "stdout" ELSE stream = "stdin"

CommandWrites ==
    /\ child = "command" /\ left > 0
    /\ OnPipe("stdout") => parent # "closed"
    /\ left' = left - 1
    /\ IF OnPipe("stdout") THEN pipe < PipeSize /\ pipe' = pipe + 1 ELSE UNCHANGED pipe
    /\ UNCHANGED <<type, parent, child, other, reads>>

\* The pipe has no end of file before the caller closes the end for writing,
\* which stays open, with no stream for it, when fdopen failed.
CommandReads ==
    /\ child = "command" /\ reads
    /\ OnPipe("stdin") => parent = "closed"
    /\ reads' = FALSE
    /\ UNCHANGED <<type, parent, child, other, left, pipe>>

ChildEnds ==
    /\ \/ child = "command" /\ left = 0 /\ ~reads
       \/ child = "command" /\ left > 0 /\ OnPipe("stdout") /\ parent = "closed" \* SIGPIPE
       \/ child = "caller"
    /\ child' = "zombie"
    /\ UNCHANGED <<type, parent, other, reads, left, pipe>>

OtherEnds ==
    /\ other = "running"
    /\ other' = "zombie"
    /\ UNCHANGED <<type, parent, child, reads, left, pipe>>

\* wait(0) takes any child; then the stream, unless fdopen fails.
Wait ==
    /\ parent = "wait"
    /\ \/ child = "zombie" /\ child' = "reaped" /\ UNCHANGED other
       \/ other = "zombie" /\ other' = "reaped" /\ UNCHANGED child
    /\ parent' \in {"stream", "null"}
    /\ UNCHANGED <<type, reads, left, pipe>>

\* A handler interrupts wait, or there is no child to wait for (SIGCHLD is
\* ignored, or a handler reaps): its -1 is not looked at.
WaitFails ==
    /\ parent = "wait"
    /\ parent' \in {"stream", "null"}
    /\ UNCHANGED <<type, child, other, reads, left, pipe>>

\* The caller reads what is there; with the other end of an 'r' stream it
\* could wait for more.
CallerReads ==
    /\ parent = "stream" /\ type = "r" /\ pipe > 0
    /\ pipe' = pipe - 1
    /\ UNCHANGED <<type, parent, child, other, reads, left>>

CallerCloses ==
    /\ parent = "stream"
    /\ parent' = "closed"
    /\ UNCHANGED <<type, child, other, reads, left, pipe>>

MyPopenNext ==
    \/ \E t \in {"r", "w"}, stdin \in BOOLEAN, output \in 0 .. MaxOutput : Mypopen(t, stdin, output)
    \/ Exec \/ CommandWrites \/ CommandReads \/ ChildEnds \/ OtherEnds
    \/ Wait \/ WaitFails \/ CallerReads \/ CallerCloses

\* The kernel runs the child's command and wakes who waits for it.
MyPopenFairness ==
    /\ WF_mypopenVars(Exec) /\ WF_mypopenVars(CommandWrites) /\ WF_mypopenVars(CommandReads)
    /\ WF_mypopenVars(child = "command" /\ ChildEnds) /\ WF_mypopenVars(Wait)

-----------------------------------------------------------------------------

\* A command that mypopen can wait for: with 'r' its output fits into the pipe,
\* with 'w' it does not read to the end of its input.
Fits == IF type = "r" THEN pipe + left <= PipeSize ELSE ~reads

\* mypopen returns for such a command, whatever the other child does; the
\* fairness says nothing about the caller, which cannot drain the pipe yet.
MypopenReturns == parent = "wait" /\ child = "command" /\ Fits ~> parent # "wait"
=============================================================================
