-------------------------------- MODULE Popen --------------------------------
(***************************************************************************)
(* pipe_open/popen.c: popen and pclose with a table childpid[] of the      *)
(* children behind the streams, called in any order by one process.        *)
(*                                                                         *)
(* A pipe ends for its reader when the last descriptor of its write end is *)
(* closed, and for its writer when the last one of its read end is: every  *)
(* fork copies the descriptors of the streams that are open, and what the  *)
(* child does with the copies decides whether pclose ever returns.         *)
(*                                                                         *)
(* Commands are of two kinds: "brief" ones end by themselves, and those    *)
(* that go on until their pipe ends ("cat" for a "w" stream, "yes" for an  *)
(* "r" stream).  Bytes are counted in units of PIPE_BUF.                   *)
(***************************************************************************)
EXTENDS Integers, FiniteSets

CONSTANTS
    MAXFD,      \* open_max(): descriptors are 0 .. MAXFD - 1
    MaxPopen,   \* bound: calls of popen that fork, or try to
    PipeCap,    \* what a pipe holds
    Faults      \* what may go wrong, a subset of FaultKind

\* "reaped": SIGCHLD is ignored, or the application waits for children itself.
FaultKind == {"fork", "fdopen", "sigpipeIgnored", "reaped"}

ASSUME PopenAssumption ==
    /\ MAXFD \in Nat /\ MAXFD >= 3
    /\ MaxPopen \in Nat /\ PipeCap \in Nat \ {0}
    /\ Faults \subseteq FaultKind

VARIABLES
    proc,       \* "idle", in popen "forked", in pclose "closing" or "waiting", "killed"
    cur,        \* the child that popen or pclose is about; 0
    fds,        \* descriptors of the process
    childpid,   \* childpid[fd]: the child behind the stream on fd; 0
    child,      \* the children, by the number of the popen that forked them
    data,       \* data[k]: what is in the pipe of child k
    dirty,      \* descriptors whose stream holds data fclose must write
    lost,       \* children whose popen returned NULL or whose fclose failed
    taken,      \* children somebody else has reaped
    calls       \* calls of popen that forked, or tried to

vars == <<proc, cur, fds, childpid, child, data, dirty, lost, taken, calls>>

Pid  == 1 .. MaxPopen
Fd   == 0 .. MAXFD - 1
Free == <<0, "free">>
Tty  == <<0, "tty">>
Rd(k) == <<k, "rd">>
Wr(k) == <<k, "wr">>
Entry == {Free, Tty} \cup (Pid \X {"rd", "wr"})

NoChild == [st |-> "none", type |-> "r", cmd |-> "brief", rd |-> 0, wr |-> 0,
            tab |-> [i \in Fd |-> Free], others |-> {}]
Child == [st: {"none", "forked", "running", "zombie", "reaped"},
          type: {"r", "w"}, cmd: {"brief", "whole"},
          rd: Fd, wr: Fd,           \* pfd[0] and pfd[1]
          tab: [Fd -> Entry],       \* its descriptors
          others: SUBSET Fd]        \* childpid[] > 0 in its copy

TypeOK ==
    /\ proc \in {"idle", "forked", "closing", "waiting", "killed"}
    /\ cur \in 0 .. MaxPopen
    /\ fds \in [Fd -> Entry]
    /\ childpid \in [Fd -> 0 .. MaxPopen]
    /\ child \in [Pid -> Child]
    /\ data \in [Pid -> 0 .. PipeCap]
    /\ dirty \subseteq Fd
    /\ lost \subseteq Pid /\ taken \subseteq Pid
    /\ calls \in 0 .. MaxPopen

Init ==
    /\ proc = "idle" /\ cur = 0
    /\ fds = [i \in Fd |-> IF i <= 2 THEN Tty ELSE Free]
    /\ childpid = [i \in Fd |-> 0]
    /\ child = [k \in Pid |-> NoChild]
    /\ data = [k \in Pid |-> 0]
    /\ dirty = {} /\ lost = {} /\ taken = {} /\ calls = 0

Live(k) == child[k].st \in {"forked", "running"}

\* Some process has the end open.
Held(end) ==
    \/ \E i \in Fd : fds[i] = end
    \/ \E j \in Pid : Live(j) /\ \E i \in Fd : child[j].tab[i] = end

\* The descriptors pipe returns, the two lowest that are free.
PipeFds(r, w) ==
    /\ fds[r] = Free /\ fds[w] = Free /\ r < w
    /\ \A i \in Fd : i < w /\ i # r => fds[i] # Free

\* The stream's end, of the parent.
StreamEnd(k) == IF child[k].type = "r" THEN Rd(k) ELSE Wr(k)

-----------------------------------------------------------------------------
(* popen.  Without two free descriptors it returns NULL and changes nothing. *)

PopenFork(type, cmd) ==
    /\ proc = "idle"
    /\ calls < MaxPopen
    /\ LET k == calls + 1 IN
       \E r, w \in Fd :
           /\ PipeFds(r, w)
           /\ fds' = [fds EXCEPT ![r] = Rd(k), ![w] = Wr(k)]
           /\ child' = [child EXCEPT ![k] =
                  [st |-> "forked", type |-> type, cmd |-> cmd, rd |-> r, wr |-> w,
                   tab |-> fds', others |-> {i \in Fd : childpid[i] > 0}]]
           /\ cur' = k
    /\ proc' = "forked"
    /\ calls' = calls + 1
    /\ UNCHANGED <<childpid, data, dirty, lost, taken>>

\* Mutant: the result of fork is entered before it is tested.
PopenForkFailsRecorded ==
    /\ "fork" \in Faults
    /\ proc = "idle"
    /\ calls < MaxPopen
    /\ \E r, w \in Fd :
           /\ PipeFds(r, w)
           /\ fds' = [fds EXCEPT ![r] = Rd(calls + 1), ![w] = Wr(calls + 1)]
           /\ childpid' = [childpid EXCEPT ![r] = -1]
    /\ calls' = calls + 1
    /\ lost' = lost \cup {calls + 1}
    /\ UNCHANGED <<proc, cur, child, data, dirty, taken>>

\* fork fails: NULL, and both ends stay open.
PopenForkFails ==
    /\ "fork" \in Faults
    /\ proc = "idle"
    /\ calls < MaxPopen
    /\ \E r, w \in Fd :
           /\ PipeFds(r, w)
           /\ fds' = [fds EXCEPT ![r] = Rd(calls + 1), ![w] = Wr(calls + 1)]
    /\ calls' = calls + 1
    /\ lost' = lost \cup {calls + 1}
    /\ UNCHANGED <<proc, cur, childpid, child, data, dirty, taken>>

\* The parent after fork: close, fdopen, and the entry in childpid[].
Opened(k, mine, theirs) ==
    /\ fds' = [fds EXCEPT ![theirs] = Free]
    /\ \/ /\ childpid' = [childpid EXCEPT ![mine] = k]
          /\ UNCHANGED lost
       \/ /\ "fdopen" \in Faults
          /\ lost' = lost \cup {k}
          /\ UNCHANGED childpid
PopenParent ==
    /\ proc = "forked"
    /\ LET c == child[cur] IN
       IF c.type = "r" THEN Opened(cur, c.rd, c.wr) ELSE Opened(cur, c.wr, c.rd)
    /\ proc' = "idle"
    /\ cur' = 0
    /\ UNCHANGED <<child, data, dirty, taken, calls>>

-----------------------------------------------------------------------------
(* The child.                                                              *)

\* From fork to execl, on descriptors of its own: its end becomes standard
\* output or input, then what its copy of childpid[] names is closed.
Redirected(c) ==
    LET own == IF c.type = "r" THEN c.wr ELSE c.rd
        std == IF c.type = "r" THEN 1 ELSE 0
    IN  [i \in Fd |-> CASE i = std -> c.tab[own]
                        [] i # std /\ i \in {c.rd, c.wr} -> Free
                        [] OTHER -> c.tab[i]]
Exec(k, tab) ==
    /\ child[k].st = "forked"
    /\ child' = [child EXCEPT ![k].st = "running", ![k].tab = tab]
    /\ UNCHANGED <<proc, cur, fds, childpid, data, dirty, lost, taken, calls>>

\* Mutants: the loop over childpid[] is missing, so what the child inherited is kept; childpid[] >= 0 is closed.
ChildExecKeepsOthers(k) == Exec(k, Redirected(child[k]))
ChildExecClosesAll(k)   == Exec(k, [i \in Fd |-> Free])

ChildExec(k) ==
    Exec(k, [i \in Fd |-> IF i \in child[k].others THEN Free ELSE Redirected(child[k])[i]])

\* The command ends; its descriptors are closed.
Ends(k) == child' = [child EXCEPT ![k].st = "zombie", ![k].tab = [i \in Fd |-> Free]]

ChildExits(k) ==
    /\ child[k].st = "running"
    /\ \/ child[k].cmd = "brief"
       \/ child[k].type = "w" /\ data[k] = 0 /\ ~Held(Wr(k))      \* end of file
       \/ child[k].type = "r" /\ ~Held(Rd(k))                     \* SIGPIPE
    /\ Ends(k)
    /\ UNCHANGED <<proc, cur, fds, childpid, data, dirty, lost, taken, calls>>

ChildReads(k) ==
    /\ child[k].st = "running" /\ child[k].type = "w"
    /\ data[k] > 0
    /\ data' = [data EXCEPT ![k] = @ - 1]
    /\ UNCHANGED <<proc, cur, fds, childpid, child, dirty, lost, taken, calls>>

ChildWrites(k) ==
    /\ child[k].st = "running" /\ child[k].type = "r"
    /\ data[k] < PipeCap
    /\ Held(Rd(k))
    /\ data' = [data EXCEPT ![k] = @ + 1]
    /\ UNCHANGED <<proc, cur, fds, childpid, child, dirty, lost, taken, calls>>

ChildStep(k) == ChildExec(k) \/ ChildExits(k) \/ ChildReads(k) \/ ChildWrites(k)

-----------------------------------------------------------------------------
(* The process uses its streams and closes them.                           *)

Put(fd) ==
    /\ proc = "idle"
    /\ childpid[fd] > 0 /\ child[childpid[fd]].type = "w"
    /\ fd \notin dirty
    /\ dirty' = dirty \cup {fd}
    /\ UNCHANGED <<proc, cur, fds, childpid, child, data, lost, taken, calls>>

Get(fd) ==
    /\ proc = "idle"
    /\ childpid[fd] > 0 /\ child[childpid[fd]].type = "r"
    /\ LET k == childpid[fd] IN data[k] > 0 /\ data' = [data EXCEPT ![k] = @ - 1]
    /\ UNCHANGED <<proc, cur, fds, childpid, child, dirty, lost, taken, calls>>

\* Mutant: the entry is kept.
PcloseKeepsPid(fd) ==
    /\ proc = "idle"
    /\ childpid[fd] > 0
    /\ cur' = childpid[fd]
    /\ proc' = "closing"
    /\ UNCHANGED <<fds, childpid, child, data, dirty, lost, taken, calls>>

\* pclose up to fclose.
Pclose(fd) ==
    /\ proc = "idle"
    /\ childpid[fd] > 0
    /\ cur' = childpid[fd]
    /\ childpid' = [childpid EXCEPT ![fd] = 0]
    /\ proc' = "closing"
    /\ UNCHANGED <<fds, child, data, dirty, lost, taken, calls>>

\* fclose: what the stream holds is written, waiting for room, then the
\* descriptor is closed.
CloseFd(fd) ==
    /\ fds[fd] = StreamEnd(cur)
    /\ fds' = [fds EXCEPT ![fd] = Free]
    /\ dirty' = dirty \ {fd}
Fclose ==
    /\ proc = "closing"
    /\ \E fd \in Fd :
           /\ CloseFd(fd)
           /\ IF fd \in dirty
              THEN /\ Held(Rd(cur)) /\ data[cur] < PipeCap
                   /\ data' = [data EXCEPT ![cur] = @ + 1]
              ELSE UNCHANGED data
    /\ proc' = "waiting"
    /\ UNCHANGED <<cur, childpid, child, lost, taken, calls>>

\* Nobody reads: SIGPIPE ends the process, or fclose returns EOF and pclose -1.
FcloseFails ==
    /\ proc = "closing"
    /\ ~Held(Rd(cur))
    /\ \E fd \in dirty :
           /\ fds[fd] = StreamEnd(cur)
           /\ \/ /\ "sigpipeIgnored" \in Faults
                 /\ CloseFd(fd)
                 /\ proc' = "idle" /\ cur' = 0
                 /\ lost' = lost \cup {cur}
              \/ /\ proc' = "killed"
                 /\ fds' = [i \in Fd |-> Free]
                 /\ UNCHANGED <<cur, dirty, lost>>
    /\ UNCHANGED <<childpid, child, data, taken, calls>>

\* waitpid(pid, &stat, 0), again after EINTR.
Waitpid ==
    /\ proc = "waiting"
    /\ child[cur].st = "zombie"
    /\ child' = [child EXCEPT ![cur].st = "reaped"]
    /\ proc' = "idle" /\ cur' = 0
    /\ UNCHANGED <<fds, childpid, data, dirty, lost, taken, calls>>

\* Another error: the child was reaped elsewhere (ECHILD), and pclose returns -1.
WaitpidFails ==
    /\ proc = "waiting"
    /\ child[cur].st = "reaped"
    /\ proc' = "idle" /\ cur' = 0
    /\ UNCHANGED <<fds, childpid, child, data, dirty, lost, taken, calls>>

Parent == PopenParent \/ Fclose \/ FcloseFails \/ Waitpid \/ WaitpidFails

\* Not pclose but the kernel, or a wait of the application's own in a handler
\* or between two calls, takes the status of a child.
ReapedElsewhere(k) ==
    /\ "reaped" \in Faults
    /\ proc # "killed"
    /\ child[k].st = "zombie"
    /\ child' = [child EXCEPT ![k].st = "reaped"]
    /\ taken' = taken \cup {k}
    /\ UNCHANGED <<proc, cur, fds, childpid, data, dirty, lost, calls>>

User ==
    \/ \E type \in {"r", "w"}, cmd \in {"brief", "whole"} : PopenFork(type, cmd)
    \/ PopenForkFails
    \/ \E fd \in Fd : Put(fd) \/ Get(fd) \/ Pclose(fd)

Next == Parent \/ User \/ \E k \in Pid : ChildStep(k) \/ ReapedElsewhere(k)

Spec == Init /\ [][Next]_vars

\* Inside popen and pclose the process goes on when it can; so do commands.
FairSpec == Spec /\ WF_vars(Parent) /\ \A k \in Pid : WF_vars(ChildStep(k))

-----------------------------------------------------------------------------

\* childpid[] and the processes agree: an entry names the child of the stream
\* that really is on the descriptor, although numbers are used again, and pclose
\* has not waited for it yet: it is gone only if SIGCHLD is ignored or the
\* application reaps it itself, and then pclose returns -1.  No child is
\* forgotten, running or as a zombie, except by calls that failed.
Tracked ==
    proc # "killed" =>
        /\ \A fd \in Fd : childpid[fd] > 0 =>
               /\ fds[fd] = StreamEnd(childpid[fd])
               /\ child[childpid[fd]].st = "reaped" => childpid[fd] \in taken
        /\ \A k \in Pid : child[k].st \in {"forked", "running", "zombie"} =>
               \/ k \in lost
               \/ k = cur
               \/ \E fd \in Fd : childpid[fd] = k

\* A command starts with its end of its own pipe as standard output or input,
\* and with it alone: of the streams that were open, it holds no end.
OwnPipeOnly ==
    \A k \in Pid : child[k].st = "running" =>
        /\ child[k].tab[IF child[k].type = "r" THEN 1 ELSE 0] =
               (IF child[k].type = "r" THEN Wr(k) ELSE Rd(k))
        /\ \A i \in Fd : child[k].tab[i][1] \notin Pid \ (lost \cup {k})
        /\ Cardinality({i \in Fd : child[k].tab[i][1] = k}) = 1

\* pclose returns: closing the stream ends the command, whatever other
\* streams are open and in whatever order they are closed, and whoever reaps
\* the child first.
PcloseReturns == (proc \in {"closing", "waiting"}) ~> (proc \in {"idle", "killed"})
=============================================================================
