----------------------------- MODULE Popen_proofs -----------------------------
(***************************************************************************)
(* The table childpid[] of popen.c agrees with the descriptors and the     *)
(* children, and no command holds an end of another one's pipe, for every  *)
(* number of descriptors and of calls.                                     *)
(***************************************************************************)
EXTENDS Popen, FiniteSetTheorems, TLAPS

\* No entry names a child that was not forked yet, and no two name the same.
Entries == /\ \A fd \in Fd : childpid[fd] <= calls
           /\ \A i, j \in Fd : childpid[i] > 0 /\ childpid[i] = childpid[j] => i = j

\* In popen both ends of the new pipe are open.  In popen and in pclose the
\* child is in no entry; elsewhere there is no such child.
Current == /\ proc = "idle" => cur = 0
           /\ proc \in {"forked", "closing", "waiting"} =>
                  cur \in 1 .. calls /\ \A fd \in Fd : childpid[fd] # cur
           /\ proc = "forked" =>
                  /\ (child[cur].st = "reaped" => cur \in taken)
                  /\ child[cur].rd # child[cur].wr
                  /\ fds[child[cur].rd] = Rd(cur) /\ fds[child[cur].wr] = Wr(cur)

IInv == TypeOK /\ Entries /\ Current /\ Tracked

-----------------------------------------------------------------------------
(* Numbers and ends.                                                       *)

\* What the bounds of the model make of its sets of numbers.
LEMMA Numbers ==
    /\ MAXFD \in Nat /\ 0 \in Fd /\ 1 \in Fd /\ 2 \in Fd /\ MaxPopen \in Nat /\ PipeCap \in Nat
    /\ 0 \in 0 .. MaxPopen /\ 0 \in 0 .. PipeCap
    /\ \A k \in Pid : k \in Nat /\ k # 0 /\ k \in 0 .. MaxPopen
BY PopenAssumption DEF Fd, Pid

\* The ends of a pipe are entries, different from each other and from those of
\* the other pipes.
LEMMA PipeEnds ==
    /\ Free \in Entry /\ Tty \in Entry
    /\ \A k \in Pid : Rd(k) \in Entry /\ Wr(k) \in Entry /\ Rd(k) # Free /\ Wr(k) # Free
    /\ \A k, l \in Pid : Rd(k) # Wr(l) /\ (Rd(k) = Rd(l) => k = l) /\ (Wr(k) = Wr(l) => k = l)
BY Numbers DEF Entry, Free, Tty, Rd, Wr

\* A stream sits on an end of its own pipe.
LEMMA StreamEnds ==
    /\ \A k \in Pid : StreamEnd(k) # Free
    /\ \A k, l \in Pid : StreamEnd(k) = StreamEnd(l) => k = l
BY PipeEnds DEF StreamEnd

\* At the start no stream is open.
LEMMA InitHolds == Init => IInv
<1> SUFFICES ASSUME Init PROVE IInv
    OBVIOUS
<1>1. NoChild \in Child
    BY Numbers, PipeEnds DEF NoChild, Child
<1>2. TypeOK
    BY <1>1, Numbers, PipeEnds DEF Init, TypeOK
<1>3. Entries /\ Current /\ Tracked
    BY <1>2, Numbers DEF Init, Entries, Current, Tracked, NoChild, TypeOK
<1> QED BY <1>2, <1>3 DEF IInv

-----------------------------------------------------------------------------
(* One lemma per step.                                                     *)

\* What the steps below look up again and again.
LEMMA Facts ==
    ASSUME IInv
    PROVE  /\ \A fd \in Fd : childpid[fd] > 0 =>
                  childpid[fd] \in Pid /\ childpid[fd] \in 1 .. calls
           /\ calls \in Nat /\ calls <= MaxPopen /\ MaxPopen \in Nat
           /\ \A fd \in Fd : childpid[fd] \in Nat
           /\ \A k \in Pid : child[k] \in Child /\ child[k].rd \in Fd /\ child[k].wr \in Fd
           /\ proc \in {"forked", "closing", "waiting"} => cur \in Pid
<1>1. /\ \A fd \in Fd : childpid[fd] \in 0 .. MaxPopen /\ childpid[fd] <= calls
      /\ calls \in 0 .. MaxPopen /\ MaxPopen \in Nat
    BY Numbers DEF IInv, TypeOK, Entries
<1>2. /\ calls \in Nat /\ calls <= MaxPopen
      /\ \A fd \in Fd : childpid[fd] \in Nat
                        /\ (childpid[fd] > 0 => childpid[fd] \in Pid /\ childpid[fd] \in 1 .. calls)
    BY <1>1 DEF Pid
<1>3. \A k \in Pid : child[k] \in Child /\ child[k].rd \in Fd /\ child[k].wr \in Fd
    BY DEF IInv, TypeOK, Child
<1>4. proc \in {"forked", "closing", "waiting"} => cur \in Pid
    BY <1>1 DEF IInv, Current, Pid
<1> QED BY <1>1, <1>2, <1>3, <1>4

\* popen up to fork.
LEMMA PopenForkKeeps ==
    ASSUME IInv, NEW type \in {"r", "w"}, NEW cmd \in {"brief", "whole"}, PopenFork(type, cmd)
    PROVE  IInv'
<1> DEFINE k == calls + 1
<1>1. k \in Pid /\ k \in 1 .. MaxPopen /\ k # 0 /\ calls \in Nat /\ calls' = k /\ proc = "idle"
    BY Facts, Numbers DEF PopenFork, Pid
<1> HIDE DEF k
<1>2. PICK r \in Fd, w \in Fd :
          /\ PipeFds(r, w)
          /\ fds' = [fds EXCEPT ![r] = Rd(k), ![w] = Wr(k)]
          /\ child' = [child EXCEPT ![k] =
                 [st |-> "forked", type |-> type, cmd |-> cmd, rd |-> r, wr |-> w,
                  tab |-> fds', others |-> {i \in Fd : childpid[i] > 0}]]
          /\ cur' = k
    BY DEF PopenFork, k
<1>3. UNCHANGED <<childpid, data, dirty, lost, taken>> /\ proc' = "forked"
    BY DEF PopenFork
<1>4. r # w /\ fds[r] = Free /\ fds[w] = Free
    BY <1>2, Numbers DEF PipeFds, Fd
<1>5. fds \in [Fd -> Entry] /\ child \in [Pid -> Child]
    BY DEF IInv, TypeOK
<1>6. fds' \in [Fd -> Entry] /\ fds'[r] = Rd(k) /\ fds'[w] = Wr(k)
      /\ \A i \in Fd \ {r, w} : fds'[i] = fds[i]
    BY <1>1, <1>2, <1>4, <1>5, PipeEnds
<1>7. child' \in [Pid -> Child] /\ (\A j \in Pid \ {k} : child'[j] = child[j])
      /\ child'[k].st = "forked" /\ child'[k].rd = r /\ child'[k].wr = w
    <2>1. [st |-> "forked", type |-> type, cmd |-> cmd, rd |-> r, wr |-> w,
           tab |-> fds', others |-> {i \in Fd : childpid[i] > 0}] \in Child
        BY <1>2, <1>6 DEF Child
    <2> QED BY <1>1, <1>2, <1>5, <2>1
<1>8. TypeOK'
    BY <1>1, <1>2, <1>3, <1>6, <1>7, Facts, Numbers DEF IInv, TypeOK, Pid
<1>9. \A fd \in Fd : childpid'[fd] <= calls /\ childpid'[fd] \in Nat /\ childpid'[fd] # k
      /\ (childpid'[fd] > 0 => childpid'[fd] \in Pid)
    BY <1>1, <1>3, Facts DEF IInv, Entries, k
<1>10. Entries'
    BY <1>1, <1>3, <1>9 DEF IInv, Entries, k
<1>11. Current'
    BY <1>1, <1>2, <1>3, <1>4, <1>6, <1>7, <1>9 DEF Current
<1>12. Tracked'
    <2>1. ASSUME NEW fd \in Fd, childpid'[fd] > 0
          PROVE  (fds[fd] = StreamEnd(childpid[fd]) /\ (child[childpid[fd]].st = "reaped" => childpid[fd] \in taken))'
        <3>1. fds[fd] = StreamEnd(childpid[fd]) /\ (child[childpid[fd]].st = "reaped" => childpid[fd] \in taken) /\ childpid[fd] \in Pid
            BY <1>1, <1>3, <1>9, <2>1 DEF IInv, Tracked
        <3>2. fd # r /\ fd # w
            BY <1>4, <3>1, StreamEnds
        <3>3. child'[childpid'[fd]] = child[childpid[fd]] /\ fds'[fd] = fds[fd]
            BY <1>3, <1>6, <1>7, <1>9, <3>1, <3>2
        <3> QED BY <1>3, <3>1, <3>3 DEF StreamEnd
    <2>2. ASSUME NEW j \in Pid, child'[j].st \in {"forked", "running", "zombie"}, j # k
          PROVE  j \in lost \/ \E fd \in Fd : childpid[fd] = j
        <3>1. child[j].st \in {"forked", "running", "zombie"} /\ cur = 0 /\ j # 0
            BY <1>1, <1>7, <2>2, Numbers DEF IInv, Current
        <3> QED BY <1>1, <3>1 DEF IInv, Tracked
    <2> QED BY <1>2, <1>3, <2>1, <2>2 DEF Tracked
<1> QED BY <1>8, <1>10, <1>11, <1>12 DEF IInv

\* popen when fork fails.
LEMMA PopenForkFailsKeeps ==
    ASSUME IInv, PopenForkFails
    PROVE  IInv'
<1> DEFINE k == calls + 1
<1>1. k \in Pid /\ k \in 1 .. MaxPopen /\ calls \in Nat /\ calls' = k /\ proc = "idle"
      /\ lost' = lost \cup {k} /\ UNCHANGED <<proc, cur, childpid, child, data, dirty, taken>>
    BY Facts, Numbers DEF PopenForkFails, Pid
<1> HIDE DEF k
<1>2. PICK r \in Fd, w \in Fd : PipeFds(r, w) /\ fds' = [fds EXCEPT ![r] = Rd(k), ![w] = Wr(k)]
    BY DEF PopenForkFails, k
<1>3. fds[r] = Free /\ fds[w] = Free
    BY <1>2 DEF PipeFds
<1>4. fds' \in [Fd -> Entry] /\ \A i \in Fd \ {r, w} : fds'[i] = fds[i]
    BY <1>1, <1>2, PipeEnds DEF IInv, TypeOK
<1>5. TypeOK'
    BY <1>1, <1>4, Facts DEF IInv, TypeOK
<1>6. \A fd \in Fd : childpid[fd] <= calls'
    BY <1>1, Facts DEF IInv, Entries, k
<1>7. Entries'
    BY <1>1, <1>6 DEF IInv, Entries
<1>8. Current'
    BY <1>1 DEF IInv, Current
<1>9. Tracked'
    <2>1. ASSUME NEW fd \in Fd, childpid[fd] > 0
          PROVE  fds'[fd] = StreamEnd(childpid[fd]) /\ (child[childpid[fd]].st = "reaped" => childpid[fd] \in taken)
        <3>1. fds[fd] = StreamEnd(childpid[fd]) /\ (child[childpid[fd]].st = "reaped" => childpid[fd] \in taken) /\ childpid[fd] \in Pid
            BY <1>1, <2>1, Facts DEF IInv, Tracked
        <3> QED BY <1>3, <1>4, <3>1, StreamEnds
    <2> QED BY <1>1, <2>1 DEF IInv, Tracked, StreamEnd
<1> QED BY <1>5, <1>7, <1>8, <1>9 DEF IInv

\* popen after fork, fdopen failing or not.
LEMMA PopenParentKeeps ==
    ASSUME IInv, PopenParent
    PROVE  IInv'
<1> PICK mine \in Fd, theirs \in Fd :
        /\ mine # theirs
        /\ fds[mine] = StreamEnd(cur)
        /\ \A k \in Pid : fds[theirs] # StreamEnd(k)
        /\ Opened(cur, mine, theirs)
    <2>1. /\ proc = "forked" /\ cur \in Pid /\ child[cur] \in Child /\ child[cur].rd # child[cur].wr
          /\ child[cur].rd \in Fd /\ child[cur].wr \in Fd
          /\ fds[child[cur].rd] = Rd(cur) /\ fds[child[cur].wr] = Wr(cur)
        BY Facts DEF IInv, Current, PopenParent
    <2>2. CASE child[cur].type = "r"
        <3>1. StreamEnd(cur) = Rd(cur) /\ \A k \in Pid : Wr(cur) # StreamEnd(k)
            BY <2>1, <2>2, PipeEnds DEF StreamEnd
        <3>2. Opened(cur, child[cur].rd, child[cur].wr)
            BY <2>2 DEF PopenParent
        <3> QED BY <2>1, <3>1, <3>2
    <2>3. CASE child[cur].type # "r"
        <3>1. StreamEnd(cur) = Wr(cur) /\ \A k \in Pid : Rd(cur) # StreamEnd(k)
            BY <2>1, <2>3, PipeEnds DEF StreamEnd
        <3>2. Opened(cur, child[cur].wr, child[cur].rd)
            BY <2>3 DEF PopenParent
        <3> QED BY <2>1, <3>1, <3>2
    <2> QED BY <2>2, <2>3
<1>1. /\ cur \in Pid /\ cur \in 1 .. calls /\ cur # 0 /\ (child[cur].st = "reaped" => cur \in taken)
      /\ (\A fd \in Fd : childpid[fd] # cur) /\ calls \in Nat /\ proc = "forked"
    BY Facts, Numbers DEF IInv, Current, PopenParent
<1>2. proc' = "idle" /\ cur' = 0 /\ UNCHANGED <<child, data, dirty, taken, calls>>
      /\ fds' = [fds EXCEPT ![theirs] = Free]
    BY DEF PopenParent, Opened
<1>3. fds' \in [Fd -> Entry] /\ \A i \in Fd \ {theirs} : fds'[i] = fds[i]
    BY <1>2, PipeEnds DEF IInv, TypeOK
<1>4. \A fd \in Fd : childpid[fd] > 0 =>
          /\ fds'[fd] = StreamEnd(childpid[fd]) /\ (child[childpid[fd]].st = "reaped" => childpid[fd] \in taken)
          /\ fd # mine
    <2>1. ASSUME NEW fd \in Fd, childpid[fd] > 0
          PROVE  /\ fds'[fd] = StreamEnd(childpid[fd]) /\ (child[childpid[fd]].st = "reaped" => childpid[fd] \in taken)
                 /\ fd # mine
        <3>1. fds[fd] = StreamEnd(childpid[fd]) /\ (child[childpid[fd]].st = "reaped" => childpid[fd] \in taken) /\ childpid[fd] \in Pid
            BY <1>1, <2>1, Facts DEF IInv, Tracked
        <3>2. fd # theirs
            BY <3>1
        <3>3. fd # mine
            BY <1>1, <3>1, StreamEnds
        <3> QED BY <1>3, <3>1, <3>2, <3>3
    <2> QED BY <2>1
<1>5. \A k \in Pid : child[k].st \in {"forked", "running", "zombie"} =>
          k \in lost \/ k = cur \/ \E fd \in Fd : childpid[fd] = k
    BY <1>1 DEF IInv, Tracked
<1>6. fds'[mine] = StreamEnd(cur)
    BY <1>3
<1>7. CASE childpid' = [childpid EXCEPT ![mine] = cur] /\ lost' = lost
    <2>1. childpid' \in [Fd -> 0 .. MaxPopen] /\ childpid'[mine] = cur
          /\ \A fd \in Fd \ {mine} : childpid'[fd] = childpid[fd]
        BY <1>1, <1>7, Numbers DEF IInv, TypeOK
    <2>2. TypeOK'
        BY <1>2, <1>3, <1>7, <2>1, Numbers DEF IInv, TypeOK
    <2>3. Entries'
        BY <1>1, <1>2, <2>1 DEF IInv, Entries
    <2>4. \A k \in Pid : child[k].st \in {"forked", "running", "zombie"} =>
              k \in lost \/ \E fd \in Fd : childpid'[fd] = k
        <3>1. ASSUME NEW k \in Pid, NEW fd \in Fd, childpid[fd] = k PROVE fd # mine
            <4>1. childpid[fd] > 0
                BY <3>1, Numbers
            <4> QED BY <1>4, <4>1
        <3> QED BY <1>5, <2>1, <3>1
    <2>5. Tracked'
        BY <1>1, <1>2, <1>4, <1>6, <1>7, <2>1, <2>4 DEF Tracked, StreamEnd
    <2> QED BY <1>2, <2>2, <2>3, <2>5 DEF IInv, Current
<1>8. CASE childpid' = childpid /\ lost' = lost \cup {cur}
    <2>1. TypeOK'
        BY <1>1, <1>2, <1>3, <1>8, Numbers DEF IInv, TypeOK
    <2>2. Entries'
        BY <1>2, <1>8 DEF IInv, Entries
    <2>3. Tracked'
        BY <1>2, <1>4, <1>5, <1>8 DEF Tracked, StreamEnd
    <2> QED BY <1>2, <2>1, <2>2, <2>3 DEF IInv, Current
<1> QED BY <1>7, <1>8 DEF Opened

\* A step of a child changes its state and its own descriptors.
LEMMA ChildChanges ==
    ASSUME IInv, NEW k \in Pid, NEW c \in Child, child' = [child EXCEPT ![k] = c],
           c.rd = child[k].rd, c.wr = child[k].wr, c.type = child[k].type,
           c.st \in {"running", "zombie"}, child[k].st \in {"forked", "running"},
           UNCHANGED <<proc, cur, fds, childpid, data, dirty, lost, taken, calls>>
    PROVE  IInv'
<1>1. child' \in [Pid -> Child] /\ child'[k] = c /\ \A j \in Pid \ {k} : child'[j] = child[j]
    BY DEF IInv, TypeOK
<1>2. \A j \in Pid : /\ child'[j].rd = child[j].rd /\ child'[j].wr = child[j].wr
                     /\ child'[j].type = child[j].type
                     /\ child'[j].st = "reaped" <=> child[j].st = "reaped"
                     /\ child'[j].st \in {"forked", "running", "zombie"} <=>
                            child[j].st \in {"forked", "running", "zombie"}
    BY <1>1
<1>3. TypeOK'
    BY <1>1 DEF IInv, TypeOK
<1>4. Entries'
    BY DEF IInv, Entries
<1>5. Current'
    <2>1. proc = "forked" => cur \in Pid
        BY Facts
    <2> QED BY <1>2, <2>1 DEF IInv, Current
<1>6. Tracked'
    <2>1. ASSUME proc # "killed", NEW fd \in Fd, childpid[fd] > 0
          PROVE  fds'[fd] = StreamEnd(childpid[fd])' /\ (child'[childpid[fd]].st = "reaped" => childpid[fd] \in taken')
        BY <1>2, <2>1, Facts DEF IInv, Tracked, StreamEnd
    <2>2. ASSUME proc # "killed", NEW j \in Pid, child'[j].st \in {"forked", "running", "zombie"}
          PROVE  j \in lost \/ j = cur \/ \E fd \in Fd : childpid[fd] = j
        BY <1>2, <2>2 DEF IInv, Tracked
    <2> QED BY <2>1, <2>2 DEF Tracked
<1> QED BY <1>3, <1>4, <1>5, <1>6 DEF IInv

\* The child up to exec, and the command.
LEMMA ChildStepKeeps ==
    ASSUME IInv, NEW k \in Pid, ChildStep(k)
    PROVE  IInv'
<1>1. child[k] \in Child /\ child \in [Pid -> Child] /\ \A i \in Fd : child[k].tab[i] \in Entry
    BY Facts DEF IInv, TypeOK, Child
<1>2. [i \in Fd |-> Free] \in [Fd -> Entry]
    BY PipeEnds
<1>3. ASSUME NEW tab \in [Fd -> Entry], NEW st \in {"running", "zombie"}
      PROVE  /\ [child[k] EXCEPT !.st = st, !.tab = tab] \in Child
             /\ [child[k] EXCEPT !.st = st, !.tab = tab].rd = child[k].rd
             /\ [child[k] EXCEPT !.st = st, !.tab = tab].wr = child[k].wr
             /\ [child[k] EXCEPT !.st = st, !.tab = tab].type = child[k].type
             /\ [child[k] EXCEPT !.st = st, !.tab = tab].st = st
    BY <1>1 DEF Child
<1>4. CASE ChildExec(k)
    <2> DEFINE tab == [i \in Fd |-> IF i \in child[k].others THEN Free ELSE Redirected(child[k])[i]]
    <2>1. \A i \in Fd : Redirected(child[k])[i] \in Entry
        BY <1>1, Facts, Numbers, PipeEnds DEF Redirected
    <2>2. tab \in [Fd -> Entry]
        BY <2>1, PipeEnds
    <2>3. /\ child[k].st = "forked"
          /\ child' = [child EXCEPT ![k] = [child[k] EXCEPT !.st = "running", !.tab = tab]]
          /\ UNCHANGED <<proc, cur, fds, childpid, data, dirty, lost, taken, calls>>
        BY <1>1, <1>4 DEF ChildExec, Exec
    <2> HIDE DEF tab
    <2> QED BY <1>3, <2>2, <2>3, ChildChanges
<1>5. CASE ChildExits(k)
    <2>1. /\ child[k].st = "running"
          /\ child' = [child EXCEPT ![k] = [child[k] EXCEPT !.st = "zombie", !.tab = [i \in Fd |-> Free]]]
          /\ UNCHANGED <<proc, cur, fds, childpid, data, dirty, lost, taken, calls>>
        BY <1>1, <1>5 DEF ChildExits, Ends
    <2> QED BY <1>2, <1>3, <2>1, ChildChanges
<1>6. CASE ChildReads(k) \/ ChildWrites(k)
    <2>1. UNCHANGED <<proc, cur, fds, childpid, child, dirty, lost, taken, calls>>
        BY <1>6 DEF ChildReads, ChildWrites
    <2>2. data' \in [Pid -> 0 .. PipeCap]
        BY <1>6, Numbers DEF ChildReads, ChildWrites, IInv, TypeOK
    <2> QED BY <2>1, <2>2 DEF IInv, TypeOK, Entries, Current, Tracked, StreamEnd
<1> QED BY <1>4, <1>5, <1>6 DEF ChildStep

\* Writing to a stream and reading from one.
LEMMA UseKeeps ==
    ASSUME IInv, NEW fd \in Fd, Put(fd) \/ Get(fd)
    PROVE  IInv'
<1>1. UNCHANGED <<proc, cur, fds, childpid, child, lost, taken, calls>>
    BY DEF Put, Get
<1>2. dirty' \subseteq Fd
    BY DEF Put, Get, IInv, TypeOK
<1>3. data' \in [Pid -> 0 .. PipeCap]
    BY Numbers, Facts DEF Put, Get, IInv, TypeOK
<1> QED BY <1>1, <1>2, <1>3 DEF IInv, TypeOK, Entries, Current, Tracked, StreamEnd

\* pclose up to fclose.
LEMMA PcloseKeeps ==
    ASSUME IInv, NEW fd \in Fd, Pclose(fd)
    PROVE  IInv'
<1>1. /\ proc = "idle" /\ cur = 0 /\ childpid[fd] \in Pid /\ childpid[fd] \in 1 .. calls
      /\ childpid[fd] \in 0 .. MaxPopen
    BY Facts, Numbers DEF Pclose, IInv, Current
<1>2. /\ cur' = childpid[fd] /\ proc' = "closing" /\ childpid' = [childpid EXCEPT ![fd] = 0]
      /\ UNCHANGED <<fds, child, data, dirty, lost, taken, calls>>
    BY DEF Pclose
<1>3. childpid' \in [Fd -> 0 .. MaxPopen] /\ childpid'[fd] = 0
      /\ \A i \in Fd \ {fd} : childpid'[i] = childpid[i]
    BY <1>2, Numbers DEF IInv, TypeOK
<1>4. TypeOK'
    BY <1>1, <1>2, <1>3 DEF IInv, TypeOK
<1>5. Entries'
    BY <1>2, <1>3, Facts DEF IInv, Entries
<1>6. \A i \in Fd : childpid'[i] # cur'
    BY <1>1, <1>2, <1>3, Numbers DEF IInv, Entries
<1>7. Current'
    BY <1>1, <1>2, <1>6 DEF Current
<1>8. Tracked'
    <2>1. ASSUME NEW i \in Fd, childpid'[i] > 0
          PROVE  i # fd /\ childpid'[i] = childpid[i] /\ childpid[i] > 0
        BY <1>3, <2>1
    <2>2. ASSUME NEW j \in Pid, child[j].st \in {"forked", "running", "zombie"}
          PROVE  j \in lost \/ j = cur' \/ \E i \in Fd : childpid'[i] = j
        <3>1. j \in lost \/ \E i \in Fd : childpid[i] = j
            BY <1>1, <2>2, Numbers DEF IInv, Tracked
        <3> QED BY <1>2, <1>3, <3>1
    <2> QED BY <1>1, <1>2, <2>1, <2>2 DEF IInv, Tracked, StreamEnd
<1> QED BY <1>4, <1>5, <1>7, <1>8 DEF IInv

\* The descriptor of a stream whose child is in no entry is closed.
LEMMA ClosingKeeps ==
    ASSUME IInv, proc = "closing", NEW fd \in Fd, CloseFd(fd),
           data' \in [Pid -> 0 .. PipeCap], UNCHANGED <<childpid, child, taken, calls>>,
           \/ proc' = "waiting" /\ cur' = cur /\ lost' = lost
           \/ proc' = "idle" /\ cur' = 0 /\ lost' = lost \cup {cur}
    PROVE  IInv'
<1>1. cur \in Pid /\ cur \in 1 .. calls /\ \A i \in Fd : childpid[i] # cur
    BY Facts DEF IInv, Current
<1>2. fds' \in [Fd -> Entry] /\ dirty' \subseteq Fd /\ \A i \in Fd \ {fd} : fds'[i] = fds[i]
    BY PipeEnds DEF CloseFd, IInv, TypeOK
<1>3. TypeOK'
    BY <1>1, <1>2, Numbers DEF IInv, TypeOK
<1>4. Entries'
    BY DEF IInv, Entries
<1>5. Current'
    BY <1>1 DEF Current
<1>6. Tracked'
    <2>1. ASSUME NEW i \in Fd, childpid[i] > 0
          PROVE  fds'[i] = StreamEnd(childpid[i]) /\ (child[childpid[i]].st = "reaped" => childpid[i] \in taken)
        <3>1. fds[i] = StreamEnd(childpid[i]) /\ (child[childpid[i]].st = "reaped" => childpid[i] \in taken) /\ childpid[i] \in Pid
            BY <2>1, Facts DEF IInv, Tracked
        <3>2. fds[fd] = StreamEnd(cur)
            BY DEF CloseFd
        <3>3. i # fd
            BY <1>1, <3>1, <3>2, StreamEnds
        <3> QED BY <1>2, <3>1, <3>3
    <2>2. ASSUME NEW j \in Pid, child[j].st \in {"forked", "running", "zombie"}
          PROVE  j \in lost' \/ j = cur' \/ \E i \in Fd : childpid[i] = j
        BY <2>2 DEF IInv, Tracked
    <2> QED BY <2>1, <2>2 DEF Tracked, StreamEnd
<1> QED BY <1>3, <1>4, <1>5, <1>6 DEF IInv

\* fclose.
LEMMA FcloseKeeps ==
    ASSUME IInv, Fclose
    PROVE  IInv'
<1>1. proc = "closing" /\ proc' = "waiting" /\ UNCHANGED <<cur, childpid, child, lost, taken, calls>>
    BY DEF Fclose
<1>2. PICK fd \in Fd :
          /\ CloseFd(fd)
          /\ IF fd \in dirty
             THEN /\ Held(Rd(cur)) /\ data[cur] < PipeCap
                  /\ data' = [data EXCEPT ![cur] = @ + 1]
             ELSE UNCHANGED data
    BY DEF Fclose
<1>3. data' \in [Pid -> 0 .. PipeCap]
    BY <1>2, Numbers DEF IInv, TypeOK
<1> QED BY <1>1, <1>2, <1>3, ClosingKeeps

\* fclose when nobody reads.
LEMMA FcloseFailsKeeps ==
    ASSUME IInv, FcloseFails
    PROVE  IInv'
<1>1. proc = "closing" /\ UNCHANGED <<childpid, child, data, taken, calls>> /\ dirty \subseteq Fd
      /\ data' \in [Pid -> 0 .. PipeCap]
    BY DEF FcloseFails, IInv, TypeOK
<1>2. PICK fd \in dirty :
          \/ CloseFd(fd) /\ proc' = "idle" /\ cur' = 0 /\ lost' = lost \cup {cur}
          \/ proc' = "killed" /\ fds' = [i \in Fd |-> Free] /\ UNCHANGED <<cur, dirty, lost>>
    BY DEF FcloseFails
<1>3. fd \in Fd
    BY <1>1
<1>4. CASE CloseFd(fd) /\ proc' = "idle" /\ cur' = 0 /\ lost' = lost \cup {cur}
    BY <1>1, <1>3, <1>4, ClosingKeeps
<1>5. CASE proc' = "killed" /\ fds' = [i \in Fd |-> Free] /\ UNCHANGED <<cur, dirty, lost>>
    <2>1. fds' \in [Fd -> Entry]
        BY <1>5, PipeEnds
    <2> QED BY <1>1, <1>5, <2>1 DEF IInv, TypeOK, Entries, Current, Tracked
<1> QED BY <1>2, <1>4, <1>5

\* waitpid.
LEMMA WaitpidKeeps ==
    ASSUME IInv, Waitpid
    PROVE  IInv'
<1>1. /\ cur \in Pid /\ (\A i \in Fd : childpid[i] # cur) /\ child[cur] \in Child
      /\ proc = "waiting" /\ proc' = "idle" /\ cur' = 0
      /\ UNCHANGED <<fds, childpid, data, dirty, lost, taken, calls>>
    BY Facts DEF IInv, Current, Waitpid
<1>2. [child[cur] EXCEPT !.st = "reaped"] \in Child /\ [child[cur] EXCEPT !.st = "reaped"].st = "reaped"
    BY <1>1 DEF Child
<1>3. child' = [child EXCEPT ![cur] = [child[cur] EXCEPT !.st = "reaped"]]
    BY <1>1 DEF Waitpid
<1>4. child' \in [Pid -> Child] /\ child'[cur].st = "reaped" /\ \A j \in Pid \ {cur} : child'[j] = child[j]
    BY <1>1, <1>2, <1>3 DEF IInv, TypeOK
<1>5. TypeOK'
    BY <1>1, <1>4, Numbers DEF IInv, TypeOK
<1>6. Entries' /\ Current'
    BY <1>1 DEF IInv, Entries, Current
<1>7. Tracked'
    <2>1. ASSUME NEW i \in Fd, childpid[i] > 0
          PROVE  fds[i] = StreamEnd(childpid[i])' /\ (child'[childpid[i]].st = "reaped" => childpid[i] \in taken')
        <3>1. fds[i] = StreamEnd(childpid[i]) /\ (child[childpid[i]].st = "reaped" => childpid[i] \in taken)
              /\ childpid[i] \in Pid \ {cur}
            BY <1>1, <2>1, Facts DEF IInv, Tracked
        <3> QED BY <1>1, <1>4, <3>1 DEF StreamEnd
    <2>2. ASSUME NEW j \in Pid, child'[j].st \in {"forked", "running", "zombie"}
          PROVE  j \in lost \/ \E i \in Fd : childpid[i] = j
        BY <1>1, <1>4, <2>2 DEF IInv, Tracked
    <2> QED BY <1>1, <2>1, <2>2 DEF Tracked
<1> QED BY <1>5, <1>6, <1>7 DEF IInv

\* waitpid for a child that somebody else has reaped: pclose returns all the same.
LEMMA WaitpidFailsKeeps ==
    ASSUME IInv, WaitpidFails
    PROVE  IInv'
<1>1. /\ cur \in Pid /\ child[cur].st = "reaped"
      /\ proc = "waiting" /\ proc' = "idle" /\ cur' = 0
      /\ UNCHANGED <<fds, childpid, child, data, dirty, lost, taken, calls>>
    BY Facts DEF WaitpidFails
<1>2. TypeOK'
    BY <1>1, Numbers DEF IInv, TypeOK
<1>3. Entries' /\ Current'
    BY <1>1 DEF IInv, Entries, Current
<1>4. Tracked'
    BY <1>1 DEF IInv, Tracked, StreamEnd
<1> QED BY <1>2, <1>3, <1>4 DEF IInv

\* A zombie that somebody else reaps is entered in taken.
LEMMA ReapedElsewhereKeeps ==
    ASSUME IInv, NEW k \in Pid, ReapedElsewhere(k)
    PROVE  IInv'
<1> DEFINE c == [child[k] EXCEPT !.st = "reaped"]
<1>1. /\ child[k].st = "zombie" /\ child[k] \in Child
      /\ taken' = taken \cup {k}
      /\ UNCHANGED <<proc, cur, fds, childpid, data, dirty, lost, calls>>
    BY Facts DEF ReapedElsewhere
<1>2. /\ c \in Child /\ c.st = "reaped"
      /\ c.rd = child[k].rd /\ c.wr = child[k].wr /\ c.type = child[k].type
    BY <1>1 DEF Child
<1>3. child' = [child EXCEPT ![k] = c]
    BY <1>1 DEF ReapedElsewhere
<1> HIDE DEF c
<1>4. child' \in [Pid -> Child] /\ child'[k] = c /\ \A j \in Pid \ {k} : child'[j] = child[j]
    BY <1>2, <1>3 DEF IInv, TypeOK
<1>5. \A j \in Pid : /\ child'[j].rd = child[j].rd /\ child'[j].wr = child[j].wr
                     /\ child'[j].type = child[j].type
                     /\ child'[j].st = "reaped" => child[j].st = "reaped" \/ j \in taken'
                     /\ child'[j].st \in {"forked", "running", "zombie"} =>
                            child[j].st \in {"forked", "running", "zombie"}
    BY <1>1, <1>2, <1>4
<1>6. TypeOK'
    BY <1>1, <1>4 DEF IInv, TypeOK
<1>7. Entries'
    BY <1>1 DEF IInv, Entries
<1>8. Current'
    <2>1. proc = "forked" => cur \in Pid
        BY Facts
    <2> QED BY <1>1, <1>5, <2>1 DEF IInv, Current
<1>9. Tracked'
    <2>1. ASSUME proc # "killed", NEW fd \in Fd, childpid[fd] > 0
          PROVE  fds'[fd] = StreamEnd(childpid[fd])' /\ (child'[childpid[fd]].st = "reaped" => childpid[fd] \in taken')
        BY <1>1, <1>5, <2>1, Facts DEF IInv, Tracked, StreamEnd
    <2>2. ASSUME proc # "killed", NEW j \in Pid, child'[j].st \in {"forked", "running", "zombie"}
          PROVE  j \in lost \/ j = cur \/ \E fd \in Fd : childpid[fd] = j
        BY <1>5, <2>2 DEF IInv, Tracked
    <2> QED BY <1>1, <2>1, <2>2 DEF Tracked
<1> QED BY <1>6, <1>7, <1>8, <1>9 DEF IInv

\* Every step.
LEMMA NextKeeps == IInv /\ [Next]_vars => IInv'
<1> SUFFICES ASSUME IInv, [Next]_vars PROVE IInv'
    OBVIOUS
<1>1. CASE Parent
    BY <1>1, PopenParentKeeps, FcloseKeeps, FcloseFailsKeeps, WaitpidKeeps, WaitpidFailsKeeps DEF Parent
<1>2. CASE User
    BY <1>2, PopenForkKeeps, PopenForkFailsKeeps, UseKeeps, PcloseKeeps DEF User
<1>3. CASE \E k \in Pid : ChildStep(k)
    BY <1>3, ChildStepKeeps
<1>4. CASE \E k \in Pid : ReapedElsewhere(k)
    BY <1>4, ReapedElsewhereKeeps
<1>5. CASE UNCHANGED vars
    BY <1>5 DEF vars, IInv, TypeOK, Entries, Current, Tracked, StreamEnd
<1> QED BY <1>1, <1>2, <1>3, <1>4, <1>5 DEF Next

-----------------------------------------------------------------------------
(* The ends that a child inherits.                                         *)

\* Standard input and output are not a stream's.
Standard == proc # "killed" => fds[0] = Tty /\ fds[1] = Tty

\* Of a pipe whose popen did not fail one end is open, the one that childpid[]
\* names; in popen both, and in pclose the one about to be closed.
Ours ==
    proc # "killed" =>
        /\ \A i \in Fd : fds[i][1] <= calls
        /\ \A i \in Fd : fds[i][1] \in Pid \ lost =>
               childpid[i] = fds[i][1] \/ (proc \in {"forked", "closing"} /\ fds[i][1] = cur)
        /\ \A i, j \in Fd : fds[i][1] \in Pid \ lost /\ fds[i][1] = fds[j][1] =>
               i = j \/ (proc = "forked" /\ fds[i][1] = cur)
        /\ proc = "forked" => \A i \in Fd : fds[i][1] = cur => i \in {child[cur].rd, child[cur].wr}

\* What child k has before exec: the ends of its pipe, and ends of streams that
\* its copy of childpid[] names.
Copied(c, k) ==
    /\ c.rd # c.wr /\ {0, 1} \cap {c.rd, c.wr} = {} /\ c.others \cap {0, 1, c.rd, c.wr} = {}
    /\ c.tab[c.rd] = Rd(k) /\ c.tab[c.wr] = Wr(k)
    /\ \A i \in Fd \ {c.rd, c.wr} :
           c.tab[i][1] # k /\ (c.tab[i][1] \in Pid \ lost => i \in c.others)

\* What it has after exec, as OwnPipeOnly says.
Own(c, k) ==
    /\ c.tab[IF c.type = "r" THEN 1 ELSE 0] = (IF c.type = "r" THEN Wr(k) ELSE Rd(k))
    /\ \A i \in Fd : c.tab[i][1] \notin Pid \ (lost \cup {k})
    /\ Cardinality({i \in Fd : c.tab[i][1] = k}) = 1

Children == \A k \in Pid : /\ child[k].st = "forked" => Copied(child[k], k)
                           /\ child[k].st = "running" => Own(child[k], k)

EndsInv == IInv /\ Standard /\ Ours /\ Children

\* Whose pipe an entry is of.
LEMMA Owners ==
    /\ Free[1] = 0 /\ Tty[1] = 0 /\ 0 \notin Pid /\ Tty # Free
    /\ \A k \in Pid : /\ Rd(k)[1] = k /\ Wr(k)[1] = k /\ StreamEnd(k)[1] = k
                      /\ StreamEnd(k) # Tty /\ Rd(k) # Tty /\ Wr(k) # Tty
BY Numbers DEF Free, Tty, Rd, Wr, StreamEnd

\* At first no descriptor but the terminal is open.
LEMMA EndsInitHolds == Init => EndsInv
<1> SUFFICES ASSUME Init PROVE EndsInv
    OBVIOUS
<1>1. \A i \in Fd : fds[i][1] = 0
    BY Owners DEF Init
<1>2. \A k \in Pid : child[k].st = "none"
    BY DEF Init, NoChild
<1>3. Standard /\ Ours /\ Children
    BY <1>1, <1>2, Numbers, Owners DEF Init, Standard, Ours, Children
<1> QED BY <1>3, InitHolds DEF EndsInv

\* More failed calls allow more.
LEMMA MoreLost ==
    ASSUME EndsInv, NEW k \in Pid, lost \subseteq lost', child'[k] = child[k]
    PROVE  /\ child'[k].st = "forked" => Copied(child[k], k)'
           /\ child'[k].st = "running" => Own(child[k], k)'
<1>1. CASE child[k].st = "forked"
    BY <1>1 DEF EndsInv, Children, Copied, Rd, Wr
<1>2. CASE child[k].st = "running"
    BY <1>2 DEF EndsInv, Children, Own, Rd, Wr
<1> QED BY <1>1, <1>2

\* No child that has an end is changed.
LEMMA ChildrenKept ==
    ASSUME EndsInv, lost \subseteq lost',
           \A k \in Pid : child'[k].st \in {"forked", "running"} => child'[k] = child[k]
    PROVE  Children'
BY MoreLost DEF Children

\* fork: the child has the descriptors of the parent.
LEMMA PopenForkEnds ==
    ASSUME EndsInv, NEW type \in {"r", "w"}, NEW cmd \in {"brief", "whole"}, PopenFork(type, cmd)
    PROVE  (Standard /\ Ours /\ Children)'
<1> SUFFICES ASSUME NEW k, k = calls + 1
             PROVE  (Standard /\ Ours /\ Children)'
    OBVIOUS
<1>1. k \in Pid /\ k \in Nat /\ calls \in Nat /\ calls' = k /\ calls < k /\ proc = "idle"
    BY Facts, Numbers DEF PopenFork, Pid, EndsInv
<1>2. PICK r \in Fd, w \in Fd :
          /\ PipeFds(r, w)
          /\ fds' = [fds EXCEPT ![r] = Rd(k), ![w] = Wr(k)]
          /\ child' = [child EXCEPT ![k] =
                 [st |-> "forked", type |-> type, cmd |-> cmd, rd |-> r, wr |-> w,
                  tab |-> fds', others |-> {i \in Fd : childpid[i] > 0}]]
          /\ cur' = k
    BY DEF PopenFork
<1>3. UNCHANGED <<childpid, data, dirty, lost>> /\ proc' = "forked"
    BY DEF PopenFork
<1>4. r # w /\ fds[r] = Free /\ fds[w] = Free
    BY <1>2, Numbers DEF PipeFds, Fd
<1>5. fds \in [Fd -> Entry] /\ child \in [Pid -> Child]
    BY DEF EndsInv, IInv, TypeOK
<1>6. fds'[r] = Rd(k) /\ fds'[w] = Wr(k) /\ \A i \in Fd \ {r, w} : fds'[i] = fds[i]
    BY <1>2, <1>4, <1>5
<1>7. (\A j \in Pid \ {k} : child'[j] = child[j])
      /\ child'[k] = [st |-> "forked", type |-> type, cmd |-> cmd, rd |-> r, wr |-> w,
                      tab |-> fds', others |-> {i \in Fd : childpid[i] > 0}]
    BY <1>1, <1>2, <1>5
<1>8. /\ fds[0] = Tty /\ fds[1] = Tty
      /\ \A i \in Fd : fds[i][1] <= calls
      /\ \A i \in Fd : fds[i][1] \in Pid \ lost => childpid[i] = fds[i][1]
      /\ \A i, j \in Fd : fds[i][1] \in Pid \ lost /\ fds[i][1] = fds[j][1] => i = j
    BY <1>1 DEF EndsInv, Standard, Ours
<1>9. {0, 1} \cap {r, w} = {}
    BY <1>4, <1>8, Owners
<1>10. fds'[r][1] = k /\ fds'[w][1] = k /\ \A i \in Fd \ {r, w} : fds'[i][1] # k /\ fds'[i][1] = fds[i][1]
    <2>1. \A i \in Fd : fds[i][1] <= calls => fds[i][1] # k
        BY <1>1, Numbers
    <2> QED BY <1>1, <1>6, <1>8, <2>1, Owners
<1>11. Standard'
    BY <1>6, <1>8, <1>9, Numbers DEF Standard
<1>12. Ours'
    <2>1. \A i \in Fd : fds'[i][1] <= k
        <3>1. ASSUME NEW i \in Fd \ {r, w} PROVE fds'[i][1] <= k
            <4>1. fds[i] \in Entry
                BY <1>5
            <4>2. fds[i][1] \in Nat
                BY <4>1, Numbers DEF Entry, Free, Tty
            <4>3. fds[i][1] <= calls
                BY <1>8
            <4> QED BY <1>1, <1>10, <4>2, <4>3
        <3> QED BY <1>1, <1>10, <3>1, Numbers
    <2>2. \A i \in Fd : fds'[i][1] \in Pid \ lost => childpid[i] = fds'[i][1] \/ fds'[i][1] = k
        BY <1>8, <1>10
    <2>3. \A i, j \in Fd : fds'[i][1] \in Pid \ lost /\ fds'[i][1] = fds'[j][1] => i = j \/ fds'[i][1] = k
        BY <1>8, <1>10
    <2>4. \A i \in Fd : fds'[i][1] = k => i \in {child'[k].rd, child'[k].wr}
        BY <1>7, <1>10
    <2> QED BY <1>1, <1>2, <1>3, <2>1, <2>2, <2>3, <2>4 DEF Ours
<1>13. Copied(child[k], k)'
    <2> DEFINE O == {i \in Fd : childpid[i] > 0}
    <2>1. O \cap {0, 1, r, w} = {}
        <3>1. ASSUME NEW i \in O PROVE fds[i] # Tty /\ fds[i] # Free
            <4>1. childpid[i] \in Pid /\ fds[i] = StreamEnd(childpid[i])
                BY <1>1, Facts DEF EndsInv, IInv, Tracked
            <4> QED BY <4>1, Owners, StreamEnds
        <3> QED BY <1>4, <1>8, <3>1
    <2>2. \A i \in Fd \ {r, w} : fds'[i][1] # k /\ (fds'[i][1] \in Pid \ lost => i \in O)
        <3>1. ASSUME NEW i \in Fd \ {r, w}, fds'[i][1] \in Pid \ lost PROVE childpid[i] > 0
            <4>1. childpid[i] \in Pid
                BY <1>8, <1>10, <3>1
            <4> QED BY <4>1 DEF Pid
        <3> QED BY <1>10, <3>1
    <2>3. child'[k].rd = r /\ child'[k].wr = w /\ child'[k].tab = fds' /\ child'[k].others = O
        BY <1>7
    <2>4. lost' = lost
        BY <1>3
    <2> HIDE DEF O
    <2> QED BY <1>4, <1>6, <1>9, <2>1, <2>2, <2>3, <2>4 DEF Copied, Rd, Wr
<1>14. Children'
    <2>1. \A j \in Pid \ {k} : /\ child'[j].st = "forked" => Copied(child[j], j)'
                               /\ child'[j].st = "running" => Own(child[j], j)'
        BY <1>3, <1>7, MoreLost
    <2>2. child'[k].st = "forked"
        BY <1>7
    <2> QED BY <1>13, <2>1, <2>2 DEF Children
<1> QED BY <1>11, <1>12, <1>14

\* A failed fork leaves both ends of its pipe with the caller.
LEMMA PopenForkFailsEnds ==
    ASSUME EndsInv, PopenForkFails
    PROVE  (Standard /\ Ours /\ Children)'
<1> SUFFICES ASSUME NEW k, k = calls + 1
             PROVE  (Standard /\ Ours /\ Children)'
    OBVIOUS
<1>1. /\ k \in Pid /\ k \in Nat /\ calls \in Nat /\ calls' = k /\ proc = "idle"
      /\ lost' = lost \cup {k} /\ UNCHANGED <<proc, cur, childpid, child, data, dirty>>
    BY Facts, Numbers DEF PopenForkFails, Pid, EndsInv
<1>2. PICK r \in Fd, w \in Fd : PipeFds(r, w) /\ fds' = [fds EXCEPT ![r] = Rd(k), ![w] = Wr(k)]
    BY DEF PopenForkFails
<1>3. fds[r] = Free /\ fds[w] = Free
    BY <1>2 DEF PipeFds
<1>4. fds \in [Fd -> Entry] /\ \A i \in Fd : fds[i][1] \in Nat
    <2>1. \A e \in Entry : e[1] \in Nat
        BY Numbers DEF Entry, Free, Tty
    <2> QED BY <2>1 DEF EndsInv, IInv, TypeOK
<1>5. \A i \in Fd : IF i \in {r, w} THEN fds'[i][1] = k ELSE fds'[i] = fds[i]
    BY <1>1, <1>2, <1>4, Owners
<1>6. /\ fds[0] = Tty /\ fds[1] = Tty
      /\ \A i \in Fd : fds[i][1] <= calls
      /\ \A i \in Fd : fds[i][1] \in Pid \ lost => childpid[i] = fds[i][1]
      /\ \A i, j \in Fd : fds[i][1] \in Pid \ lost /\ fds[i][1] = fds[j][1] => i = j
    BY <1>1 DEF EndsInv, Standard, Ours
<1>7. Standard'
    <2>1. {0, 1} \cap {r, w} = {}
        BY <1>3, <1>6, Owners
    <2> QED BY <1>5, <1>6, <2>1, Numbers DEF Standard
<1>8. Ours'
    <2>1. \A i \in Fd : fds'[i][1] <= calls'
        BY <1>1, <1>4, <1>5, <1>6
    <2>2. \A i \in Fd : fds'[i][1] \in Pid \ lost' => i \notin {r, w} /\ fds'[i] = fds[i]
        BY <1>1, <1>5
    <2>3. \A i \in Fd : fds'[i][1] \in Pid \ lost' => childpid'[i] = fds'[i][1]
        BY <1>1, <1>6, <2>2
    <2>4. \A i, j \in Fd : fds'[i][1] \in Pid \ lost' /\ fds'[i][1] = fds'[j][1] => i = j
        BY <1>1, <1>6, <2>2
    <2> QED BY <1>1, <2>1, <2>3, <2>4 DEF Ours
<1>9. Children'
    BY <1>1, ChildrenKept
<1> QED BY <1>7, <1>8, <1>9

\* The parent keeps one end.
LEMMA PopenParentEnds ==
    ASSUME EndsInv, PopenParent
    PROVE  (Standard /\ Ours /\ Children)'
<1>1. /\ proc = "forked" /\ cur \in Pid /\ proc' = "idle" /\ cur' = 0
      /\ UNCHANGED <<child, data, dirty, calls>>
    BY Facts DEF PopenParent, EndsInv
<1>2. PICK mine \in Fd, theirs \in Fd :
          /\ {mine, theirs} = {child[cur].rd, child[cur].wr}
          /\ fds[mine][1] = cur /\ fds[theirs] # Tty
          /\ Opened(cur, mine, theirs)
    <2>1. /\ child[cur].rd \in Fd /\ child[cur].wr \in Fd
          /\ fds[child[cur].rd] = Rd(cur) /\ fds[child[cur].wr] = Wr(cur)
        BY <1>1, Facts DEF EndsInv, IInv, Current
    <2>2. CASE child[cur].type = "r"
        <3>1. Opened(cur, child[cur].rd, child[cur].wr)
            BY <2>2 DEF PopenParent
        <3> QED BY <1>1, <2>1, <3>1, Owners
    <2>3. CASE child[cur].type # "r"
        <3>1. Opened(cur, child[cur].wr, child[cur].rd)
            BY <2>3 DEF PopenParent
        <3> QED BY <1>1, <2>1, <3>1, Owners
    <2> QED BY <2>2, <2>3
<1>3. \A i \in Fd : fds'[i] = IF i = theirs THEN Free ELSE fds[i]
    BY <1>2 DEF Opened, EndsInv, IInv, TypeOK
<1>4. \/ lost' = lost /\ childpid'[mine] = cur /\ \A i \in Fd \ {mine} : childpid'[i] = childpid[i]
      \/ lost' = lost \cup {cur} /\ childpid' = childpid
    BY <1>2 DEF Opened, EndsInv, IInv, TypeOK
<1>5. /\ fds[0] = Tty /\ fds[1] = Tty
      /\ \A i \in Fd : fds[i][1] <= calls
      /\ \A i \in Fd : fds[i][1] \in Pid \ lost => childpid[i] = fds[i][1] \/ fds[i][1] = cur
      /\ \A i, j \in Fd : fds[i][1] \in Pid \ lost /\ fds[i][1] = fds[j][1] => i = j \/ fds[i][1] = cur
      /\ \A i \in Fd : fds[i][1] = cur => i \in {mine, theirs}
    BY <1>1, <1>2 DEF EndsInv, Standard, Ours
<1>6. Standard'
    BY <1>2, <1>3, <1>5, Numbers DEF Standard
<1>7. Ours'
    <2>1. \A i \in Fd : fds'[i][1] <= calls'
        BY <1>1, <1>3, <1>5, Owners, Facts DEF EndsInv
    <2>2. ASSUME NEW i \in Fd, fds'[i][1] \in Pid \ lost'
          PROVE  i # theirs /\ fds'[i] = fds[i] /\ fds[i][1] \in Pid \ lost /\ (fds[i][1] = cur => i = mine)
        BY <1>3, <1>4, <1>5, <2>2, Owners
    <2>3. \A i \in Fd : fds'[i][1] \in Pid \ lost' => childpid'[i] = fds'[i][1]
        BY <1>2, <1>4, <1>5, <2>2
    <2>4. \A i, j \in Fd : fds'[i][1] \in Pid \ lost' /\ fds'[i][1] = fds'[j][1] => i = j
        BY <1>5, <2>2
    <2> QED BY <1>1, <2>1, <2>3, <2>4 DEF Ours
<1>8. Children'
    BY <1>1, <1>4, ChildrenKept
<1> QED BY <1>6, <1>7, <1>8

\* The child redirects its end and closes what its copy of childpid[] names.
LEMMA ChildExecEnds ==
    ASSUME EndsInv, NEW k \in Pid, ChildExec(k)
    PROVE  Own(child[k], k)'
<1> DEFINE c   == child[k]
           tab == [i \in Fd |-> IF i \in c.others THEN Free ELSE Redirected(c)[i]]
           std == IF c.type = "r" THEN 1 ELSE 0
           own == IF c.type = "r" THEN c.wr ELSE c.rd
<1>1. c.st = "forked" /\ child \in [Pid -> Child] /\ c \in Child /\ Copied(c, k)
    BY Facts DEF ChildExec, Exec, EndsInv, IInv, TypeOK, Children
<1>2. child' = [child EXCEPT ![k] = [c EXCEPT !.st = "running", !.tab = tab]] /\ lost' = lost
    BY <1>1 DEF ChildExec, Exec
<1>3. child'[k].tab = tab /\ child'[k].type = c.type
    BY <1>1, <1>2 DEF Child
<1>4. std \in Fd /\ std \in {0, 1} /\ own \in {c.rd, c.wr} /\ c.rd \in Fd /\ c.wr \in Fd
    BY Numbers, Facts DEF EndsInv
<1>5. tab[std] = IF c.type = "r" THEN Wr(k) ELSE Rd(k)
    <2>1. std \notin c.others /\ tab[std] = Redirected(c)[std] /\ Redirected(c)[std] = c.tab[own]
        BY <1>1, <1>4 DEF Copied, Redirected
    <2> QED BY <1>1, <2>1 DEF Copied
<1>6. \A i \in Fd \ {std} : tab[i][1] # k /\ tab[i][1] \notin Pid \ lost
    <2>1. ASSUME NEW i \in Fd \ {std} PROVE tab[i][1] # k /\ tab[i][1] \notin Pid \ lost
        <3>1. CASE i \in c.others \/ i \in {c.rd, c.wr}
            <4>1. tab[i] = Free
                BY <1>1, <3>1 DEF Redirected, Copied
            <4> QED BY <4>1, Owners
        <3>2. CASE i \notin c.others /\ i \notin {c.rd, c.wr}
            <4>1. tab[i] = c.tab[i]
                BY <3>2 DEF Redirected
            <4> QED BY <1>1, <3>2, <4>1 DEF Copied
        <3> QED BY <3>1, <3>2
    <2> QED BY <2>1
<1> HIDE DEF tab, std
<1>7. {i \in Fd : tab[i][1] = k} = {std}
    <2>1. tab[std][1] = k
        BY <1>5, Owners
    <2>2. \A i \in Fd : tab[i][1] = k <=> i = std
        BY <1>6, <2>1
    <2> QED BY ONLY <1>4, <2>2
<1>8. Cardinality({i \in Fd : tab[i][1] = k}) = 1
    BY <1>7, FS_Singleton
<1>9. \A i \in Fd : tab[i][1] \notin Pid \ (lost \cup {k})
    BY <1>4, <1>5, <1>6, Owners
<1>10. child'[k].tab[IF child'[k].type = "r" THEN 1 ELSE 0] =
           (IF child'[k].type = "r" THEN Wr(k) ELSE Rd(k))
    BY <1>3, <1>5 DEF std
<1> QED BY <1>2, <1>3, <1>8, <1>9, <1>10 DEF Own, Rd, Wr

\* A child changes its own descriptors, by its exec and by its end.
LEMMA ChildStepEnds ==
    ASSUME EndsInv, NEW k \in Pid, ChildStep(k)
    PROVE  (Standard /\ Ours /\ Children)'
<1>1. /\ UNCHANGED <<proc, cur, fds, childpid, lost, calls>>
      /\ child \in [Pid -> Child] /\ \A j \in Pid \ {k} : child'[j] = child[j]
    BY DEF ChildStep, ChildExec, Exec, ChildExits, Ends, ChildReads, ChildWrites, EndsInv, IInv, TypeOK
<1>2. Standard'
    BY <1>1 DEF EndsInv, Standard
<1>3. Ours'
    <2>1. \A j \in Pid : child'[j].rd = child[j].rd /\ child'[j].wr = child[j].wr
        <3>1. child[k] \in Child
            BY <1>1
        <3>2. child'[k].rd = child[k].rd /\ child'[k].wr = child[k].wr
            BY <1>1, <3>1 DEF ChildStep, ChildExec, Exec, ChildExits, Ends, ChildReads, ChildWrites, Child
        <3> QED BY <1>1, <3>2
    <2>2. proc = "forked" => cur \in Pid
        BY Facts DEF EndsInv
    <2> QED BY <1>1, <2>1, <2>2 DEF EndsInv, Ours
<1>4. \A j \in Pid \ {k} : /\ child'[j].st = "forked" => Copied(child[j], j)'
                           /\ child'[j].st = "running" => Own(child[j], j)'
    BY <1>1, MoreLost
<1>5. /\ child'[k].st = "forked" => Copied(child[k], k)'
      /\ child'[k].st = "running" => Own(child[k], k)'
    <2>1. CASE ChildExec(k)
        <3>1. child'[k].st = "running"
            BY <1>1, <2>1 DEF ChildExec, Exec, Child
        <3> QED BY <2>1, <3>1, ChildExecEnds
    <2>2. CASE ChildExits(k)
        <3>1. child'[k].st = "zombie"
            BY <1>1, <2>2 DEF ChildExits, Ends, Child
        <3> QED BY <3>1
    <2>3. CASE ChildReads(k) \/ ChildWrites(k)
        <3>1. child' = child
            BY <2>3 DEF ChildReads, ChildWrites
        <3> QED BY <1>1, <3>1, MoreLost
    <2> QED BY <2>1, <2>2, <2>3 DEF ChildStep
<1>6. Children'
    BY <1>4, <1>5 DEF Children
<1> QED BY <1>2, <1>3, <1>6

\* pclose takes the stream from the table; its descriptor is still open.
LEMMA PcloseEnds ==
    ASSUME EndsInv, NEW fd \in Fd, Pclose(fd)
    PROVE  (Standard /\ Ours /\ Children)'
<1>1. /\ proc = "idle" /\ proc' = "closing" /\ cur' = childpid[fd] /\ childpid[fd] \in Pid
      /\ UNCHANGED <<fds, child, data, dirty, lost, calls>>
    BY Facts DEF Pclose, EndsInv
<1>2. \A i \in Fd \ {fd} : childpid'[i] = childpid[i]
    BY DEF Pclose, EndsInv, IInv, TypeOK
<1>3. Ours'
    BY <1>1, <1>2 DEF EndsInv, Ours
<1> QED BY <1>1, <1>3, ChildrenKept DEF EndsInv, Standard

\* The last end of the stream goes.
LEMMA ClosingEnds ==
    ASSUME EndsInv, proc = "closing", NEW fd \in Fd, CloseFd(fd), UNCHANGED <<childpid, child, calls>>,
           \/ proc' = "waiting" /\ cur' = cur /\ lost' = lost
           \/ proc' = "idle" /\ cur' = 0 /\ lost' = lost \cup {cur}
    PROVE  (Standard /\ Ours /\ Children)'
<1>1. cur \in Pid /\ fds[fd] = StreamEnd(cur) /\ fds[fd][1] = cur /\ fds[fd] # Tty
    BY Facts, Owners DEF CloseFd, EndsInv
<1>2. \A i \in Fd : fds'[i] = IF i = fd THEN Free ELSE fds[i]
    BY DEF CloseFd, EndsInv, IInv, TypeOK
<1>3. /\ fds[0] = Tty /\ fds[1] = Tty
      /\ \A i \in Fd : fds[i][1] <= calls
      /\ \A i \in Fd : fds[i][1] \in Pid \ lost => childpid[i] = fds[i][1] \/ fds[i][1] = cur
      /\ \A i, j \in Fd : fds[i][1] \in Pid \ lost /\ fds[i][1] = fds[j][1] => i = j
    BY DEF EndsInv, Standard, Ours
<1>4. Standard'
    BY <1>1, <1>2, <1>3, Numbers DEF Standard
<1>5. Ours'
    <2>1. \A i \in Fd : fds'[i][1] <= calls'
        BY <1>2, <1>3, Owners, Facts DEF EndsInv
    <2>2. ASSUME NEW i \in Fd, fds'[i][1] \in Pid \ lost'
          PROVE  fds'[i] = fds[i] /\ fds[i][1] \in Pid \ lost /\ fds[i][1] # cur
        <3>1. i # fd /\ fds'[i] = fds[i] /\ fds[i][1] \in Pid \ lost
            BY <1>2, <2>2, Owners
        <3>2. fds[i][1] # cur
            BY <1>1, <1>3, <3>1
        <3> QED BY <3>1, <3>2
    <2>3. \A i \in Fd : fds'[i][1] \in Pid \ lost' => childpid'[i] = fds'[i][1]
        BY <1>3, <2>2
    <2>4. \A i, j \in Fd : fds'[i][1] \in Pid \ lost' /\ fds'[i][1] = fds'[j][1] => i = j
        BY <1>3, <2>2
    <2> QED BY <2>1, <2>3, <2>4 DEF Ours
<1>6. Children'
    BY ChildrenKept
<1> QED BY <1>4, <1>5, <1>6

\* fclose closes the descriptor, whether it succeeds or not.
LEMMA FcloseEnds ==
    ASSUME EndsInv, Fclose \/ FcloseFails
    PROVE  (Standard /\ Ours /\ Children)'
<1>1. proc = "closing" /\ UNCHANGED <<childpid, child, calls>> /\ dirty \subseteq Fd
    BY DEF Fclose, FcloseFails, EndsInv, IInv, TypeOK
<1>2. CASE Fclose
    <2>1. proc' = "waiting" /\ cur' = cur /\ lost' = lost
        BY <1>2 DEF Fclose
    <2>2. PICK fd \in Fd : CloseFd(fd)
        BY <1>2 DEF Fclose
    <2> QED BY <1>1, <2>1, <2>2, ClosingEnds
<1>3. CASE FcloseFails
    <2>1. PICK fd \in dirty :
              \/ CloseFd(fd) /\ proc' = "idle" /\ cur' = 0 /\ lost' = lost \cup {cur}
              \/ proc' = "killed" /\ lost' = lost
        BY <1>3 DEF FcloseFails
    <2>2. CASE CloseFd(fd) /\ proc' = "idle" /\ cur' = 0 /\ lost' = lost \cup {cur}
        BY <1>1, <2>2, ClosingEnds
    <2>3. CASE proc' = "killed" /\ lost' = lost
        BY <1>1, <2>3, ChildrenKept DEF Standard, Ours
    <2> QED BY <2>1, <2>2, <2>3
<1> QED BY <1>2, <1>3

\* A reaped child has no descriptors.
LEMMA WaitpidEnds ==
    ASSUME EndsInv, Waitpid
    PROVE  (Standard /\ Ours /\ Children)'
<1>1. /\ cur \in Pid /\ child[cur] \in Child /\ proc = "waiting" /\ proc' = "idle"
      /\ UNCHANGED <<fds, childpid, data, dirty, lost, calls>>
    BY Facts DEF Waitpid, EndsInv
<1>2. child'[cur].st = "reaped" /\ \A k \in Pid \ {cur} : child'[k] = child[k]
    BY <1>1 DEF Waitpid, EndsInv, IInv, TypeOK, Child
<1>3. Standard' /\ Ours'
    BY <1>1 DEF EndsInv, Standard, Ours
<1>4. Children'
    BY <1>1, <1>2, ChildrenKept
<1> QED BY <1>3, <1>4

\* Nor has one that somebody else has reaped.
LEMMA ReapedElsewhereEnds ==
    ASSUME EndsInv, NEW k \in Pid, ReapedElsewhere(k)
    PROVE  (Standard /\ Ours /\ Children)'
<1>1. UNCHANGED <<proc, cur, fds, childpid, data, dirty, lost, calls>>
    BY DEF ReapedElsewhere
<1>2. child'[k].st = "reaped" /\ \A j \in Pid \ {k} : child'[j] = child[j]
    BY Facts DEF ReapedElsewhere, EndsInv, IInv, TypeOK, Child
<1>3. Standard' /\ Ours'
    <2>1. \A j \in Pid : child'[j].rd = child[j].rd /\ child'[j].wr = child[j].wr /\ child'[j].type = child[j].type
        BY Facts, <1>2 DEF ReapedElsewhere, EndsInv, IInv, TypeOK, Child
    <2> QED BY <1>1, <2>1, Facts DEF EndsInv, Standard, Ours
<1>4. Children'
    BY <1>1, <1>2, ChildrenKept
<1> QED BY <1>3, <1>4

\* Reading and writing move no descriptor.
LEMMA UseEnds ==
    ASSUME EndsInv, UNCHANGED <<proc, cur, fds, childpid, child, lost, calls>>
    PROVE  (Standard /\ Ours /\ Children)'
<1>1. Standard' /\ Ours'
    BY DEF EndsInv, Standard, Ours
<1> QED BY <1>1, ChildrenKept

\* Every step keeps the second invariant.
LEMMA EndsNextKeeps == EndsInv /\ [Next]_vars => EndsInv'
<1> SUFFICES ASSUME EndsInv, [Next]_vars PROVE EndsInv'
    OBVIOUS
<1>1. IInv'
    BY NextKeeps DEF EndsInv
<1>2. CASE Parent
    <2>1. WaitpidFails => EndsInv'
        <3> SUFFICES ASSUME WaitpidFails PROVE EndsInv'
            OBVIOUS
        <3>1. Standard' /\ Ours'
            BY DEF WaitpidFails, EndsInv, Standard, Ours
        <3> QED BY <1>1, <3>1, ChildrenKept DEF WaitpidFails, EndsInv
    <2> QED BY <1>1, <1>2, <2>1, PopenParentEnds, FcloseEnds, WaitpidEnds DEF Parent, EndsInv
<1>3. CASE User
    <2>1. ASSUME NEW fd \in Fd, Put(fd) \/ Get(fd) PROVE EndsInv'
        BY <1>1, <2>1, UseEnds DEF Put, Get, EndsInv
    <2> QED BY <1>1, <1>3, <2>1, PopenForkEnds, PopenForkFailsEnds, PcloseEnds DEF User, EndsInv
<1>4. CASE \E k \in Pid : ChildStep(k)
    BY <1>1, <1>4, ChildStepEnds DEF EndsInv
<1>5. CASE \E k \in Pid : ReapedElsewhere(k)
    BY <1>1, <1>5, ReapedElsewhereEnds DEF EndsInv
<1>6. CASE UNCHANGED vars
    BY <1>1, <1>6, UseEnds DEF vars, EndsInv
<1> QED BY <1>2, <1>3, <1>4, <1>5, <1>6 DEF Next

-----------------------------------------------------------------------------
(* The theorems.                                                           *)

\* Type correctness of popen and pclose, with any failures.
THEOREM TypeCorrect == Spec => []TypeOK
<1>1. IInv => TypeOK
    BY DEF IInv
<1> QED BY <1>1, InitHolds, NextKeeps, PTL DEF Spec

\* childpid[] names the child of the stream that is on the descriptor, whose
\* status nobody has taken unless SIGCHLD is ignored or the application reaps
\* by itself; and no child is forgotten except by a popen or an fclose that
\* failed, for every number of descriptors and calls.
THEOREM TrackedHolds == Spec => []Tracked
<1>1. IInv => Tracked
    BY DEF IInv
<1> QED BY <1>1, InitHolds, NextKeeps, PTL DEF Spec

\* Whatever streams are open when popen is called, and whatever failed before,
\* the command has the one end it needs and no end of another stream, so that
\* closing a stream is what its command sees.
THEOREM OwnPipeOnlyHolds == Spec => []OwnPipeOnly
<1>1. EndsInv => OwnPipeOnly
    BY DEF EndsInv, Children, Own, OwnPipeOnly
<1> QED BY <1>1, EndsInitHolds, EndsNextKeeps, PTL DEF Spec
=============================================================================
