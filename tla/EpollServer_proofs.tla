-------------------------- MODULE EpollServer_proofs --------------------------
(***************************************************************************)
(* For any number of clients, any limit and any sizes of the buffers: the  *)
(* count main keeps by hand is right and its limit is never reached, every *)
(* event that is handled finds something, and no byte is lost or invented. *)
(*                                                                         *)
(* A count of one more or less is right only if the descriptor really was  *)
(* new, or really was registered.  The first needs that a connection waits *)
(* at most once and never while it is registered; the second that events   *)
(* are only ever of registered descriptors, through the edges they are     *)
(* made of.                                                                *)
(***************************************************************************)
EXTENDS EpollServer, FiniteSetTheorems, TLAPS

\* Connections wait once, and not after they were accepted or before they
\* were opened.
Waiting ==
    /\ backlog \in Seq(Conn)
    /\ \A i \in 1 .. Len(backlog) : backlog[i] \notin fds /\ client[backlog[i]] # "new"
    /\ \A i, j \in 1 .. Len(backlog) : backlog[i] = backlog[j] => i = j

Counted ==
    /\ IsFiniteSet(fds)
    /\ LISTEN \in fds
    /\ cur_fds = Cardinality(fds)
    /\ ProcFds + cur_fds - 1 <= MAXEPOLL

Registered ==
    /\ fds \subseteq Fd
    /\ edge \subseteq fds
    /\ evs \subseteq fds
    /\ client \in [Conn -> {"new", "connected", "closed"}]
    /\ \A c \in Conn : client[c] = "new" => c \notin fds

IInv == Counted /\ Registered /\ Waiting

-----------------------------------------------------------------------------

\* The number of descriptors that main compares with MAXEPOLL is below it.
LEMMA CountBelowLimit == IInv => cur_fds \in Nat /\ cur_fds < MAXEPOLL
<1>1. Counted => cur_fds \in Nat
  BY FS_CardinalityType DEF Counted
<1> QED
  BY <1>1, EpollAssumption DEF IInv, Counted

\* Without the listening socket there is one descriptor less.
LEMMA WithoutListen ==
    Counted => Cardinality(fds \ {LISTEN}) = cur_fds - 1
<1> SUFFICES ASSUME Counted PROVE Cardinality(fds \ {LISTEN}) = cur_fds - 1
  OBVIOUS
<1> QED
  BY FS_RemoveElement DEF Counted

LEMMA InitIInv == Init => IInv
<1> SUFFICES ASSUME Init PROVE IInv
  OBVIOUS
<1>1. IsFiniteSet({LISTEN}) /\ Cardinality({LISTEN}) = 1
  BY FS_Singleton
<1>2. Counted
  BY <1>1, EpollAssumption DEF Init, Counted
<1>3. Registered
  BY EpollAssumption DEF Init, Registered, Fd
<1>4. Waiting
  BY DEF Init, Waiting
<1> QED
  BY <1>2, <1>3, <1>4 DEF IInv

\* An accepted connection was not registered: it is one more.
LEMMA AcceptKeeps == IInv /\ Accept => IInv'
<1> SUFFICES ASSUME IInv, Accept PROVE IInv'
  OBVIOUS
<1> DEFINE c == Head(backlog)
<1>1. /\ backlog \in Seq(Conn) /\ Len(backlog) >= 1
      /\ c = backlog[1] /\ c \in Conn /\ c \notin fds /\ client[c] # "new"
      /\ fds' = fds \cup {c} /\ edge' \subseteq edge \cup {c}
  BY DEF IInv, Waiting, Accept
<1>2. Counted'
  <2>1. IsFiniteSet(fds') /\ Cardinality(fds') = cur_fds + 1
    BY <1>1, FS_AddElement DEF IInv, Counted
  <2>2. ProcFds + cur_fds' - 1 <= MAXEPOLL
    BY WithoutListen, CountBelowLimit, EpollAssumption DEF IInv, Accept
  <2> QED
    BY <1>1, <2>1, <2>2 DEF IInv, Counted, Accept
<1>3. Registered'
  BY <1>1 DEF IInv, Registered, Accept, Fd, clientVars
<1>4. Waiting'
  <2>1. /\ backlog' \in Seq(Conn) /\ Len(backlog') = Len(backlog) - 1
        /\ \A i \in 1 .. Len(backlog') : backlog'[i] = backlog[i + 1]
    BY <1>1 DEF Accept
  <2>2. \A i \in 1 .. Len(backlog') : i + 1 \in 1 .. Len(backlog) /\ i + 1 # 1
    BY <1>1, <2>1
  <2>3. \A i \in 1 .. Len(backlog') : backlog'[i] \notin fds' /\ client'[backlog'[i]] # "new"
    <3> TAKE i \in 1 .. Len(backlog')
    <3>1. backlog[i + 1] \notin fds /\ client[backlog[i + 1]] # "new"
      BY <2>2 DEF IInv, Waiting
    <3>2. backlog[i + 1] # c
      BY <1>1, <2>2 DEF IInv, Waiting
    <3> QED
      BY <1>1, <2>1, <3>1, <3>2 DEF Accept, clientVars
  <2>4. \A i, j \in 1 .. Len(backlog') : backlog'[i] = backlog'[j] => i = j
    <3> TAKE i, j \in 1 .. Len(backlog')
    <3> HAVE backlog'[i] = backlog'[j]
    <3>1. i + 1 = j + 1
      BY <2>1, <2>2 DEF IInv, Waiting
    <3> QED
      BY <3>1
  <2> QED
    BY <2>1, <2>3, <2>4 DEF Waiting
<1> QED
  BY <1>2, <1>3, <1>4 DEF IInv

\* A descriptor that is closed had an event, so it was registered; it is not
\* the listening socket, because the limit is not reached.
LEMMA ReadKeeps == ASSUME NEW f \in Fd PROVE IInv /\ Read(f) => IInv'
<1> SUFFICES ASSUME IInv, Read(f) PROVE IInv'
  OBVIOUS
<1>1. f # LISTEN /\ f \in fds
  BY CountBelowLimit DEF Read, IInv, Registered
<1>2. /\ evs' \subseteq evs \ {f} /\ UNCHANGED <<backlog, client>>
      /\ \/ fds' = fds \ {f} /\ edge' = edge \ {f} /\ cur_fds' = cur_fds - 1
         \/ UNCHANGED <<fds, edge, cur_fds>>
  <2> DEFINE queued == IF f = LISTEN THEN 0 ELSE inbuf[f]
             nread  == IF queued < MAXLINE THEN queued ELSE MAXLINE
  <2>1. CASE nread = 0
    BY <2>1 DEF Read, clientVars
  <2>2. CASE nread # 0
    BY <2>2 DEF Read, clientVars
  <2> QED
    BY <2>1, <2>2
<1>3. CASE fds' = fds \ {f} /\ edge' = edge \ {f} /\ cur_fds' = cur_fds - 1
  <2>1. IsFiniteSet(fds') /\ Cardinality(fds') = cur_fds - 1
    BY <1>1, <1>3, FS_RemoveElement DEF IInv, Counted
  <2>2. Counted'
    BY <1>1, <1>3, <2>1, CountBelowLimit, EpollAssumption DEF IInv, Counted
  <2>3. Registered'
    BY <1>2, <1>3 DEF IInv, Registered
  <2>4. Waiting'
    BY <1>2, <1>3 DEF IInv, Waiting
  <2> QED
    BY <2>2, <2>3, <2>4 DEF IInv
<1>4. CASE UNCHANGED <<fds, edge, cur_fds>>
  BY <1>2, <1>4 DEF IInv, Counted, Registered, Waiting
<1> QED
  BY <1>2, <1>3, <1>4

\* A client that connects was never registered and does not wait yet.
LEMMA ConnectKeeps == ASSUME NEW c \in Conn PROVE IInv /\ Connect(c) => IInv'
<1> SUFFICES ASSUME IInv, Connect(c) PROVE IInv'
  OBVIOUS
<1>1. /\ client[c] = "new" /\ c \notin fds
      /\ client' = [client EXCEPT ![c] = "connected"]
      /\ backlog \in Seq(Conn) /\ backlog' = Append(backlog, c)
      /\ edge' \subseteq edge \cup {LISTEN}
      /\ UNCHANGED <<fds, cur_fds, evs>>
  BY DEF Connect, Arrival, serverVars, IInv, Registered, Waiting
<1>2. Counted'
  BY <1>1 DEF IInv, Counted
<1>3. Registered'
  BY <1>1 DEF IInv, Counted, Registered
<1>4. Waiting'
  <2>1. /\ backlog' \in Seq(Conn) /\ Len(backlog') = Len(backlog) + 1
        /\ backlog'[Len(backlog) + 1] = c
        /\ \A i \in 1 .. Len(backlog) : backlog'[i] = backlog[i] /\ backlog[i] \in Conn
    BY <1>1
  <2>2. \A i \in 1 .. Len(backlog) : backlog[i] # c
    BY <1>1 DEF IInv, Waiting
  <2>3. \A i \in 1 .. Len(backlog') : i \in 1 .. Len(backlog) \/ i = Len(backlog) + 1
    BY <1>1, <2>1
  <2>4. \A i \in 1 .. Len(backlog') : backlog'[i] \notin fds' /\ client'[backlog'[i]] # "new"
    <3> TAKE i \in 1 .. Len(backlog')
    <3>1. CASE i \in 1 .. Len(backlog)
      BY <1>1, <2>1, <2>2, <3>1 DEF IInv, Waiting, Registered
    <3>2. CASE i = Len(backlog) + 1
      BY <1>1, <2>1, <3>2 DEF IInv, Registered
    <3> QED
      BY <2>3, <3>1, <3>2
  <2>5. \A i, j \in 1 .. Len(backlog') : backlog'[i] = backlog'[j] => i = j
    BY <2>1, <2>2, <2>3 DEF IInv, Waiting
  <2> QED
    BY <2>1, <2>4, <2>5 DEF Waiting
<1> QED
  BY <1>2, <1>3, <1>4 DEF IInv

\* Every other step leaves the descriptors, their count and the backlog
\* alone; what is new among events was an edge, and an edge is registered.
LEMMA OthersKeep ==
    ASSUME IInv, UNCHANGED <<fds, cur_fds, backlog>>,
           evs' \subseteq evs \cup edge, edge' \subseteq fds,
           client' \in [Conn -> {"new", "connected", "closed"}],
           \A c \in Conn : client'[c] = "new" => client[c] = "new"
    PROVE IInv'
<1>1. Counted'
  BY DEF IInv, Counted
<1>2. Registered'
  BY DEF IInv, Registered
<1>3. Waiting'
  <2>1. \A i \in 1 .. Len(backlog) : backlog[i] \in Conn
    BY DEF IInv, Waiting
  <2> QED
    BY <2>1 DEF IInv, Waiting
<1> QED
  BY <1>1, <1>2, <1>3 DEF IInv

LEMMA NextIInv == IInv /\ [Next]_vars => IInv'
<1> SUFFICES ASSUME IInv, [Next]_vars PROVE IInv'
  OBVIOUS
<1>1. edge \subseteq fds /\ client \in [Conn -> {"new", "connected", "closed"}]
  BY DEF IInv, Registered
<1>2. CASE EpollWait
  <2>1. edge' \subseteq edge /\ evs' \subseteq edge
    BY <1>2 DEF EpollWait
  <2> QED
    BY <1>1, <1>2, <2>1, OthersKeep DEF EpollWait, clientVars
<1>3. CASE EpollWaitFails
  BY <1>1, <1>3, OthersKeep DEF EpollWaitFails, netVars, clientVars
<1>17. CASE AcceptOrAddFails
  BY <1>1, <1>17, OthersKeep DEF AcceptOrAddFails, netVars, clientVars
<1>4. CASE Accept
  BY <1>4, AcceptKeeps
<1>5. CASE AcceptFails
  BY <1>1, <1>5, OthersKeep DEF AcceptFails, netVars, clientVars
<1>6. CASE \E f \in Fd : Read(f)
  BY <1>6, ReadKeeps
<1>7. CASE Write
  BY <1>1, <1>7, OthersKeep DEF Write, clientVars
<1>8. CASE WriteLate
  BY <1>1, <1>8, OthersKeep DEF WriteLate, clientVars
<1>9. CASE WriteAfterReset
  BY <1>1, <1>9, OthersKeep DEF WriteAfterReset, clientVars
<1>10. ASSUME NEW c \in Conn, Connect(c) PROVE IInv'
  BY <1>10, ConnectKeeps
<1>11. ASSUME NEW c \in Conn, Send(c) PROVE IInv'
  <2>1. edge' \subseteq fds
    BY <1>1, <1>11 DEF Send, Arrival
  <2> QED
    BY <1>1, <1>11, <2>1, OthersKeep DEF Send, serverVars
<1>12. ASSUME NEW c \in Conn, Receive(c) PROVE IInv'
  BY <1>1, <1>12, OthersKeep DEF Receive, serverVars
<1>13. ASSUME NEW c \in Conn, Close(c) PROVE IInv'
  <2>1. edge' \subseteq fds
    BY <1>1, <1>13 DEF Close, Arrival
  <2>2. client' = [client EXCEPT ![c] = "closed"] /\ client[c] = "connected"
    BY <1>13 DEF Close
  <2> QED
    BY <1>1, <1>13, <2>1, <2>2, OthersKeep DEF Close, serverVars
<1>14. ASSUME NEW c \in Conn, ResetArrives(c) PROVE IInv'
  <2>1. edge' \subseteq fds
    BY <1>1, <1>14 DEF ResetArrives, Arrival
  <2> QED
    BY <1>1, <1>14, <2>1, OthersKeep DEF ResetArrives, serverVars, clientVars
<1>15. CASE UNCHANGED vars
  BY <1>1, <1>15, OthersKeep DEF vars, serverVars, netVars, clientVars
<1> QED
  BY <1>2, <1>3, <1>4, <1>5, <1>6, <1>7, <1>8, <1>9, <1>10, <1>11, <1>12, <1>13, <1>14, <1>15,
     <1>17 DEF Next, Server, Clients

-----------------------------------------------------------------------------

\* cur_fds is the number of registered descriptors, and the listening socket
\* stays registered, whatever clients do.
THEOREM AccountingHolds == Spec => []Accounting
<1>1. IInv => Accounting
  BY DEF IInv, Counted, Accounting
<1> QED
  BY InitIInv, NextIInv, <1>1, PTL DEF Spec

\* The limit main tests is never reached, so an event of the listening socket
\* is always answered with accept.
THEOREM LimitNeverReachedHolds == Spec => []LimitNeverReached
<1>1. IInv => LimitNeverReached
  BY CountBelowLimit DEF LimitNeverReached
<1> QED
  BY InitIInv, NextIInv, <1>1, PTL DEF Spec
-----------------------------------------------------------------------------

\* Bytes are counted, ends and resets are flags, and a write is to somebody.
Typed ==
    /\ inbuf \in [Conn -> Nat] /\ outbuf \in [Conn -> Nat]
    /\ sent \in [Conn -> Nat] /\ got \in [Conn -> Nat]
    /\ fin \in [Conn -> BOOLEAN] /\ rst \in [Conn -> BOOLEAN]
    /\ told \in [Conn -> BOOLEAN] /\ late \in [Conn -> BOOLEAN]
    /\ echo = NoEcho \/ echo \in [to: Conn, left: Nat, some: BOOLEAN]

UnderWay(c) == IF echo.to = c THEN echo.left ELSE 0

\* EchoConserved, and nothing was sent before the connection was opened.
Conserved ==
    \A c \in Conn :
        client[c] # "closed" => sent[c] = inbuf[c] + UnderWay(c) + outbuf[c] + got[c]

\* Only a client that has closed is written to in vain or resets.
Gone == \A c \in Conn : rst[c] \/ late[c] => client[c] = "closed"

EInv == Typed /\ EventsAreReal /\ Conserved /\ Gone

LEMMA InitEInv == Init => EInv
BY EpollAssumption DEF Init, EInv, Typed, EventsAreReal, Conserved, Gone, UnderWay, NoEcho, Fd

\* A read moves bytes from the connection to the write, which is of nothing
\* before; what is left of other events does not change.
LEMMA ReadKeepsE == ASSUME NEW f \in Fd PROVE IInv /\ EInv /\ Read(f) => EInv'
<1> SUFFICES ASSUME IInv, EInv, Read(f) PROVE EInv'
  OBVIOUS
<1>1. f \in Conn
  BY CountBelowLimit DEF Read, Fd
<1>2. /\ evs' = evs \ {f} /\ echo = NoEcho
      /\ UNCHANGED <<backlog, fin, rst, told, late, outbuf, client, sent, got>>
  BY DEF Read, Handling, clientVars
<1>3. PICK n \in Nat : /\ n <= inbuf[f]
                       /\ inbuf' = [inbuf EXCEPT ![f] = @ - n]
                       /\ \/ n = 0 /\ echo' = echo
                          \/ echo' = [to |-> f, left |-> n, some |-> FALSE]
  <2> DEFINE nread == IF inbuf[f] < MAXLINE THEN inbuf[f] ELSE MAXLINE
  <2>1. nread \in Nat /\ nread <= inbuf[f] /\ f # LISTEN
    BY <1>1, EpollAssumption DEF EInv, Typed
  <2>2. CASE nread = 0
    <3>1. inbuf' = inbuf /\ echo' = echo
      BY <2>1, <2>2 DEF Read
    <3>2. inbuf' = [inbuf EXCEPT ![f] = @ - 0]
      BY <1>1, <3>1 DEF EInv, Typed
    <3> QED
      BY <2>1, <2>2, <3>1, <3>2
  <2>3. CASE nread # 0
    <3>1. inbuf' = [inbuf EXCEPT ![f] = @ - nread] /\ echo' = [to |-> f, left |-> nread, some |-> FALSE]
      BY <2>1, <2>3 DEF Read
    <3> QED
      BY <2>1, <3>1
  <2> QED
    BY <2>2, <2>3
<1>4. Typed'
  <2>1. inbuf' \in [Conn -> Nat]
    BY <1>1, <1>3 DEF EInv, Typed
  <2>2. echo' = NoEcho \/ echo' \in [to: Conn, left: Nat, some: BOOLEAN]
    <3>1. [to |-> f, left |-> n, some |-> FALSE] \in [to: Conn, left: Nat, some: BOOLEAN]
      BY <1>1
    <3> QED
      BY <1>2, <1>3, <3>1
  <2> QED
    BY <1>2, <2>1, <2>2 DEF EInv, Typed
<1>5. EventsAreReal'
  BY <1>1, <1>2, <1>3 DEF EInv, Typed, EventsAreReal, Readable
<1>6. Conserved'
  <2> SUFFICES ASSUME NEW c \in Conn, client[c] # "closed"
               PROVE  sent[c] = inbuf'[c] + UnderWay(c)' + outbuf[c] + got[c]
    BY <1>2 DEF Conserved
  <2>1. sent[c] = inbuf[c] + outbuf[c] + got[c]
    BY <1>2, EpollAssumption DEF EInv, Typed, Conserved, UnderWay, NoEcho
  <2>2. inbuf'[c] + UnderWay(c)' = inbuf[c]
    BY <1>1, <1>2, <1>3, EpollAssumption DEF EInv, Typed, UnderWay, NoEcho
  <2> QED
    BY <2>1, <2>2, <1>4 DEF EInv, Typed, UnderWay
<1>7. Gone'
  BY <1>2 DEF EInv, Gone
<1> QED
  BY <1>4, <1>5, <1>6, <1>7 DEF EInv

\* A write moves bytes on to the client.
LEMMA WriteKeepsE == EInv /\ Write => EInv'
<1> SUFFICES ASSUME EInv, Write PROVE EInv'
  OBVIOUS
<1> DEFINE c == echo.to
<1>1. /\ c \in Conn
      /\ UNCHANGED <<evs, backlog, inbuf, fin, rst, told, late, client, sent, got>>
  BY EpollAssumption DEF Write, EInv, Typed, clientVars, Fd
<1>2. PICK n \in Nat : /\ n <= echo.left
                       /\ outbuf' = [outbuf EXCEPT ![c] = @ + n]
                       /\ \/ n = echo.left /\ echo' = NoEcho
                          \/ echo' = [to |-> c, left |-> echo.left - n, some |-> TRUE]
  <2> DEFINE room == SockBuf - outbuf[c]
             n    == IF echo.left < room THEN echo.left ELSE room
  <2>1. /\ n > 0 /\ outbuf' = [outbuf EXCEPT ![c] = @ + n]
        /\ echo' = IF n = echo.left THEN NoEcho ELSE [echo EXCEPT !.left = @ - n, !.some = TRUE]
    BY DEF Write
  <2>2. n \in Nat /\ n <= echo.left /\ echo \in [to: Conn, left: Nat, some: BOOLEAN]
    BY <1>1, <2>1, EpollAssumption DEF Write, EInv, Typed
  <2> HIDE DEF n
  <2>3. CASE n = echo.left
    BY <2>1, <2>2, <2>3
  <2>4. CASE n # echo.left
    BY <2>1, <2>2, <2>4
  <2> QED
    BY <2>3, <2>4
<1>3. Typed'
  <2>1. outbuf' \in [Conn -> Nat]
    BY <1>1, <1>2 DEF EInv, Typed
  <2>2. echo # NoEcho /\ echo.left \in Nat
    BY DEF Write, EInv, Typed
  <2>3. echo' = NoEcho \/ echo' \in [to: Conn, left: Nat, some: BOOLEAN]
    <3>1. CASE echo' = [to |-> c, left |-> echo.left - n, some |-> TRUE]
      <4>1. echo.left - n \in Nat
        BY <1>2, <2>2
      <4> HIDE DEF c
      <4> QED
        BY <1>1, <3>1, <4>1
    <3> QED
      BY <1>2, <3>1
  <2> QED
    BY <1>1, <2>1, <2>3 DEF EInv, Typed
<1>4. EventsAreReal'
  BY <1>1 DEF EInv, EventsAreReal, Readable
<1>5. Conserved'
  <2> SUFFICES ASSUME NEW d \in Conn, client[d] # "closed"
               PROVE  sent[d] = inbuf[d] + UnderWay(d)' + outbuf'[d] + got[d]
    BY <1>1 DEF Conserved
  <2>1. sent[d] = inbuf[d] + UnderWay(d) + outbuf[d] + got[d]
    BY <1>1 DEF EInv, Conserved
  <2>2. /\ inbuf[d] \in Nat /\ outbuf[d] \in Nat /\ got[d] \in Nat /\ echo.left \in Nat
        /\ outbuf'[d] = IF d = c THEN outbuf[d] + n ELSE outbuf[d]
    BY <1>2, EpollAssumption DEF EInv, Typed, NoEcho
  <2>3. CASE n = echo.left /\ echo' = NoEcho
    BY <1>1, <2>1, <2>2, <2>3, EpollAssumption DEF UnderWay, NoEcho
  <2>4. CASE echo' = [to |-> c, left |-> echo.left - n, some |-> TRUE]
    BY <1>1, <1>2, <2>1, <2>2, <2>4 DEF UnderWay
  <2> QED
    BY <1>2, <2>3, <2>4
<1>6. Gone'
  BY <1>1 DEF EInv, Gone
<1> QED
  BY <1>3, <1>4, <1>5, <1>6 DEF EInv

\* The process is killed, or a write to a client that is gone ends, and no
\* byte of another connection is touched.
LEMMA WriteAfterResetKeepsE == EInv /\ WriteAfterReset => EInv'
<1> SUFFICES ASSUME EInv, WriteAfterReset PROVE EInv'
  OBVIOUS
<1>1. /\ UNCHANGED <<evs, backlog, inbuf, outbuf, fin, rst, late, client, sent, got>>
      /\ echo' = echo \/ echo' = NoEcho
      /\ echo # NoEcho /\ rst[echo.to]
  BY DEF WriteAfterReset, clientVars
<1>2. echo.to \in Conn
  BY <1>1 DEF EInv, Typed
<1>3. client[echo.to] = "closed"
  BY <1>1, <1>2 DEF EInv, Gone
<1>4. Typed'
  <2>1. told' \in [Conn -> BOOLEAN]
    BY DEF WriteAfterReset, EInv, Typed
  <2> QED
    BY <1>1, <2>1 DEF EInv, Typed
<1>5. EventsAreReal'
  BY <1>1 DEF EInv, EventsAreReal, Readable
<1>6. Conserved'
  BY <1>1, <1>2, <1>3, EpollAssumption DEF EInv, Conserved, UnderWay, NoEcho
<1>7. Gone'
  BY <1>1 DEF EInv, Gone
<1> QED
  BY <1>4, <1>5, <1>6, <1>7 DEF EInv

\* What clients do adds to what waits for the server, and moves bytes between
\* the counts of one connection.
LEMMA ClientKeepsE ==
    ASSUME NEW c \in Conn, IInv, EInv,
           Connect(c) \/ Send(c) \/ Receive(c) \/ Close(c) \/ ResetArrives(c)
    PROVE  EInv'
<1>1. /\ backlog \in Seq(Conn) /\ Typed
      /\ client \in [Conn -> {"new", "connected", "closed"}]
  BY DEF IInv, EInv, Waiting, Registered
<1>2. UNCHANGED <<evs, echo>>
  BY DEF Connect, Send, Receive, Close, ResetArrives, serverVars
<1>3. PICK n \in Nat : /\ inbuf' = [inbuf EXCEPT ![c] = @ + n]
                       /\ sent' = [sent EXCEPT ![c] = @ + n]
  <2>1. CASE Send(c)
    <3>1. MaxSend[c] \in Int /\ sent[c] \in Int
      BY <1>1, EpollAssumption DEF Typed
    <3>2. PICK n \in 1 .. MaxSend[c] - sent[c] :
              /\ sent' = [sent EXCEPT ![c] = @ + n]
              /\ inbuf' = [inbuf EXCEPT ![c] = @ + n]
      BY <2>1 DEF Send
    <3>3. n \in Nat
      BY <3>1, <3>2
    <3> QED
      BY <3>2, <3>3
  <2>2. CASE UNCHANGED <<inbuf, sent>>
    <3>1. inbuf' = [inbuf EXCEPT ![c] = @ + 0] /\ sent' = [sent EXCEPT ![c] = @ + 0]
      BY <1>1, <2>2 DEF Typed
    <3> QED
      BY <3>1
  <2> QED
    BY <2>1, <2>2 DEF Connect, Receive, Close, ResetArrives, clientVars
<1>4. PICK m \in Nat : /\ m <= outbuf[c]
                       /\ outbuf' = [outbuf EXCEPT ![c] = @ - m]
                       /\ got' = [got EXCEPT ![c] = @ + m]
  <2>1. CASE Receive(c)
    <3>1. PICK m \in Nat : m = outbuf[c]
      BY <1>1 DEF Typed
    <3>2. m <= outbuf[c] /\ outbuf[c] - m = 0
      BY <3>1
    <3>3. outbuf' = [outbuf EXCEPT ![c] = @ - m]
      BY <2>1, <3>2 DEF Receive
    <3>4. got' = [got EXCEPT ![c] = @ + m]
      BY <2>1, <3>1 DEF Receive
    <3> QED
      BY <3>2, <3>3, <3>4
  <2>2. CASE UNCHANGED <<outbuf, got>>
    <3>1. outbuf' = [outbuf EXCEPT ![c] = @ - 0] /\ got' = [got EXCEPT ![c] = @ + 0]
      BY <1>1, <2>2 DEF Typed
    <3>2. 0 \in Nat /\ 0 <= outbuf[c]
      BY <1>1 DEF Typed
    <3> QED
      BY <3>1, <3>2
  <2> QED
    BY <2>1, <2>2 DEF Connect, Send, Close, ResetArrives, clientVars
<1>5. \A d \in Conn : client'[d] # "closed" => client[d] # "closed"
  BY <1>1 DEF Connect, Send, Receive, Close, ResetArrives, clientVars
<1>6. Typed'
  <2>1. /\ fin' \in [Conn -> BOOLEAN] /\ rst' \in [Conn -> BOOLEAN]
        /\ told' \in [Conn -> BOOLEAN] /\ late' \in [Conn -> BOOLEAN]
    BY <1>1 DEF Typed, Connect, Send, Receive, Close, ResetArrives
  <2>2. inbuf' \in [Conn -> Nat] /\ sent' \in [Conn -> Nat]
    BY <1>1, <1>3 DEF Typed
  <2>3. outbuf' \in [Conn -> Nat] /\ got' \in [Conn -> Nat]
    BY <1>1, <1>4 DEF Typed
  <2> QED
    BY <1>1, <1>2, <2>1, <2>2, <2>3 DEF Typed
<1>7. EventsAreReal'
  <2>1. backlog # <<>> => backlog' # <<>>
    BY <1>1 DEF Connect, Send, Receive, Close, ResetArrives
  <2>2. \A d \in Conn : (fin[d] => fin'[d]) /\ (rst[d] => rst'[d])
    BY <1>1 DEF Typed, Connect, Send, Receive, Close, ResetArrives
  <2>3. \A d \in Conn : inbuf[d] > 0 => inbuf'[d] > 0
    BY <1>1, <1>3 DEF Typed
  <2> QED
    BY <1>2, <2>1, <2>2, <2>3 DEF EInv, EventsAreReal, Readable
<1>8. Conserved'
  <2> SUFFICES ASSUME NEW d \in Conn, client[d] # "closed"
               PROVE  sent'[d] = inbuf'[d] + UnderWay(d) + outbuf'[d] + got'[d]
    BY <1>2, <1>5 DEF Conserved, UnderWay
  <2>1. sent[d] = inbuf[d] + UnderWay(d) + outbuf[d] + got[d]
    BY DEF EInv, Conserved
  <2>2. UnderWay(d) \in Nat
    BY <1>1, EpollAssumption DEF Typed, UnderWay, NoEcho
  <2> QED
    BY <1>1, <1>3, <1>4, <2>1, <2>2 DEF Typed
<1>9. Gone'
  BY <1>1 DEF EInv, Gone, Typed, Connect, Send, Receive, Close, ResetArrives, clientVars
<1> QED
  BY <1>6, <1>7, <1>8, <1>9 DEF EInv

LEMMA NextEInv == IInv /\ EInv /\ [Next]_vars => EInv'
<1> SUFFICES ASSUME IInv, EInv, [Next]_vars PROVE EInv'
  OBVIOUS
<1>1. backlog \in Seq(Conn) /\ client \in [Conn -> {"new", "connected", "closed"}]
  BY DEF IInv, Waiting, Registered
<1> USE DEF EInv, Typed, EventsAreReal, Conserved, Gone, UnderWay, Readable
<1>2. CASE EpollWait
  BY <1>2 DEF EpollWait, clientVars
<1>3. CASE EpollWaitFails
  BY <1>3 DEF EpollWaitFails, netVars, clientVars
<1>16. CASE AcceptOrAddFails
  BY <1>16 DEF AcceptOrAddFails, netVars, clientVars
<1>4. CASE Accept
  BY <1>4, EpollAssumption DEF Accept, clientVars
<1>5. CASE AcceptFails
  BY <1>5 DEF AcceptFails, netVars, clientVars
<1>6. CASE \E f \in Fd : Read(f)
  BY <1>6, ReadKeepsE DEF EInv
<1>7. CASE Write
  BY <1>7, WriteKeepsE DEF EInv
<1>8. CASE WriteLate
  BY <1>8, EpollAssumption DEF WriteLate, clientVars, NoEcho, Fd
<1>9. CASE WriteAfterReset
  BY <1>9, WriteAfterResetKeepsE DEF EInv
<1>10. ASSUME NEW c \in Conn, Connect(c) PROVE EInv'
  BY <1>10, ClientKeepsE
<1>11. ASSUME NEW c \in Conn, Send(c) PROVE EInv'
  BY <1>11, ClientKeepsE
<1>12. ASSUME NEW c \in Conn, Receive(c) PROVE EInv'
  BY <1>12, ClientKeepsE
<1>13. ASSUME NEW c \in Conn, Close(c) PROVE EInv'
  BY <1>13, ClientKeepsE
<1>14. ASSUME NEW c \in Conn, ResetArrives(c) PROVE EInv'
  BY <1>14, ClientKeepsE
<1>15. CASE UNCHANGED vars
  BY <1>15 DEF vars, serverVars, netVars, clientVars
<1> QED
  BY <1>2, <1>3, <1>4, <1>5, <1>6, <1>7, <1>8, <1>9, <1>10, <1>11, <1>12, <1>13, <1>14, <1>15,
     <1>16 DEF Next, Server, Clients

\* Every event that main handles finds a connection or something to read:
\* accept does not fail for want of one, and read never blocks the server.
THEOREM EventsAreRealHolds == Spec => []EventsAreReal
<1>1. EInv => EventsAreReal
  BY DEF EInv
<1> QED
  BY InitIInv, NextIInv, InitEInv, NextEInv, <1>1, PTL DEF Spec

\* What a connected client sent is waiting to be read, being written, waiting
\* for the client, or was read by it.
THEOREM EchoConservedHolds == Spec => []EchoConserved
<1>1. EInv => EchoConserved
  BY DEF EInv, Conserved, UnderWay, EchoConserved
<1> QED
  BY InitIInv, NextIInv, InitEInv, NextEInv, <1>1, PTL DEF Spec
-----------------------------------------------------------------------------

\* What TypeOK adds: the write in progress is at most a buffer, and the
\* kernels hold at most SockBuf bytes of echo.
Bounded ==
    /\ proc \in {"running", "exited", "killed"}
    /\ echo.left <= MAXLINE
    /\ \A c \in Conn : outbuf[c] <= SockBuf

\* At first nothing is under way.
LEMMA InitBounded == Init => Bounded
BY EpollAssumption DEF Init, Bounded, NoEcho

\* One read takes at most MAXLINE bytes.
LEMMA ReadKeepsBounded == ASSUME NEW f \in Fd, EInv, Bounded, Read(f) PROVE Bounded'
<1>1. UNCHANGED <<proc, outbuf, late>>
  BY DEF Read
<1>2. echo'.left <= MAXLINE
  <2> DEFINE queued == IF f = LISTEN THEN 0 ELSE inbuf[f]
             nread  == IF queued < MAXLINE THEN queued ELSE MAXLINE
  <2>1. echo' = echo \/ echo' = [to |-> f, left |-> nread, some |-> FALSE]
    BY DEF Read
  <2>2. queued \in Nat
    BY DEF EInv, Typed, Fd
  <2>3. nread <= MAXLINE
    BY <2>2, EpollAssumption
  <2> HIDE DEF nread
  <2>4. [to |-> f, left |-> nread, some |-> FALSE].left = nread
    OBVIOUS
  <2> QED
    BY <2>1, <2>3, <2>4 DEF Bounded
<1> QED
  BY <1>1, <1>2 DEF Bounded

\* write fills the room that is left, and no more.
LEMMA WriteKeepsBounded == ASSUME EInv, Bounded, Write PROVE Bounded'
<1> DEFINE c    == echo.to
           room == SockBuf - outbuf[c]
           n    == IF echo.left < room THEN echo.left ELSE room
<1>1. UNCHANGED <<proc, late>>
  BY DEF Write
<1>2. /\ echo \in [to: Conn, left: Nat, some: BOOLEAN] /\ outbuf \in [Conn -> Nat]
      /\ n > 0
      /\ outbuf' = [outbuf EXCEPT ![c] = @ + n]
      /\ echo' = IF n = echo.left THEN NoEcho ELSE [echo EXCEPT !.left = @ - n, !.some = TRUE]
  BY DEF Write, EInv, Typed
<1>3. n \in Int /\ n <= room /\ c \in Conn
  BY <1>2, EpollAssumption
<1> HIDE DEF n
<1>4. echo'.left <= MAXLINE
  <2>1. CASE echo' = NoEcho
    BY <2>1, EpollAssumption DEF NoEcho
  <2>2. CASE echo' = [echo EXCEPT !.left = @ - n, !.some = TRUE]
    <3>1. echo'.left = echo.left - n
      BY <1>2, <2>2
    <3> QED
      BY <1>2, <1>3, <3>1, EpollAssumption DEF Bounded
  <2> QED
    BY <1>2, <2>1, <2>2
<1>5. \A d \in Conn : outbuf'[d] <= SockBuf
  BY <1>2, <1>3, EpollAssumption DEF Bounded
<1> QED
  BY <1>1, <1>4, <1>5 DEF Bounded

\* The other steps write nothing, and empty a buffer of echo at most.
LEMMA NextBounded == IInv /\ EInv /\ Bounded /\ [Next]_vars => Bounded'
<1> SUFFICES ASSUME IInv, EInv, Bounded, [Next]_vars PROVE Bounded'
  OBVIOUS
<1>1. CASE EpollWait
  BY <1>1 DEF EpollWait, Bounded
<1>2. CASE EpollWaitFails
  BY <1>2 DEF EpollWaitFails, netVars, Bounded
<1>12. CASE AcceptOrAddFails
  BY <1>12 DEF AcceptOrAddFails, netVars, Bounded
<1>3. CASE Accept
  BY <1>3 DEF Accept, Bounded
<1>4. CASE AcceptFails
  BY <1>4 DEF AcceptFails, netVars, Bounded
<1>5. CASE \E f \in Fd : Read(f)
  BY <1>5, ReadKeepsBounded
<1>6. CASE Write
  BY <1>6, WriteKeepsBounded
<1>7. CASE WriteLate
  <2>1. UNCHANGED <<proc, outbuf>> /\ echo' = NoEcho
    BY <1>7 DEF WriteLate, Bounded
  <2>2. NoEcho.left = 0 /\ 0 <= MAXLINE
    BY EpollAssumption DEF NoEcho
  <2> QED
    BY <2>1, <2>2 DEF Bounded
<1>8. CASE WriteAfterReset
  <2>1. /\ proc' = proc \/ proc' = "killed"
        /\ echo' = echo \/ echo' = NoEcho
        /\ outbuf' = outbuf
    BY <1>8 DEF WriteAfterReset
  <2>2. NoEcho.left = 0 /\ 0 <= MAXLINE
    BY EpollAssumption DEF NoEcho
  <2> QED
    BY <2>1, <2>2 DEF Bounded
<1>9. ASSUME NEW c \in Conn, Receive(c) PROVE Bounded'
  <2>1. UNCHANGED <<proc, echo, late>> /\ outbuf' = [outbuf EXCEPT ![c] = 0]
    BY <1>9 DEF Receive, serverVars
  <2>2. \A d \in Conn : outbuf'[d] <= SockBuf
    BY <2>1, EpollAssumption DEF EInv, Typed, Bounded
  <2> QED
    BY <2>1, <2>2 DEF Bounded
<1>10. ASSUME NEW c \in Conn, Connect(c) \/ Send(c) \/ Close(c) \/ ResetArrives(c)
       PROVE  Bounded'
  BY <1>10 DEF Connect, Send, Close, ResetArrives, serverVars, Bounded
<1>11. CASE UNCHANGED vars
  BY <1>11 DEF vars, serverVars, netVars, clientVars, Bounded
<1> QED
  BY <1>1, <1>2, <1>3, <1>4, <1>5, <1>6, <1>7, <1>8, <1>9, <1>10, <1>11, <1>12
     DEF Next, Server, Clients

\* Type correctness of the server and what it knows of its clients: no write
\* is of more than the buffer, whatever arrives and in whatever batches.
THEOREM TypeCorrect == Spec => []TypeOK
<1>1. IInv /\ EInv /\ Bounded => TypeOK
  <2> SUFFICES ASSUME IInv, EInv, Bounded PROVE TypeOK
    OBVIOUS
  <2>1. cur_fds \in Int /\ fds \subseteq Fd /\ evs \subseteq Fd /\ edge \subseteq Fd
    BY CountBelowLimit DEF IInv, Registered
  <2>2. echo \in [to: Fd, left: 0 .. MAXLINE, some: BOOLEAN]
    <3>1. NoEcho \in [to: Fd, left: 0 .. MAXLINE, some: BOOLEAN]
      BY EpollAssumption DEF NoEcho, Fd
    <3>2. ASSUME echo \in [to: Conn, left: Nat, some: BOOLEAN]
          PROVE  echo \in [to: Fd, left: 0 .. MAXLINE, some: BOOLEAN]
      <4>1. echo.to \in Fd /\ echo.some \in BOOLEAN
        BY <3>2 DEF Fd
      <4>2. echo.left \in 0 .. MAXLINE
        BY <3>2, EpollAssumption DEF Bounded
      <4>3. echo = [to |-> echo.to, left |-> echo.left, some |-> echo.some]
        BY <3>2
      <4> QED
        BY <4>1, <4>2, <4>3
    <3> QED
      BY <3>1, <3>2 DEF EInv, Typed
  <2>3. outbuf \in [Conn -> 0 .. SockBuf]
    BY EpollAssumption DEF EInv, Typed, Bounded
  <2> QED
    BY <2>1, <2>2, <2>3 DEF TypeOK, IInv, EInv, Registered, Waiting, Typed, Bounded
<1> QED
  BY InitIInv, NextIInv, InitEInv, NextEInv, InitBounded, NextBounded, <1>1, PTL DEF Spec
=============================================================================
