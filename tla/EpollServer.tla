----------------------------- MODULE EpollServer -----------------------------
(***************************************************************************)
(* epollDemo/epoll_server.c: one process that echoes what its clients send, *)
(* with edge-triggered epoll.  It accepts one connection per event of the  *)
(* listening socket, reads one buffer per event of a connection, writes it *)
(* back with a blocking write, and frees a connection when read returns no *)
(* bytes.                                                                  *)
(*                                                                         *)
(* TCP and the kernel's epoll are modelled from how the server uses them:  *)
(* data is counted, not named; an edge is remembered per registered        *)
(* descriptor until epoll_wait reports it, and reported only if the        *)
(* descriptor is readable at that moment.                                  *)
(***************************************************************************)
EXTENDS Integers, Sequences, FiniteSets

CONSTANTS
    Conn,       \* the connections clients may open
    Polite,     \* those whose client sends at most MAXLINE and then waits for all of it
    LISTEN,     \* listen_fd
    MAXEPOLL,   \* limit of descriptors: RLIMIT_NOFILE and the test in main
    MAXLINE,    \* size of buf
    MAXBACK,    \* backlog of listen
    ProcFds,    \* descriptors of the process that are no connections
    SockBuf,    \* bytes of echo the kernels hold for a client that does not read
    MaxSend,    \* bound: bytes the client sends on each connection
    Faults      \* TRUE: epoll_wait, accept and epoll_ctl may fail for reasons of the kernel's

ASSUME EpollAssumption ==
    /\ LISTEN \notin Conn
    /\ Polite \subseteq Conn
    /\ MAXEPOLL \in Nat /\ MAXLINE \in Nat \ {0} /\ MAXBACK \in Nat
    /\ ProcFds \in Nat /\ ProcFds >= 2      \* listen_fd and epoll_fd at least
    /\ ProcFds <= MAXEPOLL
    /\ SockBuf \in Nat \ {0} /\ MaxSend \in [Conn -> Nat]
    /\ Faults \in BOOLEAN

VARIABLES
    proc,       \* "running"; "exited": exit(EXIT_FAILURE); "killed": by SIGPIPE
    fds,        \* the descriptors registered with epoll_fd
    cur_fds,    \* what main believes their number is
    evs,        \* the events of the last epoll_wait still to be handled
    echo,       \* the write main is in: connection, bytes left, some copied; NoEcho
    backlog,    \* connections that wait for accept, oldest first
    edge,       \* descriptors with an edge epoll_wait has not looked at
    client,     \* client[c]: "new", "connected" or "closed"
    inbuf,      \* bytes from c that were not read
    fin, rst,   \* the end of the stream, and a reset, that arrived from c
    told,       \* a write has returned the error of the reset
    outbuf,     \* bytes echoed to c that its client did not read
    sent, got,  \* bytes the client sent and read
    late        \* c was written to after its client had closed

serverVars == <<proc, fds, cur_fds, evs, echo>>
netVars    == <<backlog, edge, inbuf, fin, rst, told, outbuf, late>>
clientVars == <<client, sent, got>>
vars       == <<serverVars, netVars, clientVars>>

Fd     == Conn \cup {LISTEN}
NoEcho == [to |-> LISTEN, left |-> 0, some |-> FALSE]

TypeOK ==
    /\ proc \in {"running", "exited", "killed"}
    /\ fds \subseteq Fd /\ evs \subseteq Fd /\ edge \subseteq Fd
    /\ cur_fds \in Int
    /\ echo \in [to: Fd, left: 0 .. MAXLINE, some: BOOLEAN]
    /\ backlog \in Seq(Conn)
    /\ client \in [Conn -> {"new", "connected", "closed"}]
    /\ inbuf \in [Conn -> Nat] /\ sent \in [Conn -> Nat] /\ got \in [Conn -> Nat]
    /\ outbuf \in [Conn -> 0 .. SockBuf]
    /\ fin \in [Conn -> BOOLEAN] /\ rst \in [Conn -> BOOLEAN]
    /\ told \in [Conn -> BOOLEAN] /\ late \in [Conn -> BOOLEAN]

\* main up to its loop.
Init ==
    /\ proc = "running"
    /\ fds = {LISTEN}
    /\ cur_fds = 1
    /\ evs = {}
    /\ echo = NoEcho
    /\ backlog = <<>>
    /\ edge = {}
    /\ client = [c \in Conn |-> "new"]
    /\ inbuf = [c \in Conn |-> 0]
    /\ fin = [c \in Conn |-> FALSE]
    /\ rst = [c \in Conn |-> FALSE]
    /\ told = [c \in Conn |-> FALSE]
    /\ outbuf = [c \in Conn |-> 0]
    /\ sent = [c \in Conn |-> 0]
    /\ got = [c \in Conn |-> 0]
    /\ late = [c \in Conn |-> FALSE]

-----------------------------------------------------------------------------
(* The server.                                                             *)

\* accept, or read, has something to return at once.
Readable(f) ==
    \/ f = LISTEN /\ backlog # <<>>
    \/ f \in Conn /\ (inbuf[f] > 0 \/ fin[f] \/ rst[f])

Handling == proc = "running" /\ echo = NoEcho

\* epoll_wait(epoll_fd, evs, cur_fds, -1) returns at most cur_fds events.
EpollWait ==
    /\ Handling
    /\ evs = {}
    /\ cur_fds > 0
    /\ LET due == {f \in edge : Readable(f)} IN
       /\ due # {}
       /\ evs' \in {E \in SUBSET due :
                       Cardinality(E) = IF Cardinality(due) < cur_fds
                                        THEN Cardinality(due) ELSE cur_fds}
       /\ edge' = due \ evs'
    /\ UNCHANGED <<proc, fds, cur_fds, echo, backlog, inbuf, fin, rst, told, outbuf, late, clientVars>>

\* EINTR after a stop and a continue; main takes it for an error.
EpollWaitFails ==
    /\ Faults
    /\ Handling
    /\ evs = {}
    /\ proc' = "exited"
    /\ UNCHANGED <<fds, cur_fds, evs, echo, netVars, clientVars>>

\* Mutant: the event is handled again after accept.
AcceptAndRepeat ==
    /\ Handling
    /\ LISTEN \in evs
    /\ cur_fds < MAXEPOLL
    /\ backlog # <<>>
    /\ ProcFds + Cardinality(fds \ {LISTEN}) < MAXEPOLL
    /\ fds' = fds \cup {Head(backlog)}
    /\ edge' = IF Readable(Head(backlog)) THEN edge \cup {Head(backlog)} ELSE edge
    /\ backlog' = Tail(backlog)
    /\ cur_fds' = cur_fds + 1
    /\ UNCHANGED <<proc, evs, echo, inbuf, fin, rst, told, outbuf, late, clientVars>>

\* A connection is registered; data that came before counts as an edge.
Accept ==
    /\ Handling
    /\ LISTEN \in evs
    /\ cur_fds < MAXEPOLL
    /\ backlog # <<>>
    /\ ProcFds + Cardinality(fds \ {LISTEN}) < MAXEPOLL
    /\ LET c == Head(backlog) IN
       /\ fds' = fds \cup {c}
       /\ edge' = IF Readable(c) THEN edge \cup {c} ELSE edge
    /\ backlog' = Tail(backlog)
    /\ cur_fds' = cur_fds + 1
    /\ evs' = evs \ {LISTEN}
    /\ UNCHANGED <<proc, echo, inbuf, fin, rst, told, outbuf, late, clientVars>>

\* Out of descriptors (EMFILE), or no connection after all (EAGAIN).
AcceptFails ==
    /\ Handling
    /\ LISTEN \in evs
    /\ cur_fds < MAXEPOLL
    /\ backlog = <<>> \/ ProcFds + Cardinality(fds \ {LISTEN}) >= MAXEPOLL
    /\ proc' = "exited"
    /\ UNCHANGED <<fds, cur_fds, evs, echo, netVars, clientVars>>

\* accept fails for a reason of the network's or the kernel's (ECONNABORTED,
\* ENOBUFS, ENOMEM), or epoll_ctl cannot register what it returned.
AcceptOrAddFails ==
    /\ Faults
    /\ Handling
    /\ LISTEN \in evs
    /\ cur_fds < MAXEPOLL
    /\ proc' = "exited"
    /\ UNCHANGED <<fds, cur_fds, evs, echo, netVars, clientVars>>

\* Mutant: the count is not taken back when a connection is closed.
ReadAndMiscount(f) ==
    /\ Handling
    /\ f \in evs \cap Conn
    /\ Readable(f)
    /\ LET nread == IF inbuf[f] < MAXLINE THEN inbuf[f] ELSE MAXLINE IN
       IF nread = 0
       THEN /\ fds' = fds \ {f}
            /\ edge' = edge \ {f}
            /\ UNCHANGED <<cur_fds, echo, inbuf>>
       ELSE /\ inbuf' = [inbuf EXCEPT ![f] = @ - nread]
            /\ echo' = [to |-> f, left |-> nread, some |-> FALSE]
            /\ UNCHANGED <<fds, cur_fds, edge>>
    /\ evs' = evs \ {f}
    /\ UNCHANGED <<proc, backlog, fin, rst, told, outbuf, late, clientVars>>

\* Mutants of the two cases of read: connections of clients that are gone are
\* kept; only sizeof(buf) - 1 bytes are read; sizeof(buf) bytes are echoed;
\* read is given more room than buf has.
ReadSome(f, most, extra) ==
    /\ Handling
    /\ f \in evs \cap Conn
    /\ inbuf[f] > 0
    /\ LET nread == IF inbuf[f] < most THEN inbuf[f] ELSE most IN
       /\ inbuf' = [inbuf EXCEPT ![f] = @ - nread]
       /\ echo' = [to |-> f, left |-> IF extra THEN MAXLINE ELSE nread, some |-> FALSE]
    /\ evs' = evs \ {f}
    /\ UNCHANGED <<proc, fds, cur_fds, edge, backlog, fin, rst, told, outbuf, late, clientVars>>
ReadWithoutClose(f)  == ReadSome(f, MAXLINE, FALSE)
ReadOneLess(f)       == ReadSome(f, MAXLINE - 1, FALSE)
ReadAndEchoAll(f)    == ReadSome(f, MAXLINE, TRUE)
ReadBeyondBuffer(f)  == ReadSome(f, MAXLINE + 1, FALSE)

\* One read.  It blocks while there is nothing; it takes queued bytes first;
\* at the end of the stream, after a reset, and on the listening socket it
\* returns no bytes, and the descriptor is closed.
Read(f) ==
    /\ Handling
    /\ f \in evs
    /\ ~(f = LISTEN /\ cur_fds < MAXEPOLL)
    /\ Readable(f)
    /\ LET queued == IF f = LISTEN THEN 0 ELSE inbuf[f]
           nread  == IF queued < MAXLINE THEN queued ELSE MAXLINE
       IN  IF nread = 0
           THEN /\ fds' = fds \ {f}
                /\ edge' = edge \ {f}
                /\ cur_fds' = cur_fds - 1
                /\ UNCHANGED <<echo, inbuf>>
           ELSE /\ inbuf' = [inbuf EXCEPT ![f] = @ - nread]
                /\ echo' = [to |-> f, left |-> nread, some |-> FALSE]
                /\ UNCHANGED <<fds, cur_fds, edge>>
    /\ evs' = evs \ {f}
    /\ UNCHANGED <<proc, backlog, fin, rst, told, outbuf, late, clientVars>>

\* write(evs[i].data.fd, buf, nread) goes on as the client makes room.
Write ==
    /\ proc = "running"
    /\ echo # NoEcho
    /\ LET c    == echo.to
           room == SockBuf - outbuf[c]
           n    == IF echo.left < room THEN echo.left ELSE room
       IN  /\ ~rst[c]
           /\ client[c] = "connected"
           /\ n > 0
           /\ outbuf' = [outbuf EXCEPT ![c] = @ + n]
           /\ echo' = IF n = echo.left THEN NoEcho ELSE [echo EXCEPT !.left = @ - n, !.some = TRUE]
    /\ UNCHANGED <<proc, fds, cur_fds, evs, backlog, edge, inbuf, fin, rst, told, late, clientVars>>

\* The client has closed, but its answer, a reset, has not arrived.
WriteLate ==
    /\ proc = "running"
    /\ echo # NoEcho
    /\ ~rst[echo.to]
    /\ client[echo.to] = "closed"
    /\ late' = [late EXCEPT ![echo.to] = TRUE]
    /\ echo' = NoEcho
    /\ UNCHANGED <<proc, fds, cur_fds, evs, backlog, edge, inbuf, fin, rst, told, outbuf, clientVars>>

\* write after a reset.  What was copied before is returned as a short count.
\* If nothing was, the first write returns the error of the reset, which main
\* does not look at; when that error has been returned, or the end of the
\* stream came before the reset, write raises SIGPIPE, which nobody handles.
WriteAfterReset ==
    /\ proc = "running"
    /\ echo # NoEcho
    /\ rst[echo.to]
    /\ \/ /\ echo.some
          /\ echo' = NoEcho
          /\ UNCHANGED <<proc, told>>
       \/ /\ ~echo.some /\ ~fin[echo.to] /\ ~told[echo.to]
          /\ told' = [told EXCEPT ![echo.to] = TRUE]
          /\ echo' = NoEcho
          /\ UNCHANGED proc
       \/ /\ ~echo.some /\ (fin[echo.to] \/ told[echo.to])
          /\ proc' = "killed"
          /\ UNCHANGED <<echo, told>>
    /\ UNCHANGED <<fds, cur_fds, evs, backlog, edge, inbuf, fin, rst, outbuf, late, clientVars>>

Server ==
    \/ EpollWait
    \/ Accept
    \/ AcceptFails
    \/ \E f \in Fd : Read(f)
    \/ Write
    \/ WriteLate
    \/ WriteAfterReset

-----------------------------------------------------------------------------
(* The clients and the network.                                            *)

Arrival(f) == edge' = IF f \in fds THEN edge \cup {f} ELSE edge

Connect(c) ==
    /\ client[c] = "new"
    /\ proc = "running"
    /\ LISTEN \in fds
    /\ Len(backlog) < MAXBACK
    /\ client' = [client EXCEPT ![c] = "connected"]
    /\ backlog' = Append(backlog, c)
    /\ Arrival(LISTEN)
    /\ UNCHANGED <<serverVars, inbuf, fin, rst, told, outbuf, late, sent, got>>

Send(c) ==
    /\ client[c] = "connected"
    /\ c \in Polite => got[c] = sent[c]
    /\ \E n \in 1 .. MaxSend[c] - sent[c] :
           /\ c \in Polite => n <= MAXLINE
           /\ sent' = [sent EXCEPT ![c] = @ + n]
           /\ inbuf' = [inbuf EXCEPT ![c] = @ + n]
    /\ Arrival(c)
    /\ UNCHANGED <<serverVars, backlog, fin, rst, told, outbuf, late, client, got>>

Receive(c) ==
    /\ client[c] = "connected"
    /\ outbuf[c] > 0
    /\ got' = [got EXCEPT ![c] = @ + outbuf[c]]
    /\ outbuf' = [outbuf EXCEPT ![c] = 0]
    /\ UNCHANGED <<serverVars, backlog, edge, inbuf, fin, rst, told, late, client, sent>>

\* A client that closes with echo unread resets the connection.
Close(c) ==
    /\ client[c] = "connected"
    /\ c \in Polite => got[c] = sent[c]
    /\ client' = [client EXCEPT ![c] = "closed"]
    /\ IF outbuf[c] > 0
       THEN /\ rst' = [rst EXCEPT ![c] = TRUE]
            /\ UNCHANGED fin
       ELSE /\ fin' = [fin EXCEPT ![c] = TRUE]
            /\ UNCHANGED rst
    /\ Arrival(c)
    /\ UNCHANGED <<serverVars, backlog, inbuf, told, outbuf, late, sent, got>>

\* The answer of a closed client to data.
ResetArrives(c) ==
    /\ late[c]
    /\ ~rst[c]
    /\ rst' = [rst EXCEPT ![c] = TRUE]
    /\ Arrival(c)
    /\ UNCHANGED <<serverVars, backlog, inbuf, fin, told, outbuf, late, clientVars>>

Clients ==
    \E c \in Conn : Connect(c) \/ Send(c) \/ Receive(c) \/ Close(c) \/ ResetArrives(c)

Next == Server \/ EpollWaitFails \/ AcceptOrAddFails \/ Clients

Spec == Init /\ [][Next]_vars

\* The server runs whenever it can; a polite client reads what it waits for.
FairSpec == Spec /\ WF_vars(Server) /\ \A c \in Polite : WF_vars(Receive(c))

-----------------------------------------------------------------------------

\* cur_fds, which main counts by hand and hands to epoll_wait as the size of
\* its array, is the number of registered descriptors, and the listening
\* socket is always one of them.
Accounting == cur_fds = Cardinality(fds) /\ LISTEN \in fds

\* The limit in main is never reached, because accept runs out of descriptors
\* first: an event of listen_fd never falls through to read and close.
LimitNeverReached == cur_fds < MAXEPOLL

\* Edges are merged and descriptors are freed within a batch of events, yet
\* whenever main handles an event its accept or read finds something: accept
\* does not fail with EAGAIN, which would end the server, and read does not
\* block it.
EventsAreReal == \A f \in evs : Readable(f)

\* No byte is echoed twice, invented or dropped while both sides are there.
EchoConserved ==
    \A c \in Conn :
        client[c] = "connected" =>
            sent[c] = inbuf[c] + (IF echo.to = c THEN echo.left ELSE 0) + outbuf[c] + got[c]

\* The server is lost for everybody: it ended, or write waits for room with a
\* client that is there and does not read its echo.
Lost ==
    \/ proc # "running"
    \/ /\ echo # NoEcho
       /\ client[echo.to] = "connected"
       /\ outbuf[echo.to] = SockBuf

\* What an accepted polite client sends is read, in spite of the edges that
\* are missed for clients that send more than a buffer at once, of clients
\* that keep a write waiting for a while, and of resets that write meets.
\* Only a server that is lost for good is excused.
PoliteIsServed ==
    \/ <>[]Lost
    \/ \A c \in Polite : (c \in fds /\ inbuf[c] > 0) ~> (inbuf[c] = 0)

\* The descriptor of a polite client that has closed is freed, with the same
\* excuse: a reset by another client during its echo is none.
PoliteIsFreed ==
    \/ <>[]Lost
    \/ \A c \in Polite : (c \in fds /\ client[c] = "closed") ~> (c \notin fds)
=============================================================================
