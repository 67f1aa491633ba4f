------------------------------ MODULE FileSend ------------------------------
(***************************************************************************)
(* The sending side of fileTransmit: fileSend and what it calls, one       *)
(* process per client machine.  The process stops and waits: START with    *)
(* the file's size and destination, then one ING frame per fread, then     *)
(* END, each followed by a recvAck that blocks without a timeout.          *)
(***************************************************************************)
EXTENDS EthernetLink

CONSTANTS
    Source,         \* Source[c]: the contents the file of client c may have
    DstOf,          \* DstOf[c]: the name client c asks the receiver to create
    MaxRuns,        \* bound: how often the program is started on each client
    MaxLen,         \* bound: length up to which a file grows while it is sent
    MaxCount        \* bound: frames before which a read error may strike

ASSUME SendAssumption ==
    /\ Source \in [Client -> SUBSET Seq(Byte)]
    /\ DstOf \in [Client -> Path]
    /\ MaxRuns \in Nat
    /\ MaxLen \in Nat
    /\ MaxCount \in Nat

VARIABLES
    cpc,        \* where the client is, see Waiting
    ret,        \* what its last fileSend returned
    src,        \* content of the source file
    pos,        \* read offset of fp
    eof,        \* feof(fp)
    fileSize,   \* the size it measured and announced
    count,      \* acknowledged data frames
    runs        \* how often the program was started
sendVars == <<cpc, ret, src, pos, eof, fileSize, count, runs>>

Waiting == {"waitReq", "waitData", "waitEnd"}
NotRunning == {"idle", "done"}

SendTypeOK ==
    /\ cpc \in [Client -> {"reading"} \cup Waiting \cup NotRunning]
    /\ ret \in [Client -> Status \cup {-1}]
    /\ src \in [Client -> Seq(Byte)]
    /\ pos \in [Client -> Nat]
    /\ eof \in [Client -> BOOLEAN]
    /\ fileSize \in [Client -> Nat]
    /\ count \in [Client -> Nat]
    /\ runs \in [Client -> Nat]

SendInit ==
    /\ cpc = [c \in Client |-> "idle"]
    /\ ret = [c \in Client |-> -1]
    /\ src = [c \in Client |-> <<>>]
    /\ pos = [c \in Client |-> 0]
    /\ eof = [c \in Client |-> FALSE]
    /\ fileSize = [c \in Client |-> 0]
    /\ count = [c \in Client |-> 0]
    /\ runs = [c \in Client |-> 0]

-----------------------------------------------------------------------------

\* fileSend returns value.
Return(c, value) ==
    /\ cpc' = [cpc EXCEPT ![c] = "done"]
    /\ ret' = [ret EXCEPT ![c] = value]

\* Mutant: no recvAck after a data frame.
SendDataAndGoOn(c, frame, wait) ==
    /\ toServer' = Append(toServer, frame)
    /\ cpc' = [cpc EXCEPT ![c] = IF wait = "waitData" THEN "reading" ELSE wait]
    /\ UNCHANGED ret

\* sendEtherData succeeds and the client goes on to wait for the answer.
SendAndWait(c, frame, wait) ==
    /\ toServer' = Append(toServer, frame)
    /\ cpc' = [cpc EXCEPT ![c] = wait]
    /\ UNCHANGED ret

\* sendEtherData fails: fileSend reports it and returns -1.
SendFails(c) ==
    /\ "send" \in Faults
    /\ Return(c, -1)
    /\ UNCHANGED toServer

\* recvAck reads the oldest frame, whoever sent it.
TakeAck(c) == toClient' = [toClient EXCEPT ![c] = Tail(@)]

\* main and fileSend up to sendReq: open the socket and the file, measure it,
\* announce it.  The user may have changed the file since the last run.  An
\* earlier failure (no interface, no ARP entry, no file) is a SendFails.
SendReq(c) ==
    /\ cpc[c] \in NotRunning
    /\ runs[c] < MaxRuns
    /\ \E content \in Source[c] :
           /\ src' = [src EXCEPT ![c] = content]
           /\ fileSize' = [fileSize EXCEPT ![c] = Len(content)]
           /\ \/ SendAndWait(c, [src |-> c, status |-> START,
                                 fileSize |-> Len(content), path |-> DstOf[c]],
                             "waitReq")
              \/ SendFails(c)
    /\ \E rest \in Remainders(toClient[c]) :
           toClient' = [toClient EXCEPT ![c] = rest]
    /\ pos' = [pos EXCEPT ![c] = 0]
    /\ eof' = [eof EXCEPT ![c] = FALSE]
    /\ count' = [count EXCEPT ![c] = 0]
    /\ runs' = [runs EXCEPT ![c] = @ + 1]

\* The answer to START; anything but SUCCESS ends fileSend, which returns it.
RecvReqAck(c) ==
    /\ cpc[c] = "waitReq"
    /\ toClient[c] # <<>>
    /\ TakeAck(c)
    /\ \/ /\ Head(toClient[c]) = SUCCESS
          /\ cpc' = [cpc EXCEPT ![c] = "reading"]
          /\ ret' = [ret EXCEPT ![c] = SUCCESS]
       \/ /\ Head(toClient[c]) # SUCCESS
          /\ Return(c, Head(toClient[c]))
    /\ UNCHANGED <<toServer, src, pos, eof, fileSize, count, runs>>

\* What is between the read offset and the end of the file.
BytesLeft(c) == Len(src[c]) - pos[c]

\* Mutant: the loop ends with the last byte, not with the read after it.
FreadLooksAhead(c, n, ateof) ==
    \/ /\ BytesLeft(c) > TRANSMITSIZE
       /\ n = TRANSMITSIZE
       /\ ateof = FALSE
    \/ /\ BytesLeft(c) <= TRANSMITSIZE
       /\ n = BytesLeft(c)
       /\ ateof = TRUE

\* What one fread of TRANSMITSIZE bytes can deliver: the full block, or less
\* at the end of the file, or less because of a read error, which does not
\* set the end-of-file flag.
Fread(c, n, ateof) ==
    \/ /\ BytesLeft(c) >= TRANSMITSIZE
       /\ n = TRANSMITSIZE
       /\ ateof = FALSE
    \/ /\ BytesLeft(c) < TRANSMITSIZE
       /\ n = BytesLeft(c)
       /\ ateof = TRUE
    \/ /\ "read" \in Faults
       /\ count[c] < MaxCount
       /\ n < TRANSMITSIZE
       /\ ateof = FALSE

\* One turn of the loop of sendFileData, up to recvAck.
SendFileData(c) ==
    /\ cpc[c] = "reading"
    /\ ~eof[c]
    /\ \E n \in 0 .. BytesLeft(c), ateof \in BOOLEAN :
           /\ Fread(c, n, ateof)
           /\ pos' = [pos EXCEPT ![c] = @ + n]
           /\ eof' = [eof EXCEPT ![c] = ateof]
           /\ LET buf == SubSeq(src[c], pos[c] + 1, pos[c] + n) IN
              \/ SendAndWait(c, [src |-> c, status |-> ING,
                                 sum |-> checksum(buf), context |-> buf],
                             "waitData")
              \/ SendFails(c)
    /\ UNCHANGED <<toClient, src, fileSize, count, runs>>

\* The answer to a data frame; sendFileData turns anything but SUCCESS to -1.
RecvDataAck(c) ==
    /\ cpc[c] = "waitData"
    /\ toClient[c] # <<>>
    /\ TakeAck(c)
    /\ \/ /\ Head(toClient[c]) = SUCCESS
          /\ cpc' = [cpc EXCEPT ![c] = "reading"]
          /\ count' = [count EXCEPT ![c] = @ + 1]
          /\ UNCHANGED ret
       \/ /\ Head(toClient[c]) # SUCCESS
          /\ Return(c, -1)
          /\ UNCHANGED count
    /\ UNCHANGED <<toServer, src, pos, eof, fileSize, runs>>

\* feof(fp) holds: sendFileData returns 0 and fileSend sends END.
SendEnd(c) ==
    /\ cpc[c] = "reading"
    /\ eof[c]
    /\ \/ SendAndWait(c, [src |-> c, status |-> END], "waitEnd")
       \/ SendFails(c)
    /\ UNCHANGED <<toClient, src, pos, eof, fileSize, count, runs>>

\* The answer to END is the result of fileSend, SUCCESS or not.
RecvEndAck(c) ==
    /\ cpc[c] = "waitEnd"
    /\ toClient[c] # <<>>
    /\ TakeAck(c)
    /\ Return(c, Head(toClient[c]))
    /\ UNCHANGED <<toServer, src, pos, eof, fileSize, count, runs>>

\* recvfrom fails in recvEtherFrame, for instance because the interface went
\* down: every caller of recvAck gives up with -1.
AckRecvFails(c) ==
    /\ "recv" \in Faults
    /\ cpc[c] \in Waiting
    /\ Return(c, -1)
    /\ UNCHANGED <<linkVars, src, pos, eof, fileSize, count, runs>>

\* What the program does by itself once the user has started it.
ClientStep(c) ==
    \/ RecvReqAck(c)
    \/ SendFileData(c)
    \/ RecvDataAck(c)
    \/ SendEnd(c)
    \/ RecvEndAck(c)
    \/ AckRecvFails(c)

\* The user interrupts the program (a client that waits for a lost answer
\* never returns by itself).
ClientKilled(c) ==
    /\ "clientKill" \in Faults
    /\ cpc[c] \notin NotRunning
    /\ cpc' = [cpc EXCEPT ![c] = "idle"]
    /\ ret' = [ret EXCEPT ![c] = -1]
    /\ UNCHANGED <<linkVars, src, pos, eof, fileSize, count, runs>>

\* Another program appends to the file while it is being sent.
FileGrows(c) ==
    /\ "grow" \in Faults
    /\ cpc[c] \notin NotRunning
    /\ Len(src[c]) < MaxLen
    /\ \E b \in Byte : src' = [src EXCEPT ![c] = Append(@, b)]
    /\ UNCHANGED <<linkVars, cpc, ret, pos, eof, fileSize, count, runs>>
=============================================================================
