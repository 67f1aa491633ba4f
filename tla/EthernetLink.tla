---------------------------- MODULE EthernetLink ----------------------------
(***************************************************************************)
(* The raw Ethernet segment between the machines that run fileTransmit,    *)
(* as fileTransmit/ethernet.c and recvEtherFrame use it.                   *)
(*                                                                         *)
(* toServer holds the frames addressed to the machine of the receiving     *)
(* program that it has not read yet, oldest first; toClient[c] those for   *)
(* the machine of client c.  A frame in a queue is on the wire or already  *)
(* in the receive buffer of the packet socket.  The queues of the clients  *)
(* hold bare status words: recvAck looks at nothing else, neither at the   *)
(* source address nor at the rest of the frame.                            *)
(*                                                                         *)
(* One segment keeps the frames of one pair of stations in order and does  *)
(* not duplicate them.  It may lose a frame (collision, full receive       *)
(* buffer, interface down; also what an ignored failure of sendto in       *)
(* sendAck amounts to) and it may damage one.                              *)
(***************************************************************************)
EXTENDS Integers, Sequences, SequencesExt

CONSTANTS
    Client,     \* the machines that run "fileTransmit -c"
    Path,       \* the file names the receiver may be asked to create
    Byte,       \* the byte values that occur in files
    TRANSMITSIZE,   \* bytes of file content in one data frame
    Faults,     \* the faults the environment may inject, see FaultKind
    MaxQueue    \* bound: stray frames are sent while fewer are queued

FaultKind == {"loseFrame", "loseAck", "corrupt", "stray", "send", "recv", "read", "grow",
              "open", "write", "clientKill", "serverKill"}

ASSUME LinkAssumption ==
    /\ Byte \subseteq Nat
    /\ 0 \in Byte
    /\ TRANSMITSIZE \in Nat \ {0}
    /\ Faults \subseteq FaultKind
    /\ MaxQueue \in Nat

VARIABLES toServer, toClient
linkVars == <<toServer, toClient>>

\* The status words of fileTransmit.c.  UNKNOWN stands for any word that is none
\* of them: ethernetDemo/sendEther.c sends text under the same Ethernet type.
START   == 5
ING     == 90
END     == 10
SUCCESS == 224
FAIL    == 238
UNKNOWN   == 0

\* What the context of a data frame may hold.
Block == BoundedSeq(Byte, TRANSMITSIZE)

\* uint32 sum of the bytes; a frame holds at most 1488 of them, so the sum
\* stays below 2^32 and never wraps.
checksum(p_data) == FoldSeq(LAMBDA byte, sum : sum + byte, 0, p_data)

\* fileAttr_t, fileData_t and the bare status frame, with the source address.
AttrFrame  == [src: Client, status: {START}, fileSize: Nat, path: Path]
DataFrame  == [src: Client, status: {ING}, sum: {checksum(s) : s \in Block},
               context: Block]
PlainFrame == [src: Client, status: {END, UNKNOWN}]
Frame      == AttrFrame \cup DataFrame \cup PlainFrame
Status     == {SUCCESS, FAIL, UNKNOWN}

LinkTypeOK ==
    /\ toServer \in Seq(Frame)
    /\ toClient \in [Client -> Seq(Status)]

LinkInit ==
    /\ toServer = <<>>
    /\ toClient = [c \in Client |-> <<>>]

\* What is left of a queue when a new process opens its packet socket: the
\* oldest frames had reached the old socket and are gone with it, the others
\* are still on the wire.
Remainders(queue) == {SubSeq(queue, k + 1, Len(queue)) : k \in 0 .. Len(queue)}

-----------------------------------------------------------------------------

LoseFrame ==
    /\ "loseFrame" \in Faults
    /\ \E i \in DOMAIN toServer : toServer' = RemoveAt(toServer, i)
    /\ UNCHANGED toClient

LoseAck ==
    /\ "loseAck" \in Faults
    /\ \E c \in Client : \E i \in DOMAIN toClient[c] :
           toClient' = [toClient EXCEPT ![c] = RemoveAt(@, i)]
    /\ UNCHANGED toServer

\* A data frame is damaged on its way.  Damage that keeps the additive sum
\* (two bytes swapped, say) is left to the frame check sequence of Ethernet.
Corrupt ==
    /\ "corrupt" \in Faults
    /\ \E i \in DOMAIN toServer :
           LET frame == toServer[i] IN
           /\ frame.status = ING
           /\ \E damaged \in [1 .. Len(frame.context) -> Byte] :
                  /\ checksum(damaged) # frame.sum
                  /\ toServer' = [toServer EXCEPT ![i] = [frame EXCEPT !.context = damaged]]
    /\ UNCHANGED toClient

\* ethernetDemo/sendEther.c run on the machine of a client or towards it: a
\* frame of the same Ethernet type (0x1024) that belongs to no transfer.
Stray ==
    /\ "stray" \in Faults
    /\ \E c \in Client :
           /\ Len(toServer) + Len(toClient[c]) < MaxQueue
           /\ \/ /\ toServer' = Append(toServer, [src |-> c, status |-> UNKNOWN])
                 /\ UNCHANGED toClient
              \/ /\ toClient' = [toClient EXCEPT ![c] = Append(@, UNKNOWN)]
                 /\ UNCHANGED toServer

LinkNext == LoseFrame \/ LoseAck \/ Corrupt \/ Stray
=============================================================================
