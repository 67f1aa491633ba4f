---------------------------- MODULE FileTransmit ----------------------------
(***************************************************************************)
(* fileTransmit as a whole: any number of sending clients, the one         *)
(* receiver, the segment between them, and what users and the environment  *)
(* do to all three.                                                        *)
(***************************************************************************)
EXTENDS FileSend, FileRecv

vars == <<linkVars, sendVars, recvVars>>

Init == LinkInit /\ SendInit /\ RecvInit

ClientNext == \E c \in Client : ClientStep(c) /\ UNCHANGED recvVars
ServerNext == ServerStep /\ UNCHANGED sendVars
LinkFault  == LinkNext /\ UNCHANGED <<sendVars, recvVars>>
UserNext ==
    \/ \E c \in Client : /\ SendReq(c) \/ ClientKilled(c) \/ FileGrows(c)
                        /\ UNCHANGED recvVars
    \/ (ServerRestart \/ ServerKilled) /\ UNCHANGED sendVars

Next == ClientNext \/ ServerNext \/ LinkFault \/ UserNext

Spec == Init /\ [][Next]_vars

\* Both programs are single sequential processes that never yield: each goes
\* on while it can.  Nothing forces a user, or a fault, to act.
Fairness ==
    /\ \A c \in Client : WF_vars(ClientStep(c) /\ UNCHANGED recvVars)
    /\ WF_vars(ServerNext)

FairSpec == Spec /\ Fairness

-----------------------------------------------------------------------------

\* Types of all variables.
TypeOK == LinkTypeOK /\ SendTypeOK /\ RecvTypeOK

\* The frames of client c that the receiver has not answered.
Outstanding(c) == {i \in DOMAIN toServer : toServer[i].src = c}

\* fileTransmit stops and waits (README: every frame must be answered): as
\* long as each program is started once and nobody else uses the Ethernet
\* type, a client has at most one frame or one answer under way, and none
\* before it starts and while it is between two calls of recvAck.
StopAndWait ==
    \A c \in Client :
        /\ \A i, j \in Outstanding(c) : i = j
        /\ Len(toClient[c]) <= 1
        /\ Outstanding(c) # {} => toClient[c] = <<>>
        /\ runs[c] = 0 \/ cpc[c] = "reading" =>
               Outstanding(c) = {} /\ toClient[c] = <<>>

\* What fileTransmit/README promises ("to guarantee the integrity of the
\* data, every frame needs an answer"): when fileSend returns SUCCESS, the
\* file of the receiver is what the client read, and that is no less than
\* the size it announced.
Succeeded(c) == cpc[c] = "done" /\ ret[c] = SUCCESS
DeliveredIfSuccess ==
    \A c \in Client :
        Succeeded(c) =>
            /\ disk[DstOf[c]] = SubSeq(src[c], 1, pos[c])
            /\ pos[c] >= fileSize[c]

\* The two totals the programs print at the end ("send %d packets",
\* "recvCount = %d") agree after a success.
CountsAgree == \A c \in Client : Succeeded(c) => recvCount = count[c]

\* createFile announces fileSize / TRANSMITSIZE + 1 frames; without read
\* errors and edits that is how many sendFileData sends, the empty frame
\* after a last full block included.
FrameCountAsAnnounced ==
    \A c \in Client : Succeeded(c) => recvCount = fileCount

\* Across kills, restarts and leftovers of earlier runs, as long as no frame
\* is lost between two others: every byte of a received file is at the place
\* where some version of its source has it, or belongs to the old content, or
\* is a hole.
Versions(p) == OldContent \cup UNION {Source[c] : c \in {d \in Client : DstOf[d] = p}}
OffsetFaithful ==
    \A p \in Path : \A i \in DOMAIN disk[p] :
        \/ disk[p][i] = 0
        \/ \E v \in Versions(p) : i \in DOMAIN v /\ v[i] = disk[p][i]

\* recvFileData hands fp to fwrite without looking at it: only a receiver
\* that was restarted in the middle of a transfer meets data with fp = NULL.
FirstRunNeverCrashes == srv = "segv" => sruns > 1

\* main reports a failed transfer when the result of fileSend is negative.
RefusalReported ==
    \A c \in Client : cpc[c] = "done" /\ ret[c] # SUCCESS => ret[c] < 0

-----------------------------------------------------------------------------

\* A program that was started once and lost no frame finishes.
ClientFinishes == \A c \in Client : cpc[c] \notin NotRunning ~> cpc[c] = "done"

\* The receiver closes everything and exits after END has reached it.
ServerExitsAfterEnd ==
    (\E i \in DOMAIN toServer : toServer[i].status = END) ~> srv = "off"
=============================================================================
