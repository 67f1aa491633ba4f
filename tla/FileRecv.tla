------------------------------ MODULE FileRecv ------------------------------
(***************************************************************************)
(* The receiving side of fileTransmit: fileRecv and what it calls, on one  *)
(* machine.  It serves whatever frame arrives, looks at the status word    *)
(* alone and never at the source address, answers every frame and stops    *)
(* after the first END or the first failure.                               *)
(*                                                                         *)
(* The file goes through stdio: fwrite fills the buffer of the stream, the *)
(* buffer reaches the file when it is full, at fflush, at fclose, or when  *)
(* the process exits; a killed process loses it.                           *)
(***************************************************************************)
EXTENDS EthernetLink

CONSTANTS
    OldContent,     \* what a file may hold before anything is received
    MaxServerRuns   \* bound: how often the receiver is started

ASSUME RecvAssumption ==
    /\ OldContent \subseteq Seq(Byte)
    /\ MaxServerRuns \in Nat

VARIABLES
    srv,        \* "up": in fileRecv; "quit": past its loop; "off"; "segv"
    fp,         \* the global fp: an index of streams, 0 for NULL
    streams,    \* the FILEs that are open, oldest first
    disk,       \* the content of the files
    recvCount,  \* data frames accepted
    fileCount,  \* data frames the last START announced
    sruns       \* how often the program was started
recvVars == <<srv, fp, streams, disk, recvCount, fileCount, sruns>>

\* A FILE: its file, the offset its buffer starts at, and its buffer.
Stream == [path: Path, off: Nat, buf: Seq(Byte)]

RecvTypeOK ==
    /\ srv \in {"up", "quit", "off", "segv"}
    /\ streams \in Seq(Stream)
    /\ fp \in {0, Len(streams)}
    /\ disk \in [Path -> Seq(Byte)]
    /\ recvCount \in Nat
    /\ fileCount \in Nat
    /\ sruns \in Nat

RecvInit ==
    /\ srv = "up"
    /\ fp = 0
    /\ streams = <<>>
    /\ disk \in [Path -> OldContent]
    /\ recvCount = 0
    /\ fileCount = 0
    /\ sruns = 1

-----------------------------------------------------------------------------

\* The file content after bytes were written at offset off; a gap that opens
\* behind the end of the file reads as zeros.
WriteAt(content, off, bytes) ==
    IF bytes = <<>> THEN content
    ELSE LET end == off + Len(bytes)
             len == IF end > Len(content) THEN end ELSE Len(content)
         IN  [i \in 1 .. len |->
                  IF i \in off + 1 .. end     THEN bytes[i - off]
                  ELSE IF i \in DOMAIN content THEN content[i]
                  ELSE 0]

\* buf is put into the buffer of stream i, and the first n bytes of that
\* buffer reach the file.
PutAndDrain(i, bytes, n) ==
    LET st  == streams[i]
        buf == st.buf \o bytes
    IN  /\ disk' = [disk EXCEPT ![st.path] =
                        WriteAt(@, st.off, SubSeq(buf, 1, n))]
        /\ streams' = [streams EXCEPT ![i] =
                        [path |-> st.path, off |-> st.off + n,
                         buf |-> SubSeq(buf, n + 1, Len(buf))]]

\* sendAck: the status goes back to where the frame came from.  fileRecv does
\* not look at the result of the send.
Answer(frame, status) ==
    /\ toServer' = Tail(toServer)
    /\ toClient' = [toClient EXCEPT ![frame.src] = Append(@, status)]

\* ret >= 0 in fileRecv: answer SUCCESS and read on.
Accept(frame) == Answer(frame, SUCCESS) /\ UNCHANGED srv

\* Mutant: answers the return value instead of the status word.
RefuseWithRet(frame) == Answer(frame, -1) /\ srv' = "quit"

\* ret < 0 in fileRecv: answer FAIL and leave.
Refuse(frame) == Answer(frame, FAIL) /\ srv' = "quit"

Reads(status) == srv = "up" /\ toServer # <<>> /\ Head(toServer).status = status

\* Mutant: keeps writing to the stream that is already open.
CreateFileUnlessOpen ==
    /\ Reads(START)
    /\ LET frame == Head(toServer) IN
       /\ Accept(frame)
       /\ fileCount' = (frame.fileSize \div TRANSMITSIZE) + 1
       /\ \/ /\ fp # 0
             /\ UNCHANGED <<disk, streams, fp>>
          \/ /\ fp = 0
             /\ disk' = [disk EXCEPT ![frame.path] = <<>>]
             /\ streams' = Append(streams, [path |-> frame.path, off |-> 0, buf |-> <<>>])
             /\ fp' = Len(streams) + 1
    /\ UNCHANGED <<recvCount, sruns>>

\* START: createFile truncates the file and forgets the stream it had open;
\* recvCount goes on counting.
CreateFile ==
    /\ Reads(START)
    /\ LET frame == Head(toServer) IN
       /\ Accept(frame)
       /\ disk' = [disk EXCEPT ![frame.path] = <<>>]
       /\ streams' = Append(streams, [path |-> frame.path, off |-> 0, buf |-> <<>>])
       /\ fp' = Len(streams) + 1
       /\ fileCount' = (frame.fileSize \div TRANSMITSIZE) + 1
    /\ UNCHANGED <<recvCount, sruns>>

\* Mutant: answers FAIL but serves on with a NULL fp.
CreateFileFailsAndGoesOn ==
    /\ "open" \in Faults
    /\ Reads(START)
    /\ Answer(Head(toServer), FAIL)
    /\ fileCount' = (Head(toServer).fileSize \div TRANSMITSIZE) + 1
    /\ fp' = 0
    /\ UNCHANGED <<srv, streams, disk, recvCount, sruns>>

CreateFileFails ==
    /\ "open" \in Faults
    /\ Reads(START)
    /\ LET frame == Head(toServer) IN
       /\ Refuse(frame)
       /\ fileCount' = (frame.fileSize \div TRANSMITSIZE) + 1
    /\ fp' = 0
    /\ UNCHANGED <<streams, disk, recvCount, sruns>>

\* Mutant: the sum is not compared.
RecvUnchecked ==
    /\ Reads(ING)
    /\ fp # 0
    /\ Accept(Head(toServer))
    /\ \E n \in 0 .. Len(streams[fp].buf) + Len(Head(toServer).context) :
           PutAndDrain(fp, Head(toServer).context, n)
    /\ recvCount' = recvCount + 1
    /\ UNCHANGED <<fp, fileCount, sruns>>

\* Mutant: an empty frame is not counted.
RecvCountsFullFrames ==
    /\ Reads(ING)
    /\ fp # 0
    /\ LET frame == Head(toServer) IN
       /\ checksum(frame.context) = frame.sum
       /\ Accept(frame)
       /\ \E n \in 0 .. Len(streams[fp].buf) + Len(frame.context) :
              PutAndDrain(fp, frame.context, n)
       /\ recvCount' = IF frame.context = <<>> THEN recvCount ELSE recvCount + 1
    /\ UNCHANGED <<fp, fileCount, sruns>>

\* ING: recvFileData.  fwrite of no bytes does not touch the stream, whatever
\* fp is; fwrite of some bytes to a NULL fp is a segmentation fault.
RecvFileData ==
    /\ Reads(ING)
    /\ LET frame == Head(toServer) IN
       /\ checksum(frame.context) = frame.sum
       /\ Accept(frame)
       /\ \/ /\ fp # 0
             /\ \E n \in 0 .. Len(streams[fp].buf) + Len(frame.context) :
                    PutAndDrain(fp, frame.context, n)
          \/ /\ fp = 0
             /\ frame.context = <<>>
             /\ UNCHANGED <<disk, streams>>
    /\ recvCount' = recvCount + 1
    /\ UNCHANGED <<fp, fileCount, sruns>>

\* Mutant: a damaged frame is dropped without an answer.
ChecksumFailsSilently ==
    /\ Reads(ING)
    /\ checksum(Head(toServer).context) # Head(toServer).sum
    /\ toServer' = Tail(toServer)
    /\ UNCHANGED <<toClient, recvVars>>

ChecksumFails ==
    /\ Reads(ING)
    /\ LET frame == Head(toServer) IN
       /\ checksum(frame.context) # frame.sum
       /\ Refuse(frame)
    /\ UNCHANGED <<fp, streams, disk, recvCount, fileCount, sruns>>

\* The disk is full: fwrite takes only some of the bytes.
FwriteFails ==
    /\ "write" \in Faults
    /\ Reads(ING)
    /\ fp # 0
    /\ LET frame == Head(toServer) IN
       /\ checksum(frame.context) = frame.sum
       /\ Refuse(frame)
       /\ \E taken \in 0 .. Len(frame.context) - 1 :
          \E n \in 0 .. Len(streams[fp].buf) + taken :
              PutAndDrain(fp, SubSeq(frame.context, 1, taken), n)
    /\ UNCHANGED <<fp, recvCount, fileCount, sruns>>

FwriteToNull ==
    /\ Reads(ING)
    /\ fp = 0
    /\ LET frame == Head(toServer) IN
       /\ frame.context # <<>>
       /\ checksum(frame.context) = frame.sum
    /\ toServer' = Tail(toServer)
    /\ srv' = "segv"
    /\ streams' = <<>>
    /\ UNCHANGED <<toClient, fp, disk, recvCount, fileCount, sruns>>

\* Mutant: no fflush before the answer.
RecvEndWithoutFlush ==
    /\ Reads(END)
    /\ Answer(Head(toServer), SUCCESS)
    /\ srv' = "quit"
    /\ UNCHANGED <<fp, streams, disk, recvCount, fileCount, sruns>>

\* Mutant: flag stays 1, so that the receiver serves on after END.
RecvEndAndGoOn ==
    /\ Reads(END)
    /\ Accept(Head(toServer))
    /\ \/ /\ fp # 0
          /\ PutAndDrain(fp, <<>>, Len(streams[fp].buf))
       \/ /\ fp = 0
          /\ UNCHANGED <<disk, streams>>
    /\ UNCHANGED <<fp, recvCount, fileCount, sruns>>

\* END: fflush(fp), answer, leave.  With fp = NULL it flushes every stream
\* that is open for writing and reports success; none is: fp is NULL only
\* before the first START and after a failed one, which ends the program.
RecvEnd ==
    /\ Reads(END)
    /\ Answer(Head(toServer), SUCCESS)
    /\ srv' = "quit"
    /\ \/ /\ fp # 0
          /\ PutAndDrain(fp, <<>>, Len(streams[fp].buf))
       \/ /\ fp = 0
          /\ UNCHANGED <<disk, streams>>
    /\ UNCHANGED <<fp, recvCount, fileCount, sruns>>

FflushFails ==
    /\ "write" \in Faults
    /\ Reads(END)
    /\ fp # 0
    /\ Refuse(Head(toServer))
    /\ \E n \in 0 .. Len(streams[fp].buf) - 1 : PutAndDrain(fp, <<>>, n)
    /\ UNCHANGED <<fp, recvCount, fileCount, sruns>>

\* Any other status word: complain, then answer as if all were well, because
\* ret still holds the result of recvEtherFrame.
RecvInvalid ==
    /\ Reads(UNKNOWN)
    /\ Accept(Head(toServer))
    /\ UNCHANGED <<fp, streams, disk, recvCount, fileCount, sruns>>

\* recvfrom fails: fileRecv returns without closing fp and without answer.
RecvFails ==
    /\ "recv" \in Faults
    /\ srv = "up"
    /\ srv' = "quit"
    /\ UNCHANGED <<linkVars, fp, streams, disk, recvCount, fileCount, sruns>>

\* fclose(fp), and then the exit of the process flushes the streams createFile
\* forgot; the newest goes first.  Nobody looks at a failure here.
CloseStream ==
    /\ srv = "quit"
    /\ streams # <<>>
    /\ LET last == Len(streams)
           st   == streams[last]
       IN  /\ \E n \in IF "write" \in Faults THEN 0 .. Len(st.buf) ELSE {Len(st.buf)} :
                  disk' = [disk EXCEPT ![st.path] =
                               WriteAt(@, st.off, SubSeq(st.buf, 1, n))]
           /\ streams' = Front(streams)
    /\ fp' = 0
    /\ UNCHANGED <<linkVars, srv, recvCount, fileCount, sruns>>

Exit ==
    /\ srv = "quit"
    /\ streams = <<>>
    /\ srv' = "off"
    /\ UNCHANGED <<linkVars, fp, streams, disk, recvCount, fileCount, sruns>>

\* Every step fileRecv takes by itself.
ServerStep ==
    \/ CreateFile
    \/ CreateFileFails
    \/ RecvFileData
    \/ ChecksumFails
    \/ FwriteFails
    \/ FwriteToNull
    \/ RecvEnd
    \/ FflushFails
    \/ RecvInvalid
    \/ RecvFails
    \/ CloseStream
    \/ Exit

\* The user starts the receiver again: it serves one transfer per run.
ServerRestart ==
    /\ srv \in {"off", "segv"}
    /\ sruns < MaxServerRuns
    /\ srv' = "up"
    /\ sruns' = sruns + 1
    /\ fp' = 0
    /\ streams' = <<>>
    /\ recvCount' = 0
    /\ fileCount' = 0
    /\ \E rest \in Remainders(toServer) : toServer' = rest
    /\ UNCHANGED <<toClient, disk>>

\* The user interrupts the receiver: what is in the buffers is lost.
ServerKilled ==
    /\ "serverKill" \in Faults
    /\ srv \in {"up", "quit"}
    /\ srv' = "off"
    /\ fp' = 0
    /\ streams' = <<>>
    /\ UNCHANGED <<linkVars, disk, recvCount, fileCount, sruns>>
=============================================================================
