------------------------ MODULE FileTransmit_proofs ------------------------
(***************************************************************************)
(* Proofs about FileTransmit for any number of clients, any files and any  *)
(* bounds.                                                                 *)
(***************************************************************************)
EXTENDS FileTransmit, SequenceTheorems, TLAPS

USE DEF START, ING, END, SUCCESS, FAIL, UNKNOWN

-----------------------------------------------------------------------------
(* Sequences, blocks and writes.                                           *)

LEMMA SubSeqType ==
    ASSUME NEW S, NEW s \in Seq(S), NEW i \in 1 .. Len(s) + 1, NEW j \in i - 1 .. Len(s)
    PROVE  /\ SubSeq(s, i, j) \in Seq(S)
           /\ Len(SubSeq(s, i, j)) = j - i + 1
           /\ \A k \in 1 .. j - i + 1 : SubSeq(s, i, j)[k] = s[i + k - 1]
  OBVIOUS

LEMMA TailType ==
    ASSUME NEW S, NEW s \in Seq(S), s # <<>>
    PROVE  /\ Head(s) \in S
           /\ Tail(s) \in Seq(S)
           /\ Len(Tail(s)) = Len(s) - 1
           /\ \A k \in 1 .. Len(Tail(s)) : Tail(s)[k] = s[k + 1]
           /\ Head(s) = s[1]
           /\ 1 \in DOMAIN s
  OBVIOUS

LEMMA RemoveAtType ==
    ASSUME NEW S, NEW s \in Seq(S), NEW i \in DOMAIN s
    PROVE  /\ RemoveAt(s, i) \in Seq(S)
           /\ Len(RemoveAt(s, i)) = Len(s) - 1
           /\ \A k \in 1 .. Len(s) - 1 :
                  RemoveAt(s, i)[k] = IF k < i THEN s[k] ELSE s[k + 1]
  <1> DEFINE a == SubSeq(s, 1, i - 1)
             b == SubSeq(s, i + 1, Len(s))
  <1>1. i \in 1 .. Len(s)
    OBVIOUS
  <1>2. /\ a \in Seq(S)
        /\ Len(a) = i - 1
        /\ \A k \in 1 .. i - 1 : a[k] = s[k]
    BY <1>1, SubSeqType
  <1>3. /\ b \in Seq(S)
        /\ Len(b) = Len(s) - i
        /\ \A k \in 1 .. Len(s) - i : b[k] = s[i + k]
    BY <1>1, SubSeqType
  <1> HIDE DEF a, b
  <1>4. RemoveAt(s, i) = a \o b
    BY DEF RemoveAt, a, b
  <1>5. a \o b \in Seq(S) /\ Len(a \o b) = Len(s) - 1
    BY <1>1, <1>2, <1>3
  <1>6. ASSUME NEW k \in 1 .. Len(s) - 1
        PROVE  (a \o b)[k] = IF k < i THEN s[k] ELSE s[k + 1]
    <2>a. a \in Seq(S) /\ b \in Seq(S)
      BY <1>2, <1>3
    <2>b. \A j \in 1 .. Len(a) + Len(b) :
              (a \o b)[j] = IF j <= Len(a) THEN a[j] ELSE b[j - Len(a)]
      BY ONLY <2>a, ConcatProperties, Zenon
    <2>c. Len(a) = i - 1 /\ Len(b) = Len(s) - i
      BY <1>2, <1>3
    <2>d. Len(s) \in Nat /\ i \in Nat /\ k \in Nat
      BY <1>1
    <2>e. k \in 1 .. Len(s) - 1 /\ i \in 1 .. Len(s)
      BY <1>1
    <2>f. k \in 1 .. Len(a) + Len(b)
      BY ONLY <2>c, <2>d, <2>e
    <2>1. (a \o b)[k] = IF k <= Len(a) THEN a[k] ELSE b[k - Len(a)]
      BY ONLY <2>b, <2>f, Zenon
    <2>2. CASE k < i
      <3>1. k <= Len(a) /\ k \in 1 .. i - 1
        BY ONLY <2>2, <2>c, <2>d, <2>e
      <3>2. (a \o b)[k] = a[k] /\ a[k] = s[k]
        BY ONLY <1>2, <2>1, <3>1, Zenon
      <3> QED
        BY ONLY <2>2, <3>2, Zenon
    <2>3. CASE ~(k < i)
      <3>1. /\ ~(k <= Len(a))
            /\ k - Len(a) \in 1 .. Len(s) - i
            /\ i + (k - Len(a)) = k + 1
        BY ONLY <2>3, <2>c, <2>d, <2>e
      <3>2. (a \o b)[k] = b[k - Len(a)] /\ b[k - Len(a)] = s[i + (k - Len(a))]
        BY ONLY <1>3, <2>1, <3>1, Zenon
      <3> QED
        BY ONLY <2>3, <3>1, <3>2, Zenon
    <2> QED
      BY <2>2, <2>3
  <1> QED
    BY <1>4, <1>5, <1>6

LEMMA RemainderType ==
    ASSUME NEW S, NEW s \in Seq(S), NEW r \in Remainders(s)
    PROVE  /\ r \in Seq(S)
           /\ \E d \in 0 .. Len(s) :
                  /\ Len(r) = Len(s) - d
                  /\ \A k \in 1 .. Len(r) : r[k] = s[k + d]
  <1>1. PICK d \in 0 .. Len(s) : r = SubSeq(s, d + 1, Len(s))
    BY DEF Remainders
  <1> QED
    BY <1>1, SubSeqType

LEMMA BlockIsBoundedSeq ==
    \A s : s \in Block <=> s \in Seq(Byte) /\ Len(s) <= TRANSMITSIZE
  <1> TRANSMITSIZE \in Nat
    BY LinkAssumption
  <1>1. ASSUME NEW s \in Block
        PROVE  s \in Seq(Byte) /\ Len(s) <= TRANSMITSIZE
    <2>1. PICK m \in 0 .. TRANSMITSIZE : s \in [1 .. m -> Byte]
      BY DEF Block, BoundedSeq, SeqOf
    <2> QED
      BY <2>1
  <1>2. ASSUME NEW s \in Seq(Byte), Len(s) <= TRANSMITSIZE
        PROVE  s \in Block
    <2>1. s \in [1 .. Len(s) -> Byte] /\ Len(s) \in 0 .. TRANSMITSIZE
      BY <1>2
    <2> QED
      BY <2>1 DEF Block, BoundedSeq, SeqOf
  <1> QED
    BY <1>1, <1>2

LEMMA WriteAtType ==
    ASSUME NEW content \in Seq(Byte), NEW off \in Nat, NEW bytes \in Seq(Byte)
    PROVE  WriteAt(content, off, bytes) \in Seq(Byte)
  <1>1. CASE bytes = <<>>
    BY <1>1 DEF WriteAt
  <1>2. CASE bytes # <<>>
    <2> DEFINE end == off + Len(bytes)
               len == IF end > Len(content) THEN end ELSE Len(content)
               f == [i \in 1 .. len |->
                        IF i \in off + 1 .. end     THEN bytes[i - off]
                        ELSE IF i \in DOMAIN content THEN content[i]
                        ELSE 0]
    <2>1. WriteAt(content, off, bytes) = f
      BY <1>2 DEF WriteAt
    <2>2. len \in Nat
      OBVIOUS
    <2>3. ASSUME NEW i \in 1 .. len PROVE f[i] \in Byte
      <3>1. CASE i \in off + 1 .. end
        <4>1. i - off \in 1 .. Len(bytes)
          BY <3>1
        <4> QED
          BY <3>1, <4>1
      <3>2. CASE i \notin off + 1 .. end
        BY <3>2, LinkAssumption
      <3> QED
        BY <3>1, <3>2
    <2> HIDE DEF len
    <2> QED
      BY <2>1, <2>2, <2>3
  <1> QED
    BY <1>1, <1>2

-----------------------------------------------------------------------------
(* Types.                                                                  *)

LEMMA FrameFields ==
    ASSUME NEW f \in Frame
    PROVE  /\ f.src \in Client
           /\ f.status = START => f.fileSize \in Nat /\ f.path \in Path
           /\ f.status = ING => f \in DataFrame
           /\ f.status = ING => f.context \in Seq(Byte)
  <1>1. CASE f \in AttrFrame
    BY <1>1 DEF AttrFrame
  <1>2. CASE f \in DataFrame
    BY <1>2, BlockIsBoundedSeq DEF DataFrame
  <1>3. CASE f \in PlainFrame
    BY <1>3 DEF PlainFrame
  <1> QED
    BY <1>1, <1>2, <1>3 DEF Frame

LEMMA PutAndDrainType ==
    ASSUME RecvTypeOK, NEW i \in DOMAIN streams, NEW bytes \in Seq(Byte),
           NEW n \in 0 .. Len(streams[i].buf) + Len(bytes),
           PutAndDrain(i, bytes, n)
    PROVE  /\ disk' \in [Path -> Seq(Byte)]
           /\ streams' \in Seq(Stream)
           /\ Len(streams') = Len(streams)
  <1> DEFINE st == streams[i]
             buf == st.buf \o bytes
  <1>1. st \in Stream
    BY DEF RecvTypeOK
  <1>2. st.path \in Path /\ st.off \in Nat /\ st.buf \in Seq(Byte)
    BY <1>1 DEF Stream
  <1>3. buf \in Seq(Byte) /\ Len(buf) = Len(st.buf) + Len(bytes)
    BY <1>2
  <1>4. SubSeq(buf, 1, n) \in Seq(Byte) /\ SubSeq(buf, n + 1, Len(buf)) \in Seq(Byte)
    BY <1>2, <1>3, SubSeqType
  <1>5. disk' \in [Path -> Seq(Byte)]
    <2>1. WriteAt(disk[st.path], st.off, SubSeq(buf, 1, n)) \in Seq(Byte)
      BY <1>2, <1>4, WriteAtType DEF RecvTypeOK
    <2> QED
      BY <2>1, <1>2 DEF PutAndDrain, RecvTypeOK
  <1>6. streams' \in Seq(Stream) /\ Len(streams') = Len(streams)
    <2> DEFINE new == [path |-> st.path, off |-> st.off + n,
                       buf |-> SubSeq(buf, n + 1, Len(buf))]
    <2>1. new \in Stream
      BY <1>2, <1>4 DEF Stream
    <2>2. streams' = [streams EXCEPT ![i] = new]
      BY DEF PutAndDrain
    <2> HIDE DEF new
    <2> QED
      BY <2>1, <2>2 DEF RecvTypeOK
  <1> QED
    BY <1>5, <1>6

LEMMA AnswerType ==
    ASSUME LinkTypeOK, toServer # <<>>, NEW status \in Status,
           Answer(Head(toServer), status)
    PROVE  LinkTypeOK'
  <1>1. Head(toServer) \in Frame /\ Tail(toServer) \in Seq(Frame)
    BY TailType DEF LinkTypeOK
  <1>2. Head(toServer).src \in Client
    BY <1>1, FrameFields
  <1> QED
    BY <1>1, <1>2 DEF LinkTypeOK, Answer

LEMMA TakeAckType ==
    ASSUME LinkTypeOK, NEW c \in Client, toClient[c] # <<>>, TakeAck(c)
    PROVE  toClient' \in [Client -> Seq(Status)] /\ Head(toClient[c]) \in Status
  <1>1. toClient[c] \in Seq(Status)
    BY DEF LinkTypeOK
  <1>2. Tail(toClient[c]) \in Seq(Status) /\ Head(toClient[c]) \in Status
    BY <1>1, TailType
  <1> QED
    BY <1>2 DEF LinkTypeOK, TakeAck

LEMMA SendTypes ==
    ASSUME TypeOK, NEW c \in Client, NEW frame \in Frame,
           NEW wait \in Waiting, SendAndWait(c, frame, wait) \/ SendFails(c)
    PROVE  /\ toServer' \in Seq(Frame)
           /\ cpc' \in [Client -> {"reading"} \cup Waiting \cup NotRunning]
           /\ ret' \in [Client -> Status \cup {-1}]
  <1> USE DEF TypeOK, LinkTypeOK, SendTypeOK
  <1>1. CASE SendAndWait(c, frame, wait)
    <2>1. toServer' = Append(toServer, frame) /\ toServer \in Seq(Frame)
      BY <1>1 DEF SendAndWait
    <2>2. cpc' = [cpc EXCEPT ![c] = wait] /\ ret' = ret
      BY <1>1 DEF SendAndWait
    <2>3. toServer' \in Seq(Frame)
      BY ONLY <2>1
    <2> QED
      BY <2>2, <2>3
  <1>2. CASE SendFails(c)
    BY <1>2 DEF SendFails, Return, NotRunning
  <1> QED
    BY <1>1, <1>2

LEMMA ReturnType ==
    ASSUME SendTypeOK, NEW c \in Client, NEW value \in Status \cup {-1}, Return(c, value)
    PROVE  /\ cpc' \in [Client -> {"reading"} \cup Waiting \cup NotRunning]
           /\ ret' \in [Client -> Status \cup {-1}]
  BY DEF Return, SendTypeOK, NotRunning

LEMMA InitType == Init => TypeOK
  <1> SUFFICES ASSUME Init PROVE TypeOK
    OBVIOUS
  <1>1. LinkTypeOK
    BY DEF Init, LinkInit, LinkTypeOK
  <1>2. SendTypeOK
    BY DEF Init, SendInit, SendTypeOK, NotRunning
  <1>3. RecvTypeOK
    BY RecvAssumption DEF Init, RecvInit, RecvTypeOK
  <1> QED
    BY <1>1, <1>2, <1>3 DEF TypeOK

\* The file is read block by block: what SendFileData sends is a frame, and
\* the read offset stays a number.
LEMMA FreadBlock ==
    ASSUME SendTypeOK, NEW c \in Client, NEW n \in 0 .. BytesLeft(c),
           NEW ateof \in BOOLEAN, Fread(c, n, ateof)
    PROVE  LET buf == SubSeq(src[c], pos[c] + 1, pos[c] + n) IN
           /\ pos[c] + n \in Nat
           /\ [src |-> c, status |-> ING, sum |-> checksum(buf), context |-> buf] \in Frame
  <1> DEFINE buf == SubSeq(src[c], pos[c] + 1, pos[c] + n)
  <1>1. src[c] \in Seq(Byte) /\ pos[c] \in Nat /\ TRANSMITSIZE \in Nat
    BY LinkAssumption DEF SendTypeOK
  <1>2. n \in Nat /\ n <= Len(src[c]) - pos[c] /\ n <= TRANSMITSIZE
    BY <1>1 DEF Fread, BytesLeft
  <1>a. pos[c] + 1 \in 1 .. Len(src[c]) + 1 /\ pos[c] + n \in (pos[c] + 1) - 1 .. Len(src[c])
    BY <1>1, <1>2
  <1>3. buf \in Seq(Byte) /\ Len(buf) = (pos[c] + n) - (pos[c] + 1) + 1
    BY <1>1, <1>a, SubSeqType
  <1> HIDE DEF buf
  <1>4. buf \in Block
    BY <1>1, <1>2, <1>3, BlockIsBoundedSeq
  <1>5. [src |-> c, status |-> ING, sum |-> checksum(buf), context |-> buf] \in Frame
    BY <1>4 DEF Frame, DataFrame
  <1> QED
    BY <1>1, <1>2, <1>5 DEF buf

LEMMA ClientStepType ==
    ASSUME TypeOK, NEW c \in Client, SendReq(c) \/ ClientStep(c)
    PROVE  LinkTypeOK' /\ SendTypeOK'
  <1>1. CASE SendReq(c)
    <2>1. PICK content \in Source[c] :
             /\ src' = [src EXCEPT ![c] = content]
             /\ fileSize' = [fileSize EXCEPT ![c] = Len(content)]
             /\ \/ SendAndWait(c, [src |-> c, status |-> START,
                                   fileSize |-> Len(content), path |-> DstOf[c]],
                               "waitReq")
                \/ SendFails(c)
      BY <1>1 DEF SendReq
    <2>2. content \in Seq(Byte) /\ DstOf[c] \in Path
      BY SendAssumption
    <2>3. [src |-> c, status |-> START, fileSize |-> Len(content), path |-> DstOf[c]] \in Frame
      BY <2>2 DEF Frame, AttrFrame
    <2>4. /\ toServer' \in Seq(Frame)
          /\ cpc' \in [Client -> {"reading"} \cup Waiting \cup NotRunning]
          /\ ret' \in [Client -> Status \cup {-1}]
      BY <2>1, <2>3, SendTypes DEF Waiting
    <2>5. toClient' \in [Client -> Seq(Status)]
      <3>1. PICK rest \in Remainders(toClient[c]) : toClient' = [toClient EXCEPT ![c] = rest]
        BY <1>1 DEF SendReq
      <3>2. rest \in Seq(Status)
        BY RemainderType DEF TypeOK, LinkTypeOK
      <3> QED
        BY <3>1, <3>2 DEF TypeOK, LinkTypeOK
    <2>6. /\ src' \in [Client -> Seq(Byte)]
          /\ fileSize' \in [Client -> Nat]
      BY <2>1, <2>2 DEF TypeOK, SendTypeOK
    <2>7. /\ pos' \in [Client -> Nat]
          /\ eof' \in [Client -> BOOLEAN]
          /\ count' \in [Client -> Nat]
          /\ runs' \in [Client -> Nat]
      BY <1>1 DEF SendReq, TypeOK, SendTypeOK
    <2> QED
      BY <2>4, <2>5, <2>6, <2>7 DEF LinkTypeOK, SendTypeOK
  <1>2. CASE RecvReqAck(c)
    <2>1. toClient' \in [Client -> Seq(Status)] /\ Head(toClient[c]) \in Status
      BY <1>2, TakeAckType DEF RecvReqAck, TypeOK
    <2>2. /\ cpc' \in [Client -> {"reading"} \cup Waiting \cup NotRunning]
          /\ ret' \in [Client -> Status \cup {-1}]
      <3>1. CASE Return(c, Head(toClient[c]))
        BY <3>1, <2>1, ReturnType DEF TypeOK
      <3>2. CASE cpc' = [cpc EXCEPT ![c] = "reading"] /\ ret' = [ret EXCEPT ![c] = SUCCESS]
        BY <3>2 DEF TypeOK, SendTypeOK, Status
      <3> QED
        BY <1>2, <3>1, <3>2 DEF RecvReqAck
    <2> QED
      BY <1>2, <2>1, <2>2 DEF RecvReqAck, TypeOK, LinkTypeOK, SendTypeOK
  <1>3. CASE SendFileData(c)
    <2>1. PICK n \in 0 .. BytesLeft(c), ateof \in BOOLEAN :
             /\ Fread(c, n, ateof)
             /\ pos' = [pos EXCEPT ![c] = @ + n]
             /\ eof' = [eof EXCEPT ![c] = ateof]
             /\ LET buf == SubSeq(src[c], pos[c] + 1, pos[c] + n) IN
                \/ SendAndWait(c, [src |-> c, status |-> ING,
                                   sum |-> checksum(buf), context |-> buf],
                               "waitData")
                \/ SendFails(c)
      BY <1>3 DEF SendFileData
    <2> DEFINE buf == SubSeq(src[c], pos[c] + 1, pos[c] + n)
               frame == [src |-> c, status |-> ING, sum |-> checksum(buf), context |-> buf]
    <2>2. pos[c] + n \in Nat /\ frame \in Frame
      BY <2>1, FreadBlock DEF TypeOK
    <2>3. SendAndWait(c, frame, "waitData") \/ SendFails(c)
      BY <2>1
    <2> HIDE DEF frame
    <2>4. /\ toServer' \in Seq(Frame)
          /\ cpc' \in [Client -> {"reading"} \cup Waiting \cup NotRunning]
          /\ ret' \in [Client -> Status \cup {-1}]
      BY <2>2, <2>3, SendTypes DEF Waiting
    <2>5. pos' \in [Client -> Nat] /\ eof' \in [Client -> BOOLEAN]
      BY <2>1, <2>2 DEF TypeOK, SendTypeOK
    <2> QED
      BY <1>3, <2>4, <2>5 DEF SendFileData, TypeOK, LinkTypeOK, SendTypeOK
  <1>4. CASE RecvDataAck(c)
    <2>1. toClient' \in [Client -> Seq(Status)] /\ Head(toClient[c]) \in Status
      BY <1>4, TakeAckType DEF RecvDataAck, TypeOK
    <2>2. /\ cpc' \in [Client -> {"reading"} \cup Waiting \cup NotRunning]
          /\ ret' \in [Client -> Status \cup {-1}]
      <3>1. CASE Return(c, -1)
        BY <3>1, ReturnType DEF TypeOK
      <3>2. CASE cpc' = [cpc EXCEPT ![c] = "reading"] /\ ret' = ret
        BY <3>2 DEF TypeOK, SendTypeOK
      <3> QED
        BY <1>4, <3>1, <3>2 DEF RecvDataAck
    <2>3. count' \in [Client -> Nat]
      <3>1. CASE count' = [count EXCEPT ![c] = @ + 1]
        BY <3>1 DEF TypeOK, SendTypeOK
      <3>2. CASE UNCHANGED count
        BY <3>2 DEF TypeOK, SendTypeOK
      <3> QED
        BY <1>4, <3>1, <3>2 DEF RecvDataAck
    <2> QED
      BY <1>4, <2>1, <2>2, <2>3 DEF RecvDataAck, TypeOK, LinkTypeOK, SendTypeOK
  <1>5. CASE SendEnd(c)
    <2>1. [src |-> c, status |-> END] \in Frame
      BY DEF Frame, PlainFrame
    <2>2. /\ toServer' \in Seq(Frame)
          /\ cpc' \in [Client -> {"reading"} \cup Waiting \cup NotRunning]
          /\ ret' \in [Client -> Status \cup {-1}]
      BY <1>5, <2>1, SendTypes DEF SendEnd, Waiting
    <2> QED
      BY <1>5, <2>2 DEF SendEnd, TypeOK, LinkTypeOK, SendTypeOK
  <1>6. CASE RecvEndAck(c)
    <2>1. toClient' \in [Client -> Seq(Status)] /\ Head(toClient[c]) \in Status
      BY <1>6, TakeAckType DEF RecvEndAck, TypeOK
    <2>2. /\ cpc' \in [Client -> {"reading"} \cup Waiting \cup NotRunning]
          /\ ret' \in [Client -> Status \cup {-1}]
      BY <1>6, <2>1, ReturnType DEF RecvEndAck, TypeOK
    <2> QED
      BY <1>6, <2>1, <2>2 DEF RecvEndAck, TypeOK, LinkTypeOK, SendTypeOK
  <1>7. CASE AckRecvFails(c)
    BY <1>7 DEF AckRecvFails, Return, linkVars, TypeOK, LinkTypeOK, SendTypeOK, NotRunning
  <1> QED
    BY <1>1, <1>2, <1>3, <1>4, <1>5, <1>6, <1>7 DEF ClientStep

\* The number of frames createFile computes.
LEMMA AnnouncedType ==
    ASSUME NEW size \in Nat
    PROVE  (size \div TRANSMITSIZE) + 1 \in Nat
  BY LinkAssumption

LEMMA ServerStepType ==
    ASSUME TypeOK, ServerStep
    PROVE  LinkTypeOK' /\ RecvTypeOK'
  <1> USE DEF TypeOK
  <1>1. ASSUME NEW status, Reads(status)
        PROVE  /\ toServer # <<>>
               /\ Head(toServer) \in Frame
               /\ Head(toServer).status = status
    BY <1>1, TailType DEF Reads, LinkTypeOK
  <1>2. fp # 0 => fp \in DOMAIN streams /\ streams[fp].buf \in Seq(Byte)
    <2>1. fp # 0 => fp = Len(streams) /\ fp \in DOMAIN streams
      BY DEF RecvTypeOK
    <2>2. \A i \in DOMAIN streams : streams[i] \in Stream
      BY DEF RecvTypeOK
    <2> QED
      BY <2>1, <2>2 DEF Stream
  <1>b. <<>> \in Seq(Byte) /\ Len(<<>>) = 0
    OBVIOUS
  <1>3. CASE CreateFile
    <2> DEFINE frame == Head(toServer)
               stream == [path |-> frame.path, off |-> 0, buf |-> <<>>]
    <2>1. frame.fileSize \in Nat /\ frame.path \in Path
      BY <1>1, <1>3, FrameFields DEF CreateFile
    <2>2. LinkTypeOK'
      BY <1>1, <1>3, AnswerType DEF CreateFile, Accept, Status
    <2>3. stream \in Stream
      BY <2>1 DEF Stream
    <2>4. streams' \in Seq(Stream) /\ Len(streams') = Len(streams) + 1
      <3> HIDE DEF stream
      <3> QED
        BY <1>3, <2>3 DEF CreateFile, RecvTypeOK, stream
    <2>5. disk' \in [Path -> Seq(Byte)]
      BY <1>3, <2>1 DEF CreateFile, RecvTypeOK
    <2>6. fileCount' \in Nat
      <3>1. fileCount' = (frame.fileSize \div TRANSMITSIZE) + 1
        BY <1>3 DEF CreateFile
      <3> QED
        BY ONLY <2>1, <3>1, AnnouncedType
    <2>7. fp' \in {0, Len(streams')}
      BY <1>3, <2>4 DEF CreateFile
    <2>8. srv' = srv /\ recvCount' = recvCount /\ sruns' = sruns
      BY <1>3 DEF CreateFile, Accept
    <2> HIDE DEF TypeOK
    <2>9. RecvTypeOK
      BY DEF TypeOK
    <2> QED
      BY ONLY <2>2, <2>4, <2>5, <2>6, <2>7, <2>8, <2>9 DEF RecvTypeOK
  <1>4. CASE CreateFileFails
    <2>1. Head(toServer).fileSize \in Nat
      BY <1>1, <1>4, FrameFields DEF CreateFileFails
    <2>2. LinkTypeOK'
      BY <1>1, <1>4, AnswerType DEF CreateFileFails, Refuse, Status
    <2>3. fileCount' \in Nat
      <3>1. fileCount' = (Head(toServer).fileSize \div TRANSMITSIZE) + 1
        BY <1>4 DEF CreateFileFails
      <3> QED
        BY ONLY <2>1, <3>1, AnnouncedType
    <2> QED
      BY <1>4, <2>2, <2>3 DEF CreateFileFails, Refuse, RecvTypeOK
  <1>5. CASE RecvFileData
    <2>1. LinkTypeOK' /\ Head(toServer).context \in Seq(Byte)
      BY <1>1, <1>5, AnswerType, FrameFields DEF RecvFileData, Accept, Status
    <2>2. /\ disk' \in [Path -> Seq(Byte)]
          /\ streams' \in Seq(Stream)
          /\ Len(streams') = Len(streams)
      <3>1. CASE UNCHANGED <<disk, streams>>
        BY <3>1 DEF RecvTypeOK
      <3>2. CASE /\ fp # 0
                 /\ \E n \in 0 .. Len(streams[fp].buf) + Len(Head(toServer).context) :
                        PutAndDrain(fp, Head(toServer).context, n)
        BY <1>2, <2>1, <3>2, PutAndDrainType
      <3> QED
        BY <1>5, <3>1, <3>2 DEF RecvFileData
    <2> QED
      BY <1>5, <2>1, <2>2 DEF RecvFileData, Accept, RecvTypeOK
  <1>6. CASE ChecksumFails
    <2>1. LinkTypeOK'
      BY <1>1, <1>6, AnswerType DEF ChecksumFails, Refuse, Status
    <2> QED
      BY <1>6, <2>1 DEF ChecksumFails, Refuse, RecvTypeOK
  <1>7. CASE FwriteFails
    <2> DEFINE context == Head(toServer).context
    <2>1. LinkTypeOK' /\ context \in Seq(Byte)
      BY <1>1, <1>7, AnswerType, FrameFields DEF FwriteFails, Refuse, Status
    <2>2. PICK taken \in 0 .. Len(context) - 1 :
          \E n \in 0 .. Len(streams[fp].buf) + taken :
              PutAndDrain(fp, SubSeq(context, 1, taken), n)
      BY <1>7 DEF FwriteFails
    <2>3. SubSeq(context, 1, taken) \in Seq(Byte) /\ Len(SubSeq(context, 1, taken)) = taken
      BY <2>1, SubSeqType
    <2>4. /\ disk' \in [Path -> Seq(Byte)]
          /\ streams' \in Seq(Stream)
          /\ Len(streams') = Len(streams)
      BY <1>2, <1>7, <2>2, <2>3, PutAndDrainType DEF FwriteFails
    <2> QED
      BY <1>7, <2>1, <2>4 DEF FwriteFails, Refuse, RecvTypeOK
  <1>8. CASE FwriteToNull
    <2>1. Tail(toServer) \in Seq(Frame)
      BY <1>1, <1>8, TailType DEF FwriteToNull, LinkTypeOK
    <2> QED
      BY <1>8, <2>1 DEF FwriteToNull, LinkTypeOK, RecvTypeOK
  <1>9. CASE RecvEnd
    <2>1. LinkTypeOK'
      BY <1>1, <1>9, AnswerType DEF RecvEnd, Status
    <2>2. /\ disk' \in [Path -> Seq(Byte)]
          /\ streams' \in Seq(Stream)
          /\ Len(streams') = Len(streams)
      <3>1. CASE UNCHANGED <<disk, streams>>
        BY <3>1 DEF RecvTypeOK
      <3>2. CASE fp # 0 /\ PutAndDrain(fp, <<>>, Len(streams[fp].buf))
        <4>1. Len(streams[fp].buf) \in 0 .. Len(streams[fp].buf) + Len(<<>>)
          BY <1>2, <3>2
        <4> QED
          BY <1>2, <1>b, <3>2, <4>1, PutAndDrainType
      <3> QED
        BY <1>9, <3>1, <3>2 DEF RecvEnd
    <2> QED
      BY <1>9, <2>1, <2>2 DEF RecvEnd, RecvTypeOK
  <1>10. CASE FflushFails
    <2>1. LinkTypeOK'
      BY <1>1, <1>10, AnswerType DEF FflushFails, Refuse, Status
    <2>2. PICK n \in 0 .. Len(streams[fp].buf) - 1 : PutAndDrain(fp, <<>>, n)
      BY <1>10 DEF FflushFails
    <2>a. fp # 0 /\ n \in 0 .. Len(streams[fp].buf) + Len(<<>>)
      BY <1>2, <1>10 DEF FflushFails
    <2>3. /\ disk' \in [Path -> Seq(Byte)]
          /\ streams' \in Seq(Stream)
          /\ Len(streams') = Len(streams)
      BY <1>2, <1>b, <2>2, <2>a, PutAndDrainType
    <2> QED
      BY <1>10, <2>1, <2>3 DEF FflushFails, Refuse, RecvTypeOK
  <1>11. CASE RecvInvalid
    <2>1. LinkTypeOK'
      BY <1>1, <1>11, AnswerType DEF RecvInvalid, Accept, Status
    <2> QED
      BY <1>11, <2>1 DEF RecvInvalid, Accept, RecvTypeOK
  <1>12. CASE RecvFails
    BY <1>12 DEF RecvFails, linkVars, LinkTypeOK, RecvTypeOK
  <1>13. CASE CloseStream
    <2> DEFINE last == Len(streams)
               st == streams[last]
    <2>a. last \in DOMAIN streams
      BY <1>13 DEF CloseStream, RecvTypeOK
    <2>1. st.path \in Path /\ st.off \in Nat /\ st.buf \in Seq(Byte)
      <3>1. st \in Stream
        BY <2>a DEF RecvTypeOK
      <3> QED
        BY <3>1 DEF Stream
    <2>2. PICK n \in IF "write" \in Faults THEN 0 .. Len(st.buf) ELSE {Len(st.buf)} :
             disk' = [disk EXCEPT ![st.path] = WriteAt(@, st.off, SubSeq(st.buf, 1, n))]
      BY <1>13 DEF CloseStream
    <2>b. n \in 0 .. Len(st.buf)
      BY <2>1
    <2>3. SubSeq(st.buf, 1, n) \in Seq(Byte)
      BY <2>1, <2>b, SubSeqType
    <2>4. WriteAt(disk[st.path], st.off, SubSeq(st.buf, 1, n)) \in Seq(Byte)
      BY <2>1, <2>3, WriteAtType DEF RecvTypeOK
    <2>5. disk' \in [Path -> Seq(Byte)]
      BY <2>1, <2>2, <2>4 DEF RecvTypeOK
    <2>6. streams' \in Seq(Stream)
      BY <1>13, SubSeqType DEF CloseStream, RecvTypeOK, Front
    <2> QED
      BY <1>13, <2>5, <2>6 DEF CloseStream, linkVars, LinkTypeOK, RecvTypeOK
  <1>14. CASE Exit
    BY <1>14 DEF Exit, linkVars, LinkTypeOK, RecvTypeOK
  <1> QED
    BY <1>3, <1>4, <1>5, <1>6, <1>7, <1>8, <1>9, <1>10, <1>11, <1>12, <1>13, <1>14
       DEF ServerStep

LEMMA LinkStepType ==
    ASSUME LinkTypeOK, LinkNext
    PROVE  LinkTypeOK'
  <1> USE DEF LinkTypeOK
  <1>1. CASE LoseFrame
    BY <1>1, RemoveAtType DEF LoseFrame
  <1>2. CASE LoseAck
    <2>a. PICK c \in Client : \E i \in DOMAIN toClient[c] :
              toClient' = [toClient EXCEPT ![c] = RemoveAt(@, i)]
      BY <1>2 DEF LoseAck
    <2>1. PICK i \in DOMAIN toClient[c] : toClient' = [toClient EXCEPT ![c] = RemoveAt(@, i)]
      BY <2>a
    <2>2. RemoveAt(toClient[c], i) \in Seq(Status)
      BY RemoveAtType
    <2> QED
      BY <1>2, <2>1, <2>2 DEF LoseAck
  <1>3. CASE Corrupt
    <2>1. PICK i \in DOMAIN toServer :
             /\ toServer[i].status = ING
             /\ \E damaged \in [1 .. Len(toServer[i].context) -> Byte] :
                    /\ checksum(damaged) # toServer[i].sum
                    /\ toServer' = [toServer EXCEPT ![i] =
                                        [toServer[i] EXCEPT !.context = damaged]]
      BY <1>3 DEF Corrupt
    <2> DEFINE frame == toServer[i]
    <2>2. PICK damaged \in [1 .. Len(frame.context) -> Byte] :
             toServer' = [toServer EXCEPT ![i] = [frame EXCEPT !.context = damaged]]
      BY <2>1
    <2> DEFINE new == [frame EXCEPT !.context = damaged]
    <2>3. frame \in DataFrame
      BY <2>1, FrameFields
    <2>4. damaged \in Block
      <3>1. frame.context \in Seq(Byte) /\ Len(frame.context) <= TRANSMITSIZE
        BY <2>3, BlockIsBoundedSeq DEF DataFrame
      <3>2. damaged \in Seq(Byte) /\ Len(damaged) = Len(frame.context)
        <4>1. Len(frame.context) \in Nat
          BY ONLY <3>1
        <4> QED
          BY ONLY <4>1, damaged \in [1 .. Len(frame.context) -> Byte]
      <3> QED
        BY <3>1, <3>2, BlockIsBoundedSeq
    <2>5. new \in Frame
      BY <2>3, <2>4 DEF DataFrame, Frame
    <2>6. toServer' = [toServer EXCEPT ![i] = new]
      BY <2>2
    <2>7. toServer' \in Seq(Frame)
      <3> HIDE DEF new, frame
      <3> QED
        BY <2>5, <2>6
    <2> QED
      BY <1>3, <2>7 DEF Corrupt
  <1>4. CASE Stray
    <2>1. PICK c \in Client :
             \/ /\ toServer' = Append(toServer, [src |-> c, status |-> UNKNOWN])
                /\ UNCHANGED toClient
             \/ /\ toClient' = [toClient EXCEPT ![c] = Append(@, UNKNOWN)]
                /\ UNCHANGED toServer
      BY <1>4 DEF Stray
    <2>2. CASE /\ toServer' = Append(toServer, [src |-> c, status |-> UNKNOWN])
               /\ UNCHANGED toClient
      <3>1. [src |-> c, status |-> UNKNOWN] \in Frame
        BY DEF Frame, PlainFrame
      <3> QED
        BY <2>2, <3>1
    <2>3. CASE /\ toClient' = [toClient EXCEPT ![c] = Append(@, UNKNOWN)]
               /\ UNCHANGED toServer
      <3>1. Append(toClient[c], UNKNOWN) \in Seq(Status)
        BY DEF Status
      <3> QED
        BY <2>3, <3>1
    <2> QED
      BY <2>1, <2>2, <2>3
  <1> QED
    BY <1>1, <1>2, <1>3, <1>4 DEF LinkNext

LEMMA UserStepType ==
    ASSUME TypeOK
    PROVE  /\ \A c \in Client : ClientKilled(c) => LinkTypeOK' /\ SendTypeOK'
           /\ \A c \in Client : FileGrows(c) => LinkTypeOK' /\ SendTypeOK'
           /\ ServerRestart => LinkTypeOK' /\ RecvTypeOK'
           /\ ServerKilled => LinkTypeOK' /\ RecvTypeOK'
  <1> USE DEF TypeOK
  <1>1. ASSUME NEW c \in Client, ClientKilled(c)
        PROVE  LinkTypeOK' /\ SendTypeOK'
    BY <1>1 DEF ClientKilled, linkVars, LinkTypeOK, SendTypeOK, NotRunning
  <1>2. ASSUME NEW c \in Client, FileGrows(c)
        PROVE  LinkTypeOK' /\ SendTypeOK'
    <2>1. PICK b \in Byte : src' = [src EXCEPT ![c] = Append(@, b)]
      BY <1>2 DEF FileGrows
    <2>2. Append(src[c], b) \in Seq(Byte)
      BY DEF SendTypeOK
    <2> QED
      BY <1>2, <2>1, <2>2 DEF FileGrows, linkVars, LinkTypeOK, SendTypeOK
  <1>3. ASSUME ServerRestart
        PROVE  LinkTypeOK' /\ RecvTypeOK'
    <2>1. PICK rest \in Remainders(toServer) : toServer' = rest
      BY <1>3 DEF ServerRestart
    <2>2. toServer' \in Seq(Frame)
      BY <2>1, RemainderType DEF LinkTypeOK
    <2> QED
      BY <1>3, <2>2 DEF ServerRestart, LinkTypeOK, RecvTypeOK
  <1>4. ASSUME ServerKilled
        PROVE  LinkTypeOK' /\ RecvTypeOK'
    BY <1>4 DEF ServerKilled, linkVars, LinkTypeOK, RecvTypeOK
  <1> QED
    BY <1>1, <1>2, <1>3, <1>4

\* Whatever is lost, damaged, killed or restarted, the queues hold frames and
\* status words the programs know, fp is NULL or the newest open stream, and
\* the files hold bytes.
THEOREM TypeCorrect == Spec => []TypeOK
  <1>1. TypeOK /\ [Next]_vars => TypeOK'
    <2> SUFFICES ASSUME TypeOK, [Next]_vars
                 PROVE  TypeOK'
      OBVIOUS
    <2>1. ASSUME NEW c \in Client, SendReq(c) \/ ClientStep(c), UNCHANGED recvVars
          PROVE  TypeOK'
      BY <2>1, ClientStepType DEF TypeOK, recvVars, RecvTypeOK
    <2>2. ASSUME NEW c \in Client, ClientKilled(c) \/ FileGrows(c), UNCHANGED recvVars
          PROVE  TypeOK'
      BY <2>2, UserStepType DEF TypeOK, recvVars, RecvTypeOK
    <2>3. CASE ServerNext
      BY <2>3, ServerStepType DEF ServerNext, TypeOK, sendVars, SendTypeOK
    <2>4. CASE (ServerRestart \/ ServerKilled) /\ UNCHANGED sendVars
      BY <2>4, UserStepType DEF TypeOK, sendVars, SendTypeOK
    <2>5. CASE LinkFault
      BY <2>5, LinkStepType DEF LinkFault, TypeOK, sendVars, SendTypeOK, recvVars, RecvTypeOK
    <2>6. CASE UNCHANGED vars
      BY <2>6 DEF vars, linkVars, sendVars, recvVars, TypeOK, LinkTypeOK, SendTypeOK, RecvTypeOK
    <2> QED
      BY <2>1, <2>2, <2>3, <2>4, <2>5, <2>6 DEF Next, ClientNext, UserNext
  <1> QED
    BY <1>1, InitType, PTL DEF Spec

-----------------------------------------------------------------------------
(* Stop and wait.  StopAndWait is inductive together with the types and    *)
(* with one more fact: a program that was never started is idle.           *)

\* At most one frame or answer of client c is under way.
OneUnderWay(c) ==
    /\ \A i, j \in Outstanding(c) : i = j
    /\ Len(toClient[c]) <= 1
    /\ Outstanding(c) # {} => toClient[c] = <<>>

\* None is.
Quiet(c) == Outstanding(c) = {} /\ toClient[c] = <<>>

IStopAndWait ==
    \A c \in Client :
        /\ OneUnderWay(c)
        /\ runs[c] = 0 \/ cpc[c] = "reading" => Quiet(c)
        /\ runs[c] = 0 => cpc[c] = "idle"

\* Frames and answers that disappear, and frames that move up in the queue,
\* keep a client's traffic as it should be.
LEMMA FewerUnderWay ==
    ASSUME LinkTypeOK, LinkTypeOK', NEW c \in Client, OneUnderWay(c),
           NEW f,
           \A i \in DOMAIN toServer' : /\ f[i] \in DOMAIN toServer
                                       /\ toServer'[i].src = toServer[f[i]].src,
           \A i, j \in DOMAIN toServer' : f[i] = f[j] => i = j,
           Len(toClient'[c]) <= Len(toClient[c])
    PROVE  OneUnderWay(c)' /\ (Quiet(c) => Quiet(c)')
  <1>1. \A i \in Outstanding(c)' : f[i] \in Outstanding(c)
    BY DEF Outstanding
  <1>2. \A i, j \in Outstanding(c)' : i = j
    BY <1>1 DEF Outstanding, OneUnderWay
  <1>3. toClient[c] \in Seq(Status) /\ toClient'[c] \in Seq(Status)
    BY DEF LinkTypeOK
  <1>4. toClient[c] = <<>> => toClient'[c] = <<>>
    BY <1>3
  <1>5. Outstanding(c)' # {} => Outstanding(c) # {}
    BY <1>1
  <1>6. Len(toClient'[c]) <= 1
    BY <1>3 DEF OneUnderWay
  <1> QED
    BY <1>2, <1>4, <1>5, <1>6 DEF OneUnderWay, Quiet

\* The special case that the queue of the receiver stays as it is.
LEMMA FewerAnswers ==
    ASSUME LinkTypeOK, LinkTypeOK', NEW c \in Client, OneUnderWay(c),
           toServer' = toServer, Len(toClient'[c]) <= Len(toClient[c])
    PROVE  OneUnderWay(c)' /\ (Quiet(c) => Quiet(c)')
  <1> DEFINE f == [i \in DOMAIN toServer |-> i]
  <1>1. /\ \A i \in DOMAIN toServer' : /\ f[i] \in DOMAIN toServer
                                       /\ toServer'[i].src = toServer[f[i]].src
        /\ \A i, j \in DOMAIN toServer' : f[i] = f[j] => i = j
    OBVIOUS
  <1> HIDE DEF f
  <1> QED
    BY <1>1, FewerUnderWay

\* A frame from d joins the queue: nothing changes for c, and if d was quiet
\* it has one frame under way.
LEMMA OneMoreFrame ==
    ASSUME LinkTypeOK, LinkTypeOK', NEW d \in Client, NEW frame \in Frame, frame.src = d,
           toServer' = Append(toServer, frame),
           \A c \in Client : Len(toClient'[c]) <= Len(toClient[c])
    PROVE  /\ Quiet(d) => OneUnderWay(d)'
           /\ \A c \in Client \ {d} : OneUnderWay(c) => OneUnderWay(c)' /\ (Quiet(c) => Quiet(c)')
  <1>0. /\ toServer \in Seq(Frame)
        /\ \A c \in Client : toClient[c] \in Seq(Status) /\ toClient'[c] \in Seq(Status)
    BY DEF LinkTypeOK
  <1>1. /\ Len(toServer') = Len(toServer) + 1
        /\ DOMAIN toServer' = DOMAIN toServer \cup {Len(toServer) + 1}
        /\ \A i \in DOMAIN toServer : toServer'[i] = toServer[i]
        /\ toServer'[Len(toServer) + 1] = frame
    BY <1>0
  <1>2. Outstanding(d)' = Outstanding(d) \cup {Len(toServer) + 1}
    BY <1>1 DEF Outstanding
  <1>3. ASSUME Quiet(d) PROVE OneUnderWay(d)'
    <2>1. toClient'[d] = <<>>
      BY <1>0, <1>3 DEF Quiet
    <2>2. Outstanding(d)' = {Len(toServer) + 1}
      BY <1>2, <1>3 DEF Quiet
    <2>3. \A i, j \in Outstanding(d)' : i = j
      BY <2>2
    <2>4. Len(toClient'[d]) <= 1
      BY <2>1
    <2> QED
      BY <2>1, <2>3, <2>4 DEF OneUnderWay
  <1>4. ASSUME NEW c \in Client \ {d}, OneUnderWay(c)
        PROVE  OneUnderWay(c)' /\ (Quiet(c) => Quiet(c)')
    <2>1. Outstanding(c)' = Outstanding(c)
      BY <1>1 DEF Outstanding
    <2>2. /\ toClient[c] = <<>> => toClient'[c] = <<>>
          /\ Len(toClient'[c]) <= 1
      BY <1>0, <1>4 DEF OneUnderWay
    <2> QED
      BY <1>4, <2>1, <2>2 DEF OneUnderWay, Quiet
  <1> QED
    BY <1>3, <1>4

\* The receiver takes the oldest frame out of the queue and answers it.
LEMMA OneAnswer ==
    ASSUME LinkTypeOK, LinkTypeOK', toServer # <<>>, NEW status \in Status,
           Answer(Head(toServer), status),
           \A c \in Client : OneUnderWay(c)
    PROVE  \A c \in Client : OneUnderWay(c)' /\ (Quiet(c) => Quiet(c)')
  <1> DEFINE f == [i \in DOMAIN toServer' |-> i + 1]
  <1>1. /\ toServer \in Seq(Frame)
        /\ Head(toServer) = toServer[1]
        /\ Head(toServer) \in Frame
        /\ 1 \in DOMAIN toServer
        /\ Len(toServer') = Len(toServer) - 1
        /\ \A k \in DOMAIN toServer' : k + 1 \in DOMAIN toServer /\ toServer'[k] = toServer[k + 1]
    BY TailType DEF LinkTypeOK, Answer
  <1>a. PICK d \in Client : d = Head(toServer).src
    BY <1>1, FrameFields
  <1>2. 1 \in Outstanding(d)
    BY <1>1, <1>a DEF Outstanding
  <1>3. toClient[d] = <<>> /\ \A i \in Outstanding(d) : i = 1
    BY <1>2 DEF OneUnderWay
  <1>4. Outstanding(d)' = {}
    <2> SUFFICES ASSUME NEW i \in Outstanding(d)' PROVE FALSE
      OBVIOUS
    <2>1. i \in DOMAIN toServer' /\ toServer'[i].src = d
      BY DEF Outstanding
    <2>2. i + 1 \in Outstanding(d)
      BY <1>1, <2>1 DEF Outstanding
    <2>3. i \in Nat /\ i >= 1
      BY <2>1 DEF LinkTypeOK
    <2> QED
      BY <1>3, <2>2, <2>3
  <1>5. toClient' = [toClient EXCEPT ![d] = Append(@, status)]
    BY <1>a DEF Answer
  <1>6. Len(toClient'[d]) = 1
    BY <1>2, <1>3, <1>5 DEF LinkTypeOK
  <1>7. OneUnderWay(d)' /\ ~Quiet(d)
    BY <1>2, <1>4, <1>6 DEF OneUnderWay, Quiet
  <1>8. ASSUME NEW c \in Client, c # d
        PROVE  OneUnderWay(c)' /\ (Quiet(c) => Quiet(c)')
    <2>1. toClient'[c] = toClient[c] /\ Len(toClient[c]) \in Nat
      BY <1>5, <1>8 DEF LinkTypeOK
    <2>2. \A i \in DOMAIN toServer' : /\ f[i] \in DOMAIN toServer
                                      /\ toServer'[i].src = toServer[f[i]].src
      BY <1>1
    <2>3. \A i, j \in DOMAIN toServer' : f[i] = f[j] => i = j
      BY DEF LinkTypeOK
    <2> HIDE DEF f
    <2> QED
      BY <2>1, <2>2, <2>3, FewerUnderWay
  <1> QED
    BY <1>7, <1>8

LEMMA StopAndWaitInit == Init => IStopAndWait
  BY DEF Init, LinkInit, SendInit, IStopAndWait, OneUnderWay, Quiet, Outstanding

\* SendReq, SendFileData and SendEnd: from quiet to one frame under way, or a
\* failure and still quiet.
LEMMA SendStepStopAndWait ==
    ASSUME TypeOK, TypeOK', IStopAndWait, MaxRuns <= 1,
           NEW d \in Client, SendReq(d) \/ SendFileData(d) \/ SendEnd(d)
    PROVE  IStopAndWait'
  <1>1. /\ Quiet(d)
        /\ cpc' \in [Client -> {"reading"} \cup Waiting \cup NotRunning]
        /\ cpc'[d] # "reading" /\ cpc'[d] # "idle"
        /\ runs'[d] # 0
        /\ \A c \in Client \ {d} : cpc'[c] = cpc[c] /\ runs'[c] = runs[c]
    <2>1. runs[d] \in Nat
      BY DEF TypeOK, SendTypeOK
    <2>2. CASE SendReq(d)
      BY <2>1, <2>2, SendAssumption
         DEF SendReq, SendAndWait, SendFails, Return, IStopAndWait, TypeOK, SendTypeOK
    <2>3. CASE SendFileData(d)
      <3>1. cpc[d] = "reading" /\ runs' = runs
        BY <2>3 DEF SendFileData
      <3>2. cpc' = [cpc EXCEPT ![d] = "waitData"] \/ cpc' = [cpc EXCEPT ![d] = "done"]
        BY <2>3 DEF SendFileData, SendAndWait, SendFails, Return
      <3> QED
        BY <3>1, <3>2 DEF IStopAndWait, TypeOK, SendTypeOK
    <2>4. CASE SendEnd(d)
      BY <2>4 DEF SendEnd, SendAndWait, SendFails, Return, IStopAndWait, TypeOK, SendTypeOK
    <2> QED
      BY <2>2, <2>3, <2>4
  <1>2. \A c \in Client : Len(toClient'[c]) <= Len(toClient[c])
    <2>1. \A c \in Client : Len(toClient[c]) \in Nat
      BY DEF TypeOK, LinkTypeOK
    <2>2. CASE SendReq(d)
      <3>1. PICK rest \in Remainders(toClient[d]) : toClient' = [toClient EXCEPT ![d] = rest]
        BY <2>2 DEF SendReq
      <3>2. Len(rest) <= Len(toClient[d])
        BY RemainderType DEF TypeOK, LinkTypeOK
      <3> QED
        BY <2>1, <3>1, <3>2 DEF TypeOK, LinkTypeOK
    <2>3. CASE toClient' = toClient
      BY <2>1, <2>3
    <2> QED
      BY <2>2, <2>3 DEF SendFileData, SendEnd
  <1>3. \/ toServer' = toServer
        \/ \E frame : frame.src = d /\ toServer' = Append(toServer, frame)
    <2>1. CASE SendReq(d)
      BY <2>1 DEF SendReq, SendAndWait, SendFails
    <2>2. CASE SendFileData(d)
      BY <2>2 DEF SendFileData, SendAndWait, SendFails
    <2>3. CASE SendEnd(d)
      BY <2>3 DEF SendEnd, SendAndWait, SendFails
    <2> QED
      BY <2>1, <2>2, <2>3
  <1>4. ASSUME NEW c \in Client
        PROVE  OneUnderWay(c)' /\ (c # d => (Quiet(c) => Quiet(c)'))
    <2>1. CASE toServer' = toServer
      BY <1>2, <2>1, FewerAnswers DEF TypeOK, IStopAndWait
    <2>2. CASE \E frame : frame.src = d /\ toServer' = Append(toServer, frame)
      <3>1. PICK frame : frame.src = d /\ toServer' = Append(toServer, frame)
        BY <2>2
      <3>2. frame \in Frame
        <4>1. toServer \in Seq(Frame) /\ toServer' \in Seq(Frame)
          BY DEF TypeOK, LinkTypeOK
        <4>2. toServer'[Len(toServer) + 1] = frame /\ Len(toServer) + 1 \in DOMAIN toServer'
          BY <3>1, <4>1
        <4> QED
          BY <4>1, <4>2
      <3> QED
        BY <1>1, <1>2, <3>1, <3>2, OneMoreFrame DEF TypeOK, IStopAndWait
    <2> QED
      BY <1>3, <2>1, <2>2
  <1> QED
    BY <1>1, <1>4 DEF IStopAndWait

\* RecvReqAck, RecvDataAck, RecvEndAck: the answer that is taken was the only
\* thing under way.  A recvAck that fails leaves the traffic alone.
LEMMA RecvStepStopAndWait ==
    ASSUME TypeOK, TypeOK', IStopAndWait, NEW d \in Client,
           RecvReqAck(d) \/ RecvDataAck(d) \/ RecvEndAck(d) \/ AckRecvFails(d)
    PROVE  IStopAndWait'
  <1>1. /\ runs' = runs
        /\ toServer' = toServer
        /\ cpc[d] \in Waiting
        /\ \A c \in Client \ {d} : cpc'[c] = cpc[c]
    <2>1. \A e : [cpc EXCEPT ![d] = e] = cpc'
                     => \A c \in Client \ {d} : cpc'[c] = cpc[c]
      BY DEF TypeOK, SendTypeOK
    <2>2. CASE RecvReqAck(d)
      BY <2>1, <2>2 DEF RecvReqAck, Return, Waiting, TakeAck
    <2>3. CASE RecvDataAck(d)
      BY <2>1, <2>3 DEF RecvDataAck, Return, Waiting, TakeAck
    <2>4. CASE RecvEndAck(d)
      BY <2>1, <2>4 DEF RecvEndAck, Return, Waiting, TakeAck
    <2>5. CASE AckRecvFails(d)
      BY <2>1, <2>5 DEF AckRecvFails, linkVars, Return, Waiting
    <2> QED
      BY <2>2, <2>3, <2>4, <2>5
  <1>2. \A c \in Client : toClient[c] \in Seq(Status) /\ toClient'[c] \in Seq(Status)
    BY DEF TypeOK, LinkTypeOK
  <1>3. runs[d] # 0
    BY <1>1 DEF IStopAndWait, Waiting
  <1>4. CASE AckRecvFails(d)
    <2>1. toClient' = toClient /\ cpc'[d] = "done"
      BY <1>4 DEF AckRecvFails, linkVars, Return, TypeOK, SendTypeOK
    <2>2. \A c \in Client : Len(toClient'[c]) <= Len(toClient[c])
      BY <1>2, <2>1
    <2>3. \A c \in Client : OneUnderWay(c)' /\ (Quiet(c) => Quiet(c)')
      BY <1>1, <2>2, FewerAnswers DEF TypeOK, IStopAndWait
    <2> QED
      BY <1>1, <1>3, <2>1, <2>3 DEF IStopAndWait
  <1>5. CASE RecvReqAck(d) \/ RecvDataAck(d) \/ RecvEndAck(d)
    <2>1. toClient[d] # <<>> /\ TakeAck(d)
      BY <1>5 DEF RecvReqAck, RecvDataAck, RecvEndAck
    <2>2. toClient' = [toClient EXCEPT ![d] = Tail(@)]
      BY <2>1 DEF TakeAck
    <2>3. \A c \in Client : Len(toClient'[c]) <= Len(toClient[c])
      BY <1>2, <2>1, <2>2, TailType DEF TypeOK, LinkTypeOK
    <2>4. \A c \in Client : OneUnderWay(c)' /\ (Quiet(c) => Quiet(c)')
      BY <1>1, <2>3, FewerAnswers DEF TypeOK, IStopAndWait
    <2>5. Quiet(d)'
      <3>1. Outstanding(d) = {} /\ Len(toClient[d]) = 1
        <4>1. OneUnderWay(d)
          BY DEF IStopAndWait
        <4>2. Outstanding(d) = {}
          BY <2>1, <4>1 DEF OneUnderWay
        <4>3. Len(toClient[d]) <= 1
          BY <4>1 DEF OneUnderWay
        <4>4. toClient[d] \in Seq(Status)
          BY <1>2
        <4>5. Len(toClient[d]) \in Nat /\ Len(toClient[d]) # 0
          BY <2>1, <4>4
        <4>6. Len(toClient[d]) = 1
          <5>1. \A n \in Nat : n # 0 /\ n <= 1 => n = 1
            OBVIOUS
          <5> QED
            BY <4>3, <4>5, <5>1, Zenon
        <4> QED
          BY <4>2, <4>6
      <3>2. Outstanding(d)' = {}
        BY <1>1, <3>1 DEF Outstanding
      <3>3. toClient'[d] = <<>>
        <4>1. toClient \in [Client -> Seq(Status)]
          BY DEF TypeOK, LinkTypeOK
        <4>2. toClient'[d] = Tail(toClient[d])
          BY ONLY <2>2, <4>1, d \in Client
        <4>3. toClient[d] \in Seq(Status) /\ Len(toClient[d]) = 1
          BY <1>2, <3>1
        <4>4. /\ Tail(toClient[d]) \in Seq(Status)
              /\ Len(Tail(toClient[d])) = 0
          BY ONLY <4>3
        <4>5. Len(Tail(toClient[d])) \notin Nat \ {0}
          BY ONLY <4>4
        <4> QED
          BY ONLY <4>2, <4>4, <4>5, EmptySeq, Zenon
      <3> QED
        BY <3>2, <3>3 DEF Quiet
    <2> QED
      BY <1>1, <1>3, <2>4, <2>5 DEF IStopAndWait
  <1> QED
    BY <1>4, <1>5

LEMMA ServerStepStopAndWait ==
    ASSUME TypeOK, TypeOK', IStopAndWait, ServerStep, UNCHANGED sendVars
    PROVE  IStopAndWait'
  <1>1. LinkTypeOK /\ LinkTypeOK' /\ \A c \in Client : OneUnderWay(c)
    BY DEF TypeOK, IStopAndWait
  <1>2. \A c \in Client : OneUnderWay(c)' /\ (Quiet(c) => Quiet(c)')
    <2>1. CASE UNCHANGED linkVars
      BY <1>1, <2>1 DEF linkVars, OneUnderWay, Quiet, Outstanding
    <2>2. CASE /\ toServer # <<>>
               /\ \E status \in Status : Answer(Head(toServer), status)
      BY <1>1, <2>2, OneAnswer
    <2>3. CASE FwriteToNull
      <3> DEFINE f == [i \in DOMAIN toServer' |-> i + 1]
      <3>1. toServer # <<>> /\ toServer' = Tail(toServer) /\ toClient' = toClient
        BY <2>3 DEF FwriteToNull, Reads
      <3>2. toServer \in Seq(Frame) /\ toServer' \in Seq(Frame)
        BY <1>1 DEF LinkTypeOK
      <3>3. \A i \in DOMAIN toServer' : /\ f[i] \in DOMAIN toServer
                                        /\ toServer'[i].src = toServer[f[i]].src
        BY <3>1, <3>2, TailType
      <3>4. \A i, j \in DOMAIN toServer' : f[i] = f[j] => i = j
        BY <3>2
      <3>5. \A c \in Client : Len(toClient'[c]) <= Len(toClient[c])
        BY <1>1, <3>1 DEF LinkTypeOK
      <3> HIDE DEF f
      <3> QED
        BY <1>1, <3>3, <3>4, <3>5, FewerUnderWay
    <2>4. /\ CreateFile \/ CreateFileFails \/ RecvFileData \/ ChecksumFails \/ FwriteFails
                \/ RecvEnd \/ FflushFails \/ RecvInvalid
             => /\ toServer # <<>>
                /\ \E status \in Status : Answer(Head(toServer), status)
          /\ RecvFails \/ CloseStream \/ Exit => UNCHANGED linkVars
      BY DEF CreateFile, CreateFileFails, RecvFileData, ChecksumFails, FwriteFails, RecvEnd,
             FflushFails, RecvInvalid, RecvFails, CloseStream, Exit, Reads, Accept, Refuse, Status
    <2> QED
      BY <2>1, <2>2, <2>3, <2>4 DEF ServerStep
  <1> QED
    BY <1>2 DEF IStopAndWait, sendVars

LEMMA LinkStepStopAndWait ==
    ASSUME TypeOK, TypeOK', IStopAndWait, "stray" \notin Faults, LinkFault
    PROVE  IStopAndWait'
  <1>1. LinkTypeOK /\ LinkTypeOK' /\ \A c \in Client : OneUnderWay(c)
    BY DEF TypeOK, IStopAndWait
  <1>2. /\ toServer \in Seq(Frame) /\ toServer' \in Seq(Frame)
        /\ \A c \in Client : toClient[c] \in Seq(Status) /\ toClient'[c] \in Seq(Status)
    BY <1>1 DEF LinkTypeOK
  <1>3. \A c \in Client : OneUnderWay(c)' /\ (Quiet(c) => Quiet(c)')
    <2>1. CASE LoseFrame
      <3>1. PICK n \in DOMAIN toServer : toServer' = RemoveAt(toServer, n)
        BY <2>1 DEF LoseFrame
      <3>b. toServer \in Seq(Frame)
        BY <1>2
      <3>c. /\ Len(RemoveAt(toServer, n)) = Len(toServer) - 1
            /\ \A k \in 1 .. Len(toServer) - 1 :
                   RemoveAt(toServer, n)[k] = IF k < n THEN toServer[k] ELSE toServer[k + 1]
        BY ONLY <3>b, RemoveAtType, Zenon
      <3>d. n \in 1 .. Len(toServer)
        BY ONLY <3>b
      <3>a. /\ n \in 1 .. Len(toServer)
            /\ Len(toServer') = Len(toServer) - 1
            /\ \A k \in 1 .. Len(toServer) - 1 :
                   toServer'[k] = IF k < n THEN toServer[k] ELSE toServer[k + 1]
        BY ONLY <3>1, <3>c, <3>d, Zenon
      <3> DEFINE f == [i \in DOMAIN toServer' |-> IF i < n THEN i ELSE i + 1]
      <3>2. \A i \in DOMAIN toServer' : /\ f[i] \in DOMAIN toServer
                                        /\ toServer'[i].src = toServer[f[i]].src
        BY <1>2, <3>a
      <3>3. \A i, j \in DOMAIN toServer' : f[i] = f[j] => i = j
        BY <1>2
      <3>4. \A c \in Client : Len(toClient'[c]) <= Len(toClient[c])
        BY <1>2, <2>1 DEF LoseFrame
      <3> HIDE DEF f
      <3> QED
        BY <1>1, <3>2, <3>3, <3>4, FewerUnderWay
    <2>2. CASE LoseAck
      <3>1. PICK d \in Client : \E i \in DOMAIN toClient[d] :
                toClient' = [toClient EXCEPT ![d] = RemoveAt(@, i)]
        BY <2>2 DEF LoseAck
      <3>2. \A c \in Client : Len(toClient'[c]) <= Len(toClient[c])
        BY <1>1, <1>2, <3>1, RemoveAtType DEF LinkTypeOK
      <3> QED
        BY <1>1, <2>2, <3>2, FewerAnswers DEF LoseAck
    <2>3. CASE Corrupt
      <3> DEFINE f == [i \in DOMAIN toServer' |-> i]
      <3>a. PICK n \in DOMAIN toServer :
                \E damaged \in [1 .. Len(toServer[n].context) -> Byte] :
                    /\ checksum(damaged) # toServer[n].sum
                    /\ toServer' = [toServer EXCEPT ![n] =
                                        [toServer[n] EXCEPT !.context = damaged]]
        BY <2>3 DEF Corrupt
      <3>1. PICK context :
                toServer' = [toServer EXCEPT ![n] = [toServer[n] EXCEPT !.context = context]]
        BY <3>a
      <3>2. toServer[n] \in Frame
        BY <1>2
      <3>3. [toServer[n] EXCEPT !.context = context].src = toServer[n].src
        BY <3>2 DEF Frame, AttrFrame, DataFrame, PlainFrame
      <3>4. \A i \in DOMAIN toServer' : /\ f[i] \in DOMAIN toServer
                                        /\ toServer'[i].src = toServer[f[i]].src
        BY <1>2, <3>1, <3>3
      <3>5. \A i, j \in DOMAIN toServer' : f[i] = f[j] => i = j
        OBVIOUS
      <3>6. \A c \in Client : Len(toClient'[c]) <= Len(toClient[c])
        BY <1>2, <2>3 DEF Corrupt
      <3> HIDE DEF f
      <3> QED
        BY <1>1, <3>4, <3>5, <3>6, FewerUnderWay
    <2> QED
      BY <2>1, <2>2, <2>3 DEF LinkFault, LinkNext, Stray
  <1> QED
    BY <1>3 DEF IStopAndWait, LinkFault, sendVars

LEMMA UserStepStopAndWait ==
    ASSUME TypeOK, TypeOK', IStopAndWait,
           \/ \E d \in Client : ClientKilled(d) \/ FileGrows(d)
           \/ (ServerRestart \/ ServerKilled) /\ UNCHANGED sendVars
    PROVE  IStopAndWait'
  <1>1. LinkTypeOK /\ LinkTypeOK' /\ \A c \in Client : OneUnderWay(c)
    BY DEF TypeOK, IStopAndWait
  <1>2. CASE UNCHANGED <<linkVars, sendVars>>
    BY <1>2 DEF linkVars, sendVars, IStopAndWait, OneUnderWay, Quiet, Outstanding
  <1>3. ASSUME NEW d \in Client, ClientKilled(d)
        PROVE  IStopAndWait'
    <2>1. UNCHANGED <<linkVars, runs>> /\ cpc' = [cpc EXCEPT ![d] = "idle"]
      BY <1>3 DEF ClientKilled
    <2>2. UNCHANGED <<toServer, toClient, runs>>
      BY <2>1 DEF linkVars
    <2>3. /\ \A c \in Client \ {d} : cpc'[c] = cpc[c]
          /\ cpc'[d] \notin Waiting
          /\ cpc'[d] = "idle"
      BY <2>1 DEF TypeOK, SendTypeOK, Waiting
    <2>4. \A c \in Client : /\ Outstanding(c)' = Outstanding(c)
                            /\ OneUnderWay(c)' = OneUnderWay(c)
                            /\ Quiet(c)' = Quiet(c)
      BY ONLY <2>2 DEF Outstanding, OneUnderWay, Quiet
    <2> QED
      BY ONLY <2>2, <2>3, <2>4, d \in Client, IStopAndWait DEF IStopAndWait
  <1>4. ASSUME NEW d \in Client, FileGrows(d)
        PROVE  IStopAndWait'
    <2>1. UNCHANGED <<linkVars, runs, cpc>>
      BY <1>4 DEF FileGrows
    <2> QED
      BY <2>1 DEF linkVars, IStopAndWait, OneUnderWay, Quiet, Outstanding
  <1>5. CASE ServerRestart /\ UNCHANGED sendVars
    <2>1. toServer' \in Remainders(toServer) /\ toClient' = toClient
      BY <1>5 DEF ServerRestart
    <2>2. toServer \in Seq(Frame)
      BY <1>1 DEF LinkTypeOK
    <2>3. PICK d \in 0 .. Len(toServer) :
             /\ toServer' \in Seq(Frame)
             /\ Len(toServer') = Len(toServer) - d
             /\ \A k \in 1 .. Len(toServer') : toServer'[k] = toServer[k + d]
      BY <2>1, <2>2, RemainderType
    <2> DEFINE f == [i \in DOMAIN toServer' |-> i + d]
    <2>4. \A i \in DOMAIN toServer' : /\ f[i] \in DOMAIN toServer
                                      /\ toServer'[i].src = toServer[f[i]].src
      BY <2>2, <2>3
    <2>5. \A i, j \in DOMAIN toServer' : f[i] = f[j] => i = j
      BY <2>3
    <2>6. \A c \in Client : Len(toClient'[c]) <= Len(toClient[c])
      BY <1>1, <2>1 DEF LinkTypeOK
    <2> HIDE DEF f
    <2>7. \A c \in Client : OneUnderWay(c)' /\ (Quiet(c) => Quiet(c)')
      BY <1>1, <2>4, <2>5, <2>6, FewerUnderWay
    <2> QED
      BY <1>5, <2>7 DEF IStopAndWait, sendVars
  <1>6. CASE ServerKilled /\ UNCHANGED sendVars
    BY <1>2, <1>6 DEF ServerKilled
  <1> QED
    BY <1>3, <1>4, <1>5, <1>6

LEMMA StopAndWaitStep ==
    ASSUME MaxRuns <= 1, "stray" \notin Faults,
           TypeOK, TypeOK', IStopAndWait, [Next]_vars
    PROVE  IStopAndWait'
  <1>1. CASE ClientNext
    BY <1>1, SendStepStopAndWait, RecvStepStopAndWait DEF ClientNext, ClientStep
  <1>2. CASE ServerNext
    BY <1>2, ServerStepStopAndWait DEF ServerNext
  <1>3. CASE LinkFault
    BY <1>3, LinkStepStopAndWait
  <1>4. CASE UserNext
    BY <1>4, SendStepStopAndWait, UserStepStopAndWait DEF UserNext
  <1>5. CASE UNCHANGED vars
    BY <1>5 DEF vars, linkVars, sendVars, IStopAndWait, OneUnderWay, Quiet, Outstanding
  <1> QED
    BY <1>1, <1>2, <1>3, <1>4, <1>5 DEF Next

\* Whatever fails, is lost or damaged, and however often the receiver and the
\* clients are killed: clients that are started once, with no stranger using
\* the Ethernet type, never have two frames or answers under way.
THEOREM StopAndWaitHolds ==
    ASSUME MaxRuns <= 1, "stray" \notin Faults
    PROVE  Spec => []StopAndWait
  <1>1. TypeOK /\ TypeOK' /\ IStopAndWait /\ [Next]_vars => IStopAndWait'
    BY StopAndWaitStep
  <1>2. IStopAndWait => StopAndWait
    BY DEF IStopAndWait, StopAndWait, OneUnderWay, Quiet
  <1> QED
    BY <1>1, <1>2, StopAndWaitInit, TypeCorrect, PTL DEF Spec

-----------------------------------------------------------------------------
(* The first run of the receiver.  Before it has opened a file every data  *)
(* frame stands behind a START in the queue, and so does everything a      *)
(* client that is under way will still send.                               *)

HasStart(queue) == \E i \in DOMAIN queue : queue[i].status = START
StartFirst(queue) ==
    \A i \in DOMAIN queue :
        queue[i].status = ING => \E k \in 1 .. i - 1 : queue[k].status = START

Unopened == sruns = 1 /\ srv = "up" /\ fp = 0

IFirstRun ==
    /\ sruns >= 1
    /\ srv = "segv" => sruns > 1
    /\ Unopened =>
           /\ StartFirst(toServer)
           /\ \A c \in Client : cpc[c] \notin NotRunning => HasStart(toServer)

LEMMA AppendStart ==
    ASSUME NEW queue \in Seq(Frame), NEW frame \in Frame
    PROVE  /\ HasStart(queue) \/ frame.status = START => HasStart(Append(queue, frame))
           /\ StartFirst(queue) /\ (frame.status = ING => HasStart(queue))
                  => StartFirst(Append(queue, frame))
  <1> DEFINE new == Append(queue, frame)
  <1>1. /\ DOMAIN new = 1 .. Len(queue) + 1
        /\ \A i \in 1 .. Len(queue) : new[i] = queue[i]
        /\ new[Len(queue) + 1] = frame
        /\ DOMAIN queue = 1 .. Len(queue)
        /\ Len(queue) \in Nat
    OBVIOUS
  <1> HIDE DEF new
  <1>2. HasStart(queue) \/ frame.status = START => HasStart(new)
    BY <1>1 DEF HasStart
  <1>3. ASSUME StartFirst(queue), frame.status = ING => HasStart(queue)
        PROVE  StartFirst(new)
    <2> SUFFICES ASSUME NEW i \in DOMAIN new, new[i].status = ING
                 PROVE  \E k \in 1 .. i - 1 : new[k].status = START
      BY DEF StartFirst
    <2>1. CASE i \in DOMAIN queue
      <3>1. PICK k \in 1 .. i - 1 : queue[k].status = START
        BY <1>1, <1>3, <2>1 DEF StartFirst
      <3> QED
        BY <1>1, <2>1, <3>1
    <2>2. CASE i \notin DOMAIN queue
      <3>1. i = Len(queue) + 1
        BY <1>1, <2>2
      <3>2. PICK k \in DOMAIN queue : queue[k].status = START
        BY <1>1, <1>3, <3>1 DEF HasStart
      <3> QED
        BY <1>1, <3>1, <3>2
    <2> QED
      BY <2>1, <2>2
  <1> QED
    BY <1>2, <1>3 DEF new

LEMMA TailStart ==
    ASSUME NEW queue \in Seq(Frame), queue # <<>>, Head(queue).status # START
    PROVE  /\ HasStart(queue) => HasStart(Tail(queue))
           /\ StartFirst(queue) => StartFirst(Tail(queue))
  <1> DEFINE new == Tail(queue)
  <1>1. /\ DOMAIN new = 1 .. Len(queue) - 1
        /\ \A i \in DOMAIN new : new[i] = queue[i + 1]
        /\ queue[1].status # START
        /\ DOMAIN queue = 1 .. Len(queue)
        /\ Len(queue) \in Nat
    BY TailType
  <1> HIDE DEF new
  <1>2. ASSUME HasStart(queue) PROVE HasStart(new)
    <2>1. PICK i \in DOMAIN queue : queue[i].status = START
      BY <1>2 DEF HasStart
    <2>2. i - 1 \in DOMAIN new /\ new[i - 1] = queue[i]
      BY <1>1, <2>1
    <2> QED
      BY <2>1, <2>2 DEF HasStart
  <1>3. ASSUME StartFirst(queue) PROVE StartFirst(new)
    <2> SUFFICES ASSUME NEW i \in DOMAIN new, new[i].status = ING
                 PROVE  \E k \in 1 .. i - 1 : new[k].status = START
      BY DEF StartFirst
    <2>1. i + 1 \in DOMAIN queue /\ queue[i + 1].status = ING
      BY <1>1
    <2>2. PICK k \in 1 .. i : queue[k].status = START
      BY <1>1, <1>3, <2>1 DEF StartFirst
    <2>3. k # 1
      BY <1>1, <2>2
    <2>4. k - 1 \in 1 .. i - 1 /\ new[k - 1] = queue[k]
      BY <1>1, <2>2, <2>3
    <2> QED
      BY <2>2, <2>4
  <1> QED
    BY <1>2, <1>3 DEF new

LEMMA SameStart ==
    ASSUME NEW queue \in Seq(Frame), NEW new \in Seq(Frame), Len(new) = Len(queue),
           \A i \in DOMAIN queue : new[i].status = queue[i].status
    PROVE  /\ HasStart(queue) => HasStart(new)
           /\ StartFirst(queue) => StartFirst(new)
  <1>1. DOMAIN new = DOMAIN queue
    OBVIOUS
  <1>2. \A i \in DOMAIN queue : \A k \in 1 .. i - 1 : k \in DOMAIN queue
    OBVIOUS
  <1>3. HasStart(queue) => HasStart(new)
    BY <1>1 DEF HasStart
  <1>4. ASSUME StartFirst(queue) PROVE StartFirst(new)
    <2> SUFFICES ASSUME NEW i \in DOMAIN new, new[i].status = ING
                 PROVE  \E k \in 1 .. i - 1 : new[k].status = START
      BY DEF StartFirst
    <2>1. i \in DOMAIN queue /\ queue[i].status = ING
      BY <1>1
    <2>2. PICK k \in 1 .. i - 1 : queue[k].status = START
      BY <2>1, <1>4 DEF StartFirst
    <2>3. new[k].status = START
      BY <1>2, <2>1, <2>2
    <2> QED
      BY <2>2, <2>3
  <1> QED
    BY <1>3, <1>4

\* What a client sends: START when it sets out, data only under way.
LEMMA SendStepFirstRun ==
    ASSUME TypeOK, TypeOK', IFirstRun, NEW d \in Client,
           SendReq(d) \/ ClientStep(d), UNCHANGED recvVars
    PROVE  IFirstRun'
  <1>1. /\ UNCHANGED <<sruns, srv, fp>>
        /\ Unopened' = Unopened
    BY DEF recvVars, Unopened
  <1>2. CASE toServer' = toServer /\ \A c \in Client : cpc'[c] \notin NotRunning => cpc[c] \notin NotRunning
    BY <1>1, <1>2 DEF IFirstRun
  <1>3. ASSUME NEW frame, toServer' = Append(toServer, frame),
               frame.status = START \/ cpc[d] \notin NotRunning,
               \A c \in Client \ {d} : cpc'[c] = cpc[c]
        PROVE  IFirstRun'
    <2>1. frame \in Frame /\ toServer \in Seq(Frame)
      <3>1. toServer \in Seq(Frame) /\ toServer' \in Seq(Frame)
        BY DEF TypeOK, LinkTypeOK
      <3>2. toServer'[Len(toServer) + 1] = frame /\ Len(toServer) + 1 \in DOMAIN toServer'
        BY <1>3, <3>1
      <3> QED
        BY <3>1, <3>2
    <2>2. ASSUME Unopened
          PROVE  StartFirst(toServer') /\ HasStart(toServer')
      <3>1. StartFirst(toServer) /\ (frame.status = START \/ HasStart(toServer))
        BY <1>3, <2>2 DEF IFirstRun
      <3> QED
        BY <1>3, <2>1, <3>1, AppendStart
    <2> QED
      BY <1>1, <2>2 DEF IFirstRun
  <1>4. CASE SendReq(d)
    <2>1. PICK content \in Source[d] :
              \/ SendAndWait(d, [src |-> d, status |-> START,
                                 fileSize |-> Len(content), path |-> DstOf[d]], "waitReq")
              \/ SendFails(d)
      BY <1>4 DEF SendReq
    <2>2. CASE SendFails(d)
      BY <1>2, <2>2 DEF SendFails, Return, TypeOK, SendTypeOK, NotRunning
    <2>3. CASE SendAndWait(d, [src |-> d, status |-> START,
                               fileSize |-> Len(content), path |-> DstOf[d]], "waitReq")
      BY <1>3, <2>3 DEF SendAndWait, TypeOK, SendTypeOK
    <2> QED
      BY <2>1, <2>2, <2>3
  <1>5. CASE SendFileData(d)
    <2>1. PICK n \in 0 .. BytesLeft(d) :
              LET buf == SubSeq(src[d], pos[d] + 1, pos[d] + n) IN
              \/ SendAndWait(d, [src |-> d, status |-> ING,
                                 sum |-> checksum(buf), context |-> buf], "waitData")
              \/ SendFails(d)
      BY <1>5 DEF SendFileData
    <2>2. CASE SendFails(d)
      BY <1>2, <2>2 DEF SendFails, Return, TypeOK, SendTypeOK, NotRunning
    <2>3. CASE \E frame : SendAndWait(d, frame, "waitData")
      BY <1>3, <1>5, <2>3 DEF SendAndWait, SendFileData, TypeOK, SendTypeOK, NotRunning
    <2> QED
      BY <2>1, <2>2, <2>3
  <1>6. CASE SendEnd(d)
    <2>1. CASE SendFails(d)
      BY <1>2, <2>1 DEF SendFails, Return, TypeOK, SendTypeOK, NotRunning
    <2>2. CASE SendAndWait(d, [src |-> d, status |-> END], "waitEnd")
      BY <1>3, <1>6, <2>2 DEF SendAndWait, SendEnd, TypeOK, SendTypeOK, NotRunning
    <2> QED
      BY <1>6, <2>1, <2>2 DEF SendEnd
  <1>7. CASE RecvReqAck(d)
    BY <1>2, <1>7 DEF RecvReqAck, Return, TypeOK, SendTypeOK, NotRunning
  <1>8. CASE RecvDataAck(d)
    BY <1>2, <1>8 DEF RecvDataAck, Return, TypeOK, SendTypeOK, NotRunning
  <1>9. CASE RecvEndAck(d)
    BY <1>2, <1>9 DEF RecvEndAck, Return, TypeOK, SendTypeOK, NotRunning
  <1>10. CASE AckRecvFails(d)
    BY <1>2, <1>10 DEF AckRecvFails, linkVars, Return, TypeOK, SendTypeOK, NotRunning
  <1> QED
    BY <1>4, <1>5, <1>6, <1>7, <1>8, <1>9, <1>10 DEF ClientStep

\* The receiver without a file open meets START, END or a stranger's frame,
\* and only the last keeps it up without opening one.
LEMMA ServerStepFirstRun ==
    ASSUME TypeOK, IFirstRun, ServerStep, UNCHANGED sendVars
    PROVE  IFirstRun'
  <1>1. UNCHANGED <<sruns, cpc>>
    BY DEF ServerStep, CreateFile, CreateFileFails, RecvFileData, ChecksumFails, FwriteFails,
           FwriteToNull, RecvEnd, FflushFails, RecvInvalid, RecvFails, CloseStream, Exit, sendVars
  <1>2. toServer \in Seq(Frame) /\ sruns \in Nat /\ fp \in {0, Len(streams)} /\ streams \in Seq(Stream)
    BY DEF TypeOK, LinkTypeOK, RecvTypeOK
  <1>3. Unopened => ~Reads(ING)
    <2> SUFFICES ASSUME Unopened, Reads(ING) PROVE FALSE
      OBVIOUS
    <2>1. 1 \in DOMAIN toServer /\ toServer[1].status = ING
      BY <1>2, TailType DEF Reads
    <2>2. \E k \in 1 .. 1 - 1 : toServer[k].status = START
      BY <2>1 DEF IFirstRun, StartFirst
    <2> QED
      BY <2>2
  <1>4. CASE CreateFile
    <2>1. fp' # 0 /\ srv' = "up"
      BY <1>2, <1>4 DEF CreateFile, Accept, Reads
    <2> QED
      BY <1>1, <2>1 DEF IFirstRun, Unopened
  <1>5. CASE CreateFileFails \/ ChecksumFails \/ FwriteFails \/ RecvEnd \/ FflushFails
             \/ RecvFails \/ CloseStream \/ Exit
    <2>1. srv' \in {"quit", "off"}
      BY <1>5 DEF CreateFileFails, ChecksumFails, FwriteFails, RecvEnd, FflushFails, RecvFails,
                  CloseStream, Exit, Refuse
    <2> QED
      BY <1>1, <2>1 DEF IFirstRun, Unopened
  <1>6. CASE RecvFileData
    <2>1. srv' = "up" /\ srv = "up" /\ fp' = fp
      BY <1>6 DEF RecvFileData, Accept, Reads
    <2>2. ~Unopened'
      BY <1>1, <1>3, <1>6, <2>1 DEF Unopened, RecvFileData
    <2> QED
      BY <1>1, <2>1, <2>2 DEF IFirstRun
  <1>7. CASE FwriteToNull
    <2>1. srv' = "segv" /\ ~Unopened /\ srv = "up" /\ fp = 0
      BY <1>3, <1>7 DEF FwriteToNull, Reads
    <2>2. sruns > 1
      BY <1>2, <2>1 DEF IFirstRun, Unopened
    <2> QED
      BY <1>1, <2>1, <2>2 DEF IFirstRun, Unopened
  <1>8. CASE RecvInvalid
    <2>1. /\ srv' = "up" /\ srv = "up" /\ fp' = fp
          /\ toServer # <<>> /\ Head(toServer).status # START
          /\ toServer' = Tail(toServer)
      BY <1>8 DEF RecvInvalid, Accept, Answer, Reads
    <2>2. /\ HasStart(toServer) => HasStart(toServer')
          /\ StartFirst(toServer) => StartFirst(toServer')
      BY <1>2, <2>1, TailStart
    <2> QED
      BY <1>1, <2>1, <2>2 DEF IFirstRun, Unopened
  <1> QED
    BY <1>4, <1>5, <1>6, <1>7, <1>8 DEF ServerStep

\* Without a lost frame the segment keeps the order; damage keeps the status.
LEMMA LinkStepFirstRun ==
    ASSUME TypeOK, TypeOK', IFirstRun, "loseFrame" \notin Faults, LinkFault
    PROVE  IFirstRun'
  <1>1. UNCHANGED <<sruns, srv, fp, cpc>>
    BY DEF LinkFault, sendVars, recvVars
  <1>2. toServer \in Seq(Frame) /\ toServer' \in Seq(Frame)
    BY DEF TypeOK, LinkTypeOK
  <1>3. /\ HasStart(toServer) => HasStart(toServer')
        /\ StartFirst(toServer) => StartFirst(toServer')
    <2>1. CASE toServer' = toServer
      BY <2>1
    <2>2. CASE Corrupt
      <3>1. PICK n \in DOMAIN toServer :
                \E damaged \in [1 .. Len(toServer[n].context) -> Byte] :
                    /\ checksum(damaged) # toServer[n].sum
                    /\ toServer' = [toServer EXCEPT ![n] =
                                        [toServer[n] EXCEPT !.context = damaged]]
        BY <2>2 DEF Corrupt
      <3>2. PICK damaged : toServer' = [toServer EXCEPT ![n] =
                                            [toServer[n] EXCEPT !.context = damaged]]
        BY <3>1
      <3>3. [toServer[n] EXCEPT !.context = damaged].status = toServer[n].status
        <4>1. toServer[n] \in Frame
          BY <1>2
        <4> QED
          BY <4>1 DEF Frame, AttrFrame, DataFrame, PlainFrame
      <3>4. /\ Len(toServer') = Len(toServer)
            /\ \A i \in DOMAIN toServer : toServer'[i].status = toServer[i].status
        BY <1>2, <3>2, <3>3
      <3> QED
        BY <1>2, <3>4, SameStart
    <2>3. CASE Stray
      <3>1. PICK c \in Client :
                \/ toServer' = Append(toServer, [src |-> c, status |-> UNKNOWN])
                \/ toServer' = toServer
        BY <2>3 DEF Stray
      <3>2. CASE toServer' = Append(toServer, [src |-> c, status |-> UNKNOWN])
        <4>1. [src |-> c, status |-> UNKNOWN] \in Frame
          BY DEF Frame, PlainFrame
        <4> QED
          BY <1>2, <3>2, <4>1, AppendStart
      <3> QED
        BY <2>1, <3>1, <3>2
    <2> QED
      BY <2>1, <2>2, <2>3 DEF LinkFault, LinkNext, LoseFrame, LoseAck
  <1> QED
    BY <1>1, <1>3 DEF IFirstRun, Unopened

\* Any number of clients, killed and restarted at any moment, strangers that
\* use the Ethernet type, files of any size: as long as the segment loses no
\* frame, the receiver does not hand a NULL fp to fwrite in its first run.
THEOREM FirstRunNeverCrashesHolds ==
    ASSUME "loseFrame" \notin Faults
    PROVE  Spec => []FirstRunNeverCrashes
  <1>1. Init => IFirstRun
    BY DEF Init, LinkInit, SendInit, RecvInit, IFirstRun, StartFirst, NotRunning
  <1>2. TypeOK /\ TypeOK' /\ IFirstRun /\ [Next]_vars => IFirstRun'
    <2> SUFFICES ASSUME TypeOK, TypeOK', IFirstRun, [Next]_vars
                 PROVE  IFirstRun'
      OBVIOUS
    <2>1. ASSUME NEW d \in Client, SendReq(d) \/ ClientStep(d), UNCHANGED recvVars
          PROVE  IFirstRun'
      BY <2>1, SendStepFirstRun
    <2>2. ASSUME NEW d \in Client, ClientKilled(d) \/ FileGrows(d), UNCHANGED recvVars
          PROVE  IFirstRun'
      <3>1. /\ UNCHANGED <<toServer, sruns, srv, fp>>
            /\ \A c \in Client : cpc'[c] \notin NotRunning => cpc[c] \notin NotRunning
        BY <2>2 DEF ClientKilled, FileGrows, linkVars, recvVars, TypeOK, SendTypeOK, NotRunning
      <3>2. /\ Unopened' = Unopened
            /\ StartFirst(toServer)' = StartFirst(toServer)
            /\ HasStart(toServer)' = HasStart(toServer)
        BY <3>1 DEF Unopened, StartFirst, HasStart
      <3> QED
        BY <3>1, <3>2 DEF IFirstRun
    <2>3. CASE ServerNext
      BY <2>3, ServerStepFirstRun DEF ServerNext
    <2>4. CASE LinkFault
      BY <2>4, LinkStepFirstRun
    <2>5. CASE ServerRestart /\ UNCHANGED sendVars
      <3>1. sruns' = sruns + 1 /\ sruns \in Nat /\ sruns >= 1
        BY <2>5 DEF ServerRestart, TypeOK, RecvTypeOK, IFirstRun
      <3>2. sruns' > 1 /\ sruns' >= 1 /\ sruns' # 1
        BY <3>1
      <3> QED
        BY <3>2 DEF IFirstRun, Unopened
    <2>6. CASE ServerKilled /\ UNCHANGED sendVars
      BY <2>6 DEF ServerKilled, linkVars, sendVars, IFirstRun, Unopened
    <2>7. CASE UNCHANGED vars
      BY <2>7 DEF vars, linkVars, sendVars, recvVars, IFirstRun, Unopened
    <2> QED
      BY <2>1, <2>2, <2>3, <2>4, <2>5, <2>6, <2>7 DEF Next, ClientNext, UserNext
  <1>3. IFirstRun => FirstRunNeverCrashes
    BY DEF IFirstRun, FirstRunNeverCrashes
  <1> QED
    BY <1>1, <1>2, <1>3, TypeCorrect, PTL DEF Spec
=============================================================================
