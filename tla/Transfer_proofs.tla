--------------------------- MODULE Transfer_proofs ---------------------------
(***************************************************************************)
(* Proofs about the transfers of one client, for files of any size, any    *)
(* block size and any fault (lost or damaged frames, lost answers, read,   *)
(* write, open, send and receive errors, a source that grows, kills).      *)
(*                                                                         *)
(* OneTransfer: one run of each program and no stranger on the segment.    *)
(* What a success means, the totals, and the refinement of FileCopy.       *)
(* OneSender: any number of runs, no frame lost.  What is in a file.       *)
(***************************************************************************)
EXTENDS MCFileTransmit, FileTransmit_proofs

USE DEF START, ING, END, SUCCESS, FAIL, UNKNOWN

OneTransfer ==
    /\ Client = {c1}
    /\ MaxRuns <= 1
    /\ MaxServerRuns <= 1
    /\ "stray" \notin Faults

-----------------------------------------------------------------------------
(* Pieces of sequences, and a write at the end of a file.                  *)

\* A sequence that grew at its end has the same pieces.
LEMMA SubSeqAppend ==
    ASSUME NEW S, NEW s \in Seq(S), NEW e \in S, NEW n \in 0 .. Len(s), NEW m \in 1 .. n + 1
    PROVE  SubSeq(Append(s, e), m, n) = SubSeq(s, m, n)
  <1> DEFINE t == Append(s, e)
  <1>1. /\ t \in Seq(S) /\ Len(t) = Len(s) + 1
        /\ \A k \in 1 .. Len(s) : t[k] = s[k]
    OBVIOUS
  <1> HIDE DEF t
  <1>2. /\ SubSeq(t, m, n) \in Seq(S) /\ Len(SubSeq(t, m, n)) = n - m + 1
        /\ \A k \in 1 .. n - m + 1 : SubSeq(t, m, n)[k] = t[m + k - 1]
    BY <1>1, SubSeqType
  <1>3. /\ SubSeq(s, m, n) \in Seq(S) /\ Len(SubSeq(s, m, n)) = n - m + 1
        /\ \A k \in 1 .. n - m + 1 : SubSeq(s, m, n)[k] = s[m + k - 1]
    BY SubSeqType
  <1>4. \A k \in 1 .. n - m + 1 : m + k - 1 \in 1 .. Len(s)
    OBVIOUS
  <1>5. \A k \in 1 .. n - m + 1 : SubSeq(t, m, n)[k] = SubSeq(s, m, n)[k]
    BY <1>1, <1>2, <1>3, <1>4
  <1> DEFINE x == SubSeq(t, m, n)
             y == SubSeq(s, m, n)
  <1>6. x \in Seq(S) /\ y \in Seq(S) /\ Len(x) = Len(y) /\ \A k \in 1 .. Len(x) : x[k] = y[k]
    BY <1>2, <1>3, <1>5
  <1> HIDE DEF x, y
  <1>7. x = y
    BY <1>6, SeqEqual
  <1> QED
    BY <1>7 DEF x, y, t

\* A piece of a piece.
LEMMA PieceOfPiece ==
    ASSUME NEW S, NEW s \in Seq(S), NEW i \in 1 .. Len(s) + 1, NEW j \in i - 1 .. Len(s),
           NEW k \in 0 .. j - i + 1
    PROVE  SubSeq(SubSeq(s, i, j), 1, k) = SubSeq(s, i, i + k - 1)
  <1> DEFINE t == SubSeq(s, i, j)
             x == SubSeq(t, 1, k)
             y == SubSeq(s, i, i + k - 1)
  <1>1. /\ t \in Seq(S) /\ Len(t) = j - i + 1
        /\ \A e \in 1 .. j - i + 1 : t[e] = s[i + e - 1]
    BY SubSeqType
  <1>2. y \in Seq(S) /\ Len(y) = k /\ \A e \in 1 .. k : y[e] = s[i + e - 1]
    <2>1. i + k - 1 \in i - 1 .. Len(s) /\ (i + k - 1) - i + 1 = k
      OBVIOUS
    <2> QED
      BY <2>1, SubSeqType
  <1> HIDE DEF t, y
  <1>3. x \in Seq(S) /\ Len(x) = k /\ \A e \in 1 .. k : x[e] = t[e]
    BY <1>1, SubSeqType
  <1> HIDE DEF x
  <1>4. ASSUME NEW e \in 1 .. Len(x) PROVE x[e] = y[e]
    <2>1. e \in 1 .. k /\ e \in 1 .. j - i + 1
      BY <1>3
    <2>2. x[e] = t[e] /\ t[e] = s[i + e - 1] /\ y[e] = s[i + e - 1]
      BY ONLY <1>1, <1>2, <1>3, <2>1
    <2> QED
      BY <2>2
  <1>5. x = y
    BY <1>2, <1>3, <1>4, SeqEqual
  <1> QED
    BY <1>5 DEF x, y, t

\* The first part of two.
LEMMA FrontOfConcat ==
    ASSUME NEW S, NEW s \in Seq(S), NEW t \in Seq(S)
    PROVE  /\ s \o t \in Seq(S)
           /\ Len(s) \in 0 .. Len(s \o t)
           /\ SubSeq(s \o t, 1, Len(s)) = s
  <1> DEFINE u == s \o t
             p == SubSeq(u, 1, Len(s))
  <1>1. /\ u \in Seq(S) /\ Len(u) = Len(s) + Len(t)
        /\ \A i \in 1 .. Len(s) : u[i] = s[i]
    BY ConcatProperties
  <1> HIDE DEF u
  <1>2. Len(s) \in 0 .. Len(u)
    BY <1>1
  <1>3. p \in Seq(S) /\ Len(p) = Len(s) /\ \A i \in 1 .. Len(s) : p[i] = s[i]
    BY <1>1, <1>2, SubSeqType
  <1> HIDE DEF p
  <1>4. p = s
    BY <1>3, SeqEqual
  <1> QED
    BY <1>1, <1>2, <1>4 DEF p, u

\* One element is replaced.
LEMMA SetElement ==
    ASSUME NEW S, NEW s \in Seq(S), NEW i \in DOMAIN s, NEW e \in S
    PROVE  /\ [s EXCEPT ![i] = e] \in Seq(S)
           /\ Len([s EXCEPT ![i] = e]) = Len(s)
           /\ [s EXCEPT ![i] = e][i] = e
           /\ [s EXCEPT ![i] = e] # <<>>
  OBVIOUS

\* A write where the file ends appends to it.
LEMMA WriteAtEnd ==
    ASSUME NEW content \in Seq(Byte), NEW bytes \in Seq(Byte)
    PROVE  WriteAt(content, Len(content), bytes) = content \o bytes
  <1>1. CASE bytes = <<>>
    BY <1>1 DEF WriteAt
  <1>2. CASE bytes # <<>>
    <2> DEFINE w == WriteAt(content, Len(content), bytes)
               m == Len(content)
               n == Len(bytes)
    <2>1. n \in Nat \ {0} /\ m \in Nat
      BY <1>2
    <2>2. w = [i \in 1 .. m + n |->
                   IF i \in m + 1 .. m + n THEN bytes[i - m]
                   ELSE IF i \in DOMAIN content THEN content[i]
                   ELSE 0]
      BY <1>2, <2>1 DEF WriteAt
    <2>3. w \in Seq(Byte)
      BY <2>1, WriteAtType
    <2>4. Len(w) = m + n /\ \A i \in 1 .. m + n : w[i] = IF i <= m THEN content[i] ELSE bytes[i - m]
      BY <2>1, <2>2, <2>3
    <2> HIDE DEF w
    <2>5. /\ content \o bytes \in Seq(Byte) /\ Len(content \o bytes) = m + n
          /\ \A i \in 1 .. m + n : (content \o bytes)[i] = IF i <= m THEN content[i] ELSE bytes[i - m]
      BY ConcatProperties
    <2>6. w = content \o bytes
      BY <2>3, <2>4, <2>5, SeqEqual
    <2> QED
      BY <2>6 DEF w
  <1> QED
    BY <1>1, <1>2

-----------------------------------------------------------------------------
(* The copy and what is said about it.                                     *)

Dst == DstOf[c1]

\* What the receiver has of the file: what is on disk and what its stream buffers.
Held == IF streams = <<>> THEN disk[Dst] ELSE disk[Dst] \o streams[1].buf

\* The first n bytes of the source.
Sent(n) == SubSeq(src[c1], 1, n)

Good(frame) == checksum(frame.context) = frame.sum

\* A SUCCESS is on its way to the client.
Answered == toClient[c1] # <<>> /\ Head(toClient[c1]) = SUCCESS

ISender ==
    /\ runs[c1] <= 1
    /\ pos[c1] <= Len(src[c1])
    /\ fileSize[c1] <= Len(src[c1])
    /\ eof[c1] => pos[c1] >= fileSize[c1]
    /\ runs[c1] = 0 => streams = <<>> /\ recvCount = 0 /\ disk[Dst] \in OldContent

\* The receiver has one stream at most, which ends where the file on disk ends.
IReceiver ==
    /\ sruns = 1
    /\ Len(streams) <= 1
    /\ srv = "up" => fp = Len(streams)
    /\ srv \in {"off", "segv"} => streams = <<>>
    /\ streams # <<>> => streams[1].path = Dst /\ streams[1].off = Len(disk[Dst])

\* The file at the receiver is the old one or a beginning of the source.
IPrefix ==
    /\ streams # <<>> => \E n \in 0 .. pos[c1] : Held = Sent(n)
    /\ streams = <<>> => \/ disk[Dst] \in OldContent
                         \/ srv # "up" /\ \E n \in 0 .. pos[c1] : disk[Dst] = Sent(n)

\* The one frame that may be under way.
Under == Head(toServer)

IStart ==
    /\ Under.path = Dst /\ Under.fileSize = fileSize[c1]
    /\ streams = <<>> /\ recvCount = 0 /\ pos[c1] = 0 /\ count[c1] = 0
    /\ cpc[c1] \in {"waitReq"} \cup NotRunning

IData ==
    /\ srv = "up" => streams # <<>> /\ recvCount = count[c1]
    /\ srv = "up" /\ Good(Under) =>
           \E n \in 0 .. pos[c1] :
               Held = Sent(n) /\ Under.context = SubSeq(src[c1], n + 1, pos[c1])
    /\ cpc[c1] \in {"waitData"} \cup NotRunning

IEnd ==
    /\ srv = "up" => streams # <<>> /\ Held = Sent(pos[c1]) /\ recvCount = count[c1]
    /\ eof[c1]
    /\ cpc[c1] \in {"waitEnd"} \cup NotRunning

IFrame ==
    /\ Under.status = START => IStart
    /\ Under.status = ING => IData
    /\ Under.status = END => IEnd
    /\ Under.status # UNKNOWN

\* The transfer is over and the copy is what was read.
Complete ==
    /\ srv \in {"quit", "off"}
    /\ disk[Dst] = Sent(pos[c1])
    /\ streams # <<>> => streams[1].buf = <<>>
    /\ recvCount = count[c1]
    /\ eof[c1]

\* What an answer, or the progress of the client, says about the receiver.
IProgress ==
    /\ cpc[c1] = "waitReq" => pos[c1] = 0 /\ count[c1] = 0
    /\ cpc[c1] = "waitReq" /\ Answered /\ srv = "up" =>
           streams # <<>> /\ Held = Sent(pos[c1]) /\ recvCount = count[c1]
    /\ cpc[c1] = "reading" /\ srv = "up" =>
           streams # <<>> /\ Held = Sent(pos[c1]) /\ recvCount = count[c1]
    /\ cpc[c1] = "waitData" /\ Answered /\ srv = "up" =>
           streams # <<>> /\ Held = Sent(pos[c1]) /\ recvCount = count[c1] + 1
    /\ cpc[c1] = "waitEnd" /\ Answered => Complete
    /\ Succeeded(c1) => toServer = <<>> /\ Complete

ITransfer ==
    /\ ISender
    /\ IReceiver
    /\ IPrefix
    /\ toServer # <<>> => IFrame
    /\ IProgress

-----------------------------------------------------------------------------
(* What the steps of the receiver do to the copy.                          *)

LEMMA OneStream ==
    ASSUME TypeOK, IReceiver, streams # <<>>, OneTransfer
    PROVE  /\ Len(streams) = 1
           /\ streams[1] \in Stream
           /\ streams[1].path = Dst /\ Dst \in Path
           /\ streams[1].off = Len(disk[Dst])
           /\ streams[1].buf \in Seq(Byte)
           /\ disk[Dst] \in Seq(Byte)
           /\ Held = disk[Dst] \o streams[1].buf
           /\ srv = "up" => fp = 1
  <1>1. streams \in Seq(Stream) /\ Len(streams) # 0
    BY DEF TypeOK, RecvTypeOK
  <1>a. Len(streams) <= 1
    BY DEF IReceiver
  <1>2. Len(streams) = 1 /\ streams[1] \in Stream
    BY ONLY <1>1, <1>a
  <1>3. Dst \in Path
    BY SendAssumption DEF OneTransfer, Dst
  <1> QED
    BY <1>2, <1>3 DEF IReceiver, Stream, TypeOK, RecvTypeOK, Held

\* The beginning of a beginning of the source.
LEMMA BeginningOfSent ==
    ASSUME NEW n \in Nat, NEW k \in 0 .. Len(Sent(n)), src[c1] \in Seq(Byte), n <= Len(src[c1])
    PROVE  k \in 0 .. n /\ SubSeq(Sent(n), 1, k) = Sent(k)
  <1>1. 1 \in 1 .. Len(src[c1]) + 1 /\ n \in 1 - 1 .. Len(src[c1])
    OBVIOUS
  <1>2. Len(Sent(n)) = n
    BY <1>1, SubSeqType DEF Sent
  <1>3. k \in 0 .. n - 1 + 1 /\ 1 + k - 1 = k
    BY <1>2
  <1>4. SubSeq(SubSeq(src[c1], 1, n), 1, k) = SubSeq(src[c1], 1, 1 + k - 1)
    BY <1>1, <1>3, PieceOfPiece
  <1> QED
    BY <1>2, <1>3, <1>4 DEF Sent

\* fwrite and the drain of the buffer append to what is held; a full drain
\* leaves the buffer empty.
LEMMA DrainHeld ==
    ASSUME TypeOK, IReceiver, OneTransfer, srv = "up", fp # 0, NEW bytes \in Seq(Byte),
           NEW n \in 0 .. Len(streams[fp].buf) + Len(bytes),
           PutAndDrain(fp, bytes, n)
    PROVE  /\ streams # <<>> /\ streams' # <<>> /\ Len(streams') = 1 /\ fp = 1
           /\ streams'[1].path = Dst
           /\ streams'[1].off = Len(disk'[Dst])
           /\ Held' = Held \o bytes
           /\ Len(disk[Dst]) <= Len(disk'[Dst])
           /\ \E k \in 0 .. Len(Held \o bytes) : disk'[Dst] = SubSeq(Held \o bytes, 1, k)
           /\ n = Len(streams[1].buf) + Len(bytes) =>
                  streams'[1].buf = <<>> /\ disk'[Dst] = Held \o bytes
  <1> DEFINE old == disk[Dst]
             sbuf == streams[1].buf
             buf == sbuf \o bytes
             x == SubSeq(buf, 1, n)
             y == SubSeq(buf, n + 1, Len(buf))
  <1>1. streams # <<>>
    BY DEF TypeOK, RecvTypeOK, IReceiver
  <1>2. /\ fp = 1 /\ Len(streams) = 1
        /\ sbuf \in Seq(Byte) /\ old \in Seq(Byte)
        /\ Held = old \o sbuf
        /\ streams[1].path = Dst /\ streams[1].off = Len(old) /\ Dst \in Path
    BY <1>1, OneStream
  <1>3. buf \in Seq(Byte) /\ Len(buf) = Len(sbuf) + Len(bytes) /\ n \in 0 .. Len(buf)
    BY <1>2
  <1>4. /\ disk' = [disk EXCEPT ![Dst] = WriteAt(@, Len(old), x)]
        /\ streams' = [streams EXCEPT ![1] =
                           [path |-> Dst, off |-> Len(old) + n, buf |-> y]]
    BY <1>2 DEF PutAndDrain
  <1>5. x \in Seq(Byte) /\ y \in Seq(Byte) /\ Len(x) = n /\ Len(y) = Len(buf) - n
    BY <1>3, SubSeqType
  <1>6. x \o y = buf
    <2>1. 1 \in 1 .. Len(buf) + 1 /\ n \in 1 - 1 .. Len(buf) /\ Len(buf) \in n .. Len(buf)
      BY <1>3
    <2>2. x \o y = SubSeq(buf, 1, Len(buf))
      BY <1>3, <2>1, ConcatAdjacentSubSeq
    <2> QED
      BY <1>3, <2>2, SubSeqFull
  <1> HIDE DEF x, y, buf, old, sbuf
  <1>7. disk' = [disk EXCEPT ![Dst] = old \o x]
    BY <1>2, <1>4, <1>5, WriteAtEnd DEF old
  <1>8. disk'[Dst] = old \o x
    BY <1>2, <1>7 DEF TypeOK, RecvTypeOK
  <1>9. /\ Len(streams') = 1 /\ streams' # <<>>
        /\ streams'[1] = [path |-> Dst, off |-> Len(old) + n, buf |-> y]
    <2> DEFINE new == [path |-> Dst, off |-> Len(old) + n, buf |-> y]
    <2>1. streams \in Seq(Stream) /\ streams' = [streams EXCEPT ![1] = new]
      BY <1>4 DEF TypeOK, RecvTypeOK
    <2>a. Len(streams) = 1 /\ new \in Stream
      BY <1>2, <1>5 DEF Stream
    <2> HIDE DEF new
    <2>b. 1 \in DOMAIN streams
      BY ONLY <2>1, <2>a
    <2>2. Len(streams') = 1 /\ streams'[1] = new /\ streams' # <<>>
      BY ONLY <2>1, <2>a, <2>b, SetElement
    <2> QED
      BY <2>2 DEF new
  <1>a. old \in Seq(Byte) /\ x \in Seq(Byte) /\ y \in Seq(Byte) /\ Len(x) = n
    BY <1>2, <1>5
  <1>b. old \in Seq(Byte) /\ sbuf \in Seq(Byte) /\ bytes \in Seq(Byte)
    BY <1>2
  <1>10. Len(old \o x) = Len(old) + n
    BY ONLY <1>a, ConcatProperties
  <1>11. Held' = Held \o bytes
    <2>1. Held' = (old \o x) \o y
      BY <1>8, <1>9 DEF Held, Dst
    <2>2. (old \o x) \o y = old \o (x \o y)
      BY ONLY <1>a, ConcatAssociative
    <2>3. old \o (sbuf \o bytes) = (old \o sbuf) \o bytes
      BY ONLY <1>b, ConcatAssociative
    <2> QED
      BY <1>2, <1>6, <2>1, <2>2, <2>3 DEF buf
  <1>12. \E k \in 0 .. Len(Held \o bytes) : disk'[Dst] = SubSeq(Held \o bytes, 1, k)
    <2>0. Held' = (old \o x) \o y
      BY <1>8, <1>9 DEF Held, Dst
    <2>1. Held \o bytes = (old \o x) \o y
      BY <1>11, <2>0
    <2>2. old \o x \in Seq(Byte)
      BY <1>a, ConcatProperties
    <2>3. /\ Len(old \o x) \in 0 .. Len((old \o x) \o y)
          /\ SubSeq((old \o x) \o y, 1, Len(old \o x)) = old \o x
      BY ONLY <1>a, <2>2, FrontOfConcat
    <2> QED
      BY <1>8, <2>1, <2>3
  <1>13. Len(disk[Dst]) <= Len(disk'[Dst])
    <2>1. Len(old) \in Nat /\ n \in Nat
      BY <1>3, <1>a
    <2> QED
      BY <1>8, <1>10, <2>1 DEF old
  <1>14. ASSUME n = Len(streams[1].buf) + Len(bytes)
         PROVE  streams'[1].buf = <<>> /\ disk'[Dst] = Held \o bytes
    <2>1. Len(y) = 0
      BY <1>3, <1>5, <1>14 DEF sbuf
    <2>2. y = <<>>
      BY <1>5, <2>1, EmptySeq
    <2>3. x = buf
      BY <1>5, <1>6, <2>2, ConcatEmptySeq
    <2>4. old \o (sbuf \o bytes) = (old \o sbuf) \o bytes
      BY ONLY <1>b, ConcatAssociative
    <2> QED
      BY <1>2, <1>8, <1>9, <2>2, <2>3, <2>4 DEF buf
  <1>15. /\ streams # <<>> /\ streams' # <<>> /\ Len(streams') = 1 /\ fp = 1
         /\ streams'[1].path = Dst
         /\ streams'[1].off = Len(disk'[Dst])
    BY <1>1, <1>2, <1>8, <1>9, <1>10
  <1> QED
    BY ONLY <1>11, <1>12, <1>13, <1>14, <1>15, Zenon

\* fclose: some of what was buffered reaches the file, all of it when there
\* was nothing.
LEMMA CloseHeld ==
    ASSUME TypeOK, IReceiver, OneTransfer, CloseStream
    PROVE  /\ streams # <<>> /\ streams' = <<>>
           /\ \E k \in 0 .. Len(Held) : disk'[Dst] = SubSeq(Held, 1, k)
           /\ Len(disk[Dst]) <= Len(disk'[Dst])
           /\ streams[1].buf = <<>> => disk'[Dst] = disk[Dst]
  <1> DEFINE old == disk[Dst]
             sbuf == streams[1].buf
  <1>1. streams # <<>>
    BY DEF CloseStream
  <1>2. /\ Len(streams) = 1
        /\ sbuf \in Seq(Byte) /\ old \in Seq(Byte)
        /\ Held = old \o sbuf
        /\ streams[1].path = Dst /\ streams[1].off = Len(old) /\ Dst \in Path
    BY <1>1, OneStream
  <1>a. PICK n \in IF "write" \in Faults THEN 0 .. Len(sbuf) ELSE {Len(sbuf)} :
            disk' = [disk EXCEPT ![Dst] = WriteAt(@, Len(old), SubSeq(sbuf, 1, n))]
    BY <1>2, Zenon DEF CloseStream
  <1>3. /\ n \in 0 .. Len(sbuf)
        /\ disk' = [disk EXCEPT ![Dst] = WriteAt(@, Len(old), SubSeq(sbuf, 1, n))]
    BY <1>2, <1>a
  <1> DEFINE x == SubSeq(sbuf, 1, n)
  <1>4. x \in Seq(Byte) /\ Len(x) = n /\ \A k \in 1 .. n : x[k] = sbuf[k]
    BY <1>2, SubSeqType
  <1> HIDE DEF x, old, sbuf
  <1>5. disk'[Dst] = old \o x
    <2>1. WriteAt(old, Len(old), x) = old \o x
      BY <1>2, <1>4, WriteAtEnd
    <2>2. disk \in [Path -> Seq(Byte)]
      BY DEF TypeOK, RecvTypeOK
    <2> QED
      BY <1>2, <1>3, <2>1, <2>2 DEF x, old
  <1>6. streams' = <<>>
    BY <1>2 DEF CloseStream, Front, TypeOK, RecvTypeOK
  <1>7. \E k \in 0 .. Len(Held) : disk'[Dst] = SubSeq(Held, 1, k)
    <2> DEFINE h == old \o sbuf
               k == Len(old) + n
               p == SubSeq(h, 1, k)
               q == old \o x
    <2>1. /\ h \in Seq(Byte) /\ Len(h) = Len(old) + Len(sbuf)
          /\ \A i \in 1 .. Len(h) : h[i] = IF i <= Len(old) THEN old[i] ELSE sbuf[i - Len(old)]
      BY <1>2, ConcatProperties
    <2>a. old \in Seq(Byte) /\ x \in Seq(Byte) /\ Len(x) = n
      BY <1>2, <1>4
    <2>2. /\ q \in Seq(Byte) /\ Len(q) = k
          /\ \A i \in 1 .. k : q[i] = IF i <= Len(old) THEN old[i] ELSE x[i - Len(old)]
      BY ONLY <2>a, ConcatProperties
    <2>3. k \in 0 .. Len(h)
      BY <1>2, <2>1
    <2>4. /\ p \in Seq(Byte) /\ Len(p) = k
          /\ \A i \in 1 .. k : p[i] = h[i]
      <3> HIDE DEF h, k
      <3> QED
        BY <2>1, <2>3, SubSeqType
    <2> HIDE DEF h, p, q
    <2>5. ASSUME NEW i \in 1 .. k PROVE p[i] = q[i]
      <3>1. i \in 1 .. Len(h) /\ p[i] = h[i]
        BY <2>3, <2>4
      <3>2. CASE i <= Len(old)
        BY <2>1, <2>2, <3>1, <3>2
      <3>3. CASE ~(i <= Len(old))
        <4>1. i - Len(old) \in 1 .. n
          BY <1>2, <3>3
        <4>2. x[i - Len(old)] = sbuf[i - Len(old)]
          BY <1>4, <4>1
        <4> QED
          BY <2>1, <2>2, <3>1, <3>3, <4>2
      <3> QED
        BY <3>2, <3>3
    <2>6. p = q
      <3> HIDE DEF k
      <3> QED
        BY <2>2, <2>4, <2>5, SeqEqual
    <2> QED
      BY <1>2, <1>5, <2>3, <2>6 DEF p, q, h
  <1>8. ASSUME streams[1].buf = <<>> PROVE disk'[Dst] = disk[Dst]
    <2>1. n = 0
      BY <1>8 DEF sbuf
    <2>2. x = <<>>
      BY <1>4, <2>1, EmptySeq
    <2>3. old \o x = old
      BY <1>2, <2>2, ConcatEmptySeq
    <2> QED
      BY <1>5, <2>3 DEF old
  <1>9. Len(disk[Dst]) <= Len(disk'[Dst])
    <2>1. old \in Seq(Byte) /\ x \in Seq(Byte) /\ Len(x) \in Nat /\ Len(old) \in Nat
      BY <1>2, <1>4
    <2>2. Len(old \o x) = Len(old) + Len(x)
      BY ONLY <2>1, ConcatProperties
    <2> QED
      BY <1>5, <2>1, <2>2 DEF old
  <1> QED
    BY <1>1, <1>6, <1>7, <1>8, <1>9

-----------------------------------------------------------------------------
(* The steps of the client.                                                *)

\* With one client that stops and waits, the queues hold one element between
\* them.
LEMMA Traffic ==
    ASSUME OneTransfer, TypeOK, IStopAndWait
    PROVE  /\ c1 \in Client
           /\ toServer \in Seq(Frame) /\ toClient[c1] \in Seq(Status)
           /\ toServer # <<>> => /\ Head(toServer) \in Frame
                                 /\ Head(toServer).src = c1
                                 /\ Tail(toServer) = <<>>
                                 /\ toClient[c1] = <<>>
                                 /\ runs[c1] # 0
                                 /\ cpc[c1] # "reading"
                                 /\ DOMAIN toServer = {1}
                                 /\ Head(toServer) = toServer[1]
           /\ toClient[c1] # <<>> => /\ Tail(toClient[c1]) = <<>>
                                     /\ Head(toClient[c1]) \in Status
                                     /\ toServer = <<>>
           /\ runs[c1] = 0 => cpc[c1] = "idle" /\ toServer = <<>> /\ toClient[c1] = <<>>
           /\ cpc[c1] = "reading" => toServer = <<>> /\ toClient[c1] = <<>>
  <1>1. c1 \in Client /\ toServer \in Seq(Frame) /\ toClient[c1] \in Seq(Status)
    BY DEF OneTransfer, TypeOK, LinkTypeOK
  <1>2. /\ OneUnderWay(c1)
        /\ runs[c1] = 0 \/ cpc[c1] = "reading" => Quiet(c1)
        /\ runs[c1] = 0 => cpc[c1] = "idle"
    BY <1>1 DEF IStopAndWait
  <1>3. Outstanding(c1) = DOMAIN toServer
    <2>1. ASSUME NEW i \in DOMAIN toServer PROVE toServer[i].src = c1
      <3>1. toServer[i] \in Frame
        BY <1>1
      <3> QED
        BY <3>1, FrameFields DEF OneTransfer
    <2> QED
      BY <2>1 DEF Outstanding
  <1>4. toServer # <<>> => 1 \in DOMAIN toServer
    BY <1>1
  <1>5. toServer # <<>> => /\ Head(toServer) \in Frame
                           /\ Head(toServer).src = c1
                           /\ Tail(toServer) = <<>>
                           /\ DOMAIN toServer = {1}
                           /\ Head(toServer) = toServer[1]
    <2> SUFFICES ASSUME toServer # <<>>
                 PROVE  /\ Head(toServer) \in Frame
                        /\ Head(toServer).src = c1
                        /\ Tail(toServer) = <<>>
                        /\ DOMAIN toServer = {1}
                        /\ Head(toServer) = toServer[1]
      OBVIOUS
    <2>1. \A i, j \in DOMAIN toServer : i = j
      BY <1>2, <1>3 DEF OneUnderWay
    <2>2. DOMAIN toServer = {1}
      BY <1>4, <2>1
    <2>3. Len(toServer) = 1
      BY <1>1, <2>2
    <2>4. /\ Head(toServer) \in Frame
          /\ Head(toServer) = toServer[1]
          /\ Tail(toServer) \in Seq(Frame)
          /\ Len(Tail(toServer)) = 0
      BY <1>1, <2>3, TailType
    <2>5. Tail(toServer) = <<>>
      BY <2>4, EmptySeq
    <2>6. Head(toServer).src = c1
      BY <2>4, FrameFields DEF OneTransfer
    <2> QED
      BY <2>2, <2>4, <2>5, <2>6
  <1>6. toClient[c1] # <<>> => Tail(toClient[c1]) = <<>> /\ Head(toClient[c1]) \in Status
    <2> SUFFICES ASSUME toClient[c1] # <<>>
                 PROVE  Tail(toClient[c1]) = <<>> /\ Head(toClient[c1]) \in Status
      OBVIOUS
    <2>1. Len(toClient[c1]) <= 1
      BY <1>2 DEF OneUnderWay
    <2>2. /\ Head(toClient[c1]) \in Status
          /\ Tail(toClient[c1]) \in Seq(Status)
          /\ Len(Tail(toClient[c1])) = 0
      <3>a. Len(toClient[c1]) \in Nat /\ Len(toClient[c1]) # 0
        BY <1>1
      <3>1. Len(toClient[c1]) = 1
        <4>1. \A n \in Nat : n # 0 /\ n <= 1 => n = 1
          OBVIOUS
        <4> QED
          BY ONLY <3>a, <2>1, <4>1, Zenon
      <3> QED
        BY <1>1, <3>1, TailType
    <2> QED
      BY <2>2, EmptySeq
  <1>7. /\ toServer # <<>> => toClient[c1] = <<>>
        /\ Quiet(c1) => toServer = <<>> /\ toClient[c1] = <<>>
    BY <1>2, <1>3, <1>4 DEF OneUnderWay, Quiet
  <1> QED
    BY <1>1, <1>2, <1>5, <1>6, <1>7

\* A frame that joins the empty queue is the one under way.
LEMMA OnlyFrame ==
    ASSUME NEW frame, toServer = <<>>, toServer' = Append(toServer, frame)
    PROVE  toServer' # <<>> /\ Head(toServer') = frame
  OBVIOUS

LEMMA SendReqTransfer ==
    ASSUME OneTransfer, TypeOK, TypeOK', IStopAndWait, ITransfer, SendReq(c1), UNCHANGED recvVars
    PROVE  ITransfer'
  <1>1. runs[c1] \in Nat /\ MaxRuns \in Nat /\ c1 \in Client
    BY SendAssumption DEF TypeOK, SendTypeOK, OneTransfer
  <1>2. runs[c1] = 0
    BY <1>1 DEF SendReq, OneTransfer
  <1>3. /\ toServer = <<>> /\ toClient[c1] = <<>>
        /\ streams = <<>> /\ recvCount = 0 /\ disk[Dst] \in OldContent
    BY <1>2, Traffic DEF ITransfer, ISender
  <1>4. PICK content \in Source[c1] :
            /\ src' = [src EXCEPT ![c1] = content]
            /\ fileSize' = [fileSize EXCEPT ![c1] = Len(content)]
            /\ \/ SendAndWait(c1, [src |-> c1, status |-> START,
                                   fileSize |-> Len(content), path |-> DstOf[c1]], "waitReq")
               \/ SendFails(c1)
    BY DEF SendReq
  <1>5. content \in Seq(Byte)
    BY <1>1, SendAssumption
  <1>6. /\ src'[c1] = content /\ fileSize'[c1] = Len(content) /\ Len(content) \in Nat
        /\ pos'[c1] = 0 /\ eof'[c1] = FALSE /\ count'[c1] = 0 /\ runs'[c1] = 1
    BY <1>1, <1>2, <1>4, <1>5 DEF SendReq, TypeOK, SendTypeOK
  <1>7. toClient'[c1] = <<>>
    <2>1. PICK rest \in Remainders(toClient[c1]) : toClient' = [toClient EXCEPT ![c1] = rest]
      BY DEF SendReq
    <2>2. rest = <<>>
      <3>1. toClient[c1] \in Seq(Status) /\ Len(toClient[c1]) = 0
        BY <1>3, Traffic
      <3>2. rest \in Seq(Status) /\ Len(rest) = 0
        BY <3>1, RemainderType
      <3> QED
        BY <3>2, EmptySeq
    <2> QED
      BY <1>1, <2>1, <2>2 DEF TypeOK, LinkTypeOK
  <1>8. /\ UNCHANGED <<srv, fp, streams, disk, recvCount, fileCount, sruns>>
        /\ ~Answered' /\ ISender' /\ IReceiver'
    BY <1>3, <1>6, <1>7 DEF recvVars, Answered, ISender, ITransfer, IReceiver, Dst
  <1>9. IPrefix'
    BY <1>3, <1>8 DEF IPrefix, Dst
  <1>10. CASE SendAndWait(c1, [src |-> c1, status |-> START,
                               fileSize |-> Len(content), path |-> DstOf[c1]], "waitReq")
    <2> DEFINE frame == [src |-> c1, status |-> START,
                         fileSize |-> Len(content), path |-> DstOf[c1]]
    <2>1. toServer' = Append(toServer, frame) /\ cpc'[c1] = "waitReq"
      BY <1>1, <1>10 DEF SendAndWait, TypeOK, SendTypeOK
    <2>2. toServer' # <<>> /\ Head(toServer') = frame
      BY <1>3, <2>1, OnlyFrame
    <2>3. IFrame'
      BY <1>3, <1>6, <1>8, <2>1, <2>2 DEF IFrame, IStart, Under, Dst
    <2>4. IProgress'
      BY <1>6, <1>8, <2>1 DEF IProgress, Succeeded
    <2> QED
      BY <1>8, <1>9, <2>3, <2>4 DEF ITransfer
  <1>11. CASE SendFails(c1)
    <2>1. toServer' = <<>> /\ cpc'[c1] = "done" /\ ret'[c1] = -1
      BY <1>1, <1>3, <1>11 DEF SendFails, Return, TypeOK, SendTypeOK
    <2>2. IProgress'
      BY <2>1 DEF IProgress, Succeeded
    <2> QED
      BY <1>8, <1>9, <2>1, <2>2 DEF ITransfer
  <1> QED
    BY <1>4, <1>10, <1>11

LEMMA RecvReqAckTransfer ==
    ASSUME OneTransfer, TypeOK, TypeOK', IStopAndWait, ITransfer, RecvReqAck(c1), UNCHANGED recvVars
    PROVE  ITransfer'
  <1>1. /\ c1 \in Client /\ toServer' = <<>>
        /\ toClient[c1] # <<>> /\ cpc[c1] = "waitReq"
        /\ UNCHANGED <<src, pos, eof, fileSize, count, runs>>
        /\ UNCHANGED <<srv, fp, streams, disk, recvCount, fileCount, sruns>>
    BY Traffic DEF RecvReqAck, recvVars
  <1>2. ISender' /\ IReceiver' /\ IPrefix' /\ Held' = Held /\ Sent(pos[c1])' = Sent(pos[c1])
    BY <1>1 DEF ITransfer, ISender, IReceiver, IPrefix, Held, Sent, Dst
  <1>3. CASE /\ Head(toClient[c1]) = SUCCESS
             /\ cpc' = [cpc EXCEPT ![c1] = "reading"]
    <2>1. cpc'[c1] = "reading"
      BY <1>1, <1>3 DEF TypeOK, SendTypeOK
    <2>2. srv = "up" => streams # <<>> /\ Held = Sent(pos[c1]) /\ recvCount = count[c1]
      BY <1>1, <1>3 DEF ITransfer, IProgress, Answered
    <2>3. IProgress'
      BY <1>1, <1>2, <2>1, <2>2 DEF IProgress, Succeeded
    <2> QED
      BY <1>1, <1>2, <2>3 DEF ITransfer
  <1>4. CASE /\ Head(toClient[c1]) # SUCCESS
             /\ Return(c1, Head(toClient[c1]))
    <2>1. cpc'[c1] = "done" /\ ret'[c1] # SUCCESS
      BY <1>1, <1>4 DEF Return, TypeOK, SendTypeOK
    <2>2. IProgress'
      BY <2>1 DEF IProgress, Succeeded
    <2> QED
      BY <1>1, <1>2, <2>2 DEF ITransfer
  <1> QED
    BY <1>3, <1>4 DEF RecvReqAck

LEMMA SendFileDataTransfer ==
    ASSUME OneTransfer, TypeOK, TypeOK', IStopAndWait, ITransfer, SendFileData(c1), UNCHANGED recvVars
    PROVE  ITransfer'
  <1>1. /\ c1 \in Client /\ toServer = <<>> /\ toClient[c1] = <<>> /\ cpc[c1] = "reading"
        /\ UNCHANGED <<toClient, src, fileSize, count, runs>>
        /\ UNCHANGED <<srv, fp, streams, disk, recvCount, fileCount, sruns>>
    BY Traffic DEF SendFileData, recvVars
  <1>2. PICK n \in 0 .. BytesLeft(c1), ateof \in BOOLEAN :
            /\ Fread(c1, n, ateof)
            /\ pos' = [pos EXCEPT ![c1] = @ + n]
            /\ eof' = [eof EXCEPT ![c1] = ateof]
            /\ LET buf == SubSeq(src[c1], pos[c1] + 1, pos[c1] + n) IN
               \/ SendAndWait(c1, [src |-> c1, status |-> ING,
                                   sum |-> checksum(buf), context |-> buf], "waitData")
               \/ SendFails(c1)
    BY DEF SendFileData
  <1>3. /\ src[c1] \in Seq(Byte) /\ pos[c1] \in Nat /\ Len(src[c1]) \in Nat
        /\ fileSize[c1] \in Nat /\ pos[c1] <= Len(src[c1]) /\ fileSize[c1] <= Len(src[c1])
        /\ n \in Nat /\ n <= Len(src[c1]) - pos[c1]
        /\ ateof => n = Len(src[c1]) - pos[c1]
    BY <1>1, <1>2 DEF TypeOK, SendTypeOK, ITransfer, ISender, BytesLeft, Fread
  <1>4. pos'[c1] = pos[c1] + n /\ eof'[c1] = ateof
    BY <1>1, <1>2 DEF TypeOK, SendTypeOK
  <1>5. ISender' /\ IReceiver'
    BY <1>1, <1>3, <1>4 DEF ITransfer, ISender, IReceiver, Dst
  <1>6. Held' = Held /\ \A k : Sent(k)' = Sent(k)
    BY <1>1 DEF Held, Sent, Dst
  <1>7. IPrefix'
    <2>1. \A k \in 0 .. pos[c1] : k \in 0 .. pos'[c1]
      BY <1>3, <1>4
    <2> QED
      BY <1>1, <1>6, <2>1 DEF ITransfer, IPrefix, Sent, Dst
  <1>8. ~Answered'
    BY <1>1 DEF Answered
  <1>9. CASE SendFails(c1)
    <2>1. toServer' = <<>> /\ cpc'[c1] = "done" /\ ret'[c1] = -1
      BY <1>1, <1>9 DEF SendFails, Return, TypeOK, SendTypeOK
    <2>2. IProgress'
      BY <2>1 DEF IProgress, Succeeded
    <2> QED
      BY <1>5, <1>7, <2>1, <2>2 DEF ITransfer
  <1> DEFINE buf == SubSeq(src[c1], pos[c1] + 1, pos[c1] + n)
             frame == [src |-> c1, status |-> ING, sum |-> checksum(buf), context |-> buf]
  <1>10. CASE SendAndWait(c1, frame, "waitData")
    <2>1. toServer' = Append(toServer, frame) /\ cpc'[c1] = "waitData"
      BY <1>1, <1>10 DEF SendAndWait, TypeOK, SendTypeOK
    <2>2. toServer' # <<>> /\ Head(toServer') = frame
      BY <1>1, <2>1, OnlyFrame
    <2>3. srv = "up" => streams # <<>> /\ Held = Sent(pos[c1]) /\ recvCount = count[c1]
      BY <1>1 DEF ITransfer, IProgress
    <2>4. frame.status = ING /\ frame.context = SubSeq(src'[c1], pos[c1] + 1, pos'[c1])
      BY <1>1, <1>4
    <2> HIDE DEF frame
    <2>5. IData'
      <3>1. srv' = "up" => streams' # <<>> /\ recvCount' = count'[c1]
        BY <1>1, <2>3
      <3>2. srv' = "up" => \E k \in 0 .. pos'[c1] :
                Held' = Sent(k)' /\ frame.context = SubSeq(src'[c1], k + 1, pos'[c1])
        <4>1. pos[c1] \in 0 .. pos'[c1]
          BY <1>3, <1>4
        <4> QED
          BY <1>1, <1>6, <2>3, <2>4, <4>1
      <3> QED
        BY <2>1, <2>2, <3>1, <3>2 DEF IData, Under
    <2>6. IFrame'
      BY <2>2, <2>4, <2>5 DEF IFrame, Under
    <2>7. IProgress'
      BY <1>8, <2>1 DEF IProgress, Succeeded
    <2> QED
      BY <1>5, <1>7, <2>2, <2>6, <2>7 DEF ITransfer
  <1> QED
    BY <1>2, <1>9, <1>10

LEMMA RecvDataAckTransfer ==
    ASSUME OneTransfer, TypeOK, TypeOK', IStopAndWait, ITransfer, RecvDataAck(c1), UNCHANGED recvVars
    PROVE  ITransfer'
  <1>1. /\ c1 \in Client /\ toServer' = <<>>
        /\ toClient[c1] # <<>> /\ cpc[c1] = "waitData"
        /\ UNCHANGED <<src, pos, eof, fileSize, runs>>
        /\ UNCHANGED <<srv, fp, streams, disk, recvCount, fileCount, sruns>>
    BY Traffic DEF RecvDataAck, recvVars
  <1>2. ISender' /\ IReceiver' /\ IPrefix' /\ Held' = Held /\ Sent(pos[c1])' = Sent(pos[c1])
    BY <1>1 DEF ITransfer, ISender, IReceiver, IPrefix, Held, Sent, Dst
  <1>3. CASE /\ Head(toClient[c1]) = SUCCESS
             /\ cpc' = [cpc EXCEPT ![c1] = "reading"]
             /\ count' = [count EXCEPT ![c1] = @ + 1]
    <2>1. cpc'[c1] = "reading" /\ count'[c1] = count[c1] + 1
      BY <1>1, <1>3 DEF TypeOK, SendTypeOK
    <2>2. srv = "up" => streams # <<>> /\ Held = Sent(pos[c1]) /\ recvCount = count[c1] + 1
      BY <1>1, <1>3 DEF ITransfer, IProgress, Answered
    <2>3. IProgress'
      BY <1>1, <1>2, <2>1, <2>2 DEF IProgress, Succeeded
    <2> QED
      BY <1>1, <1>2, <2>3 DEF ITransfer
  <1>4. CASE /\ Head(toClient[c1]) # SUCCESS
             /\ Return(c1, -1)
    <2>1. cpc'[c1] = "done" /\ ret'[c1] # SUCCESS
      BY <1>1, <1>4 DEF Return, TypeOK, SendTypeOK
    <2>2. IProgress'
      BY <2>1 DEF IProgress, Succeeded
    <2> QED
      BY <1>1, <1>2, <2>2 DEF ITransfer
  <1> QED
    BY <1>3, <1>4 DEF RecvDataAck

LEMMA SendEndTransfer ==
    ASSUME OneTransfer, TypeOK, TypeOK', IStopAndWait, ITransfer, SendEnd(c1), UNCHANGED recvVars
    PROVE  ITransfer'
  <1>1. /\ c1 \in Client /\ toServer = <<>> /\ toClient[c1] = <<>>
        /\ cpc[c1] = "reading" /\ eof[c1]
        /\ UNCHANGED <<toClient, src, pos, eof, fileSize, count, runs>>
        /\ UNCHANGED <<srv, fp, streams, disk, recvCount, fileCount, sruns>>
    BY Traffic DEF SendEnd, recvVars
  <1>2. /\ ISender' /\ IReceiver' /\ IPrefix'
        /\ Held' = Held /\ Sent(pos[c1])' = Sent(pos[c1]) /\ ~Answered'
    BY <1>1 DEF ITransfer, ISender, IReceiver, IPrefix, Held, Sent, Dst, Answered
  <1>3. CASE SendAndWait(c1, [src |-> c1, status |-> END], "waitEnd")
    <2>1. toServer' = Append(toServer, [src |-> c1, status |-> END]) /\ cpc'[c1] = "waitEnd"
      BY <1>1, <1>3 DEF SendAndWait, TypeOK, SendTypeOK
    <2>2. toServer' # <<>> /\ Under' = [src |-> c1, status |-> END]
      BY <1>1, <2>1, OnlyFrame DEF Under
    <2>3. srv = "up" => streams # <<>> /\ Held = Sent(pos[c1]) /\ recvCount = count[c1]
      BY <1>1 DEF ITransfer, IProgress
    <2>4. IFrame'
      BY <1>1, <1>2, <2>1, <2>2, <2>3 DEF IFrame, IEnd
    <2>5. IProgress'
      BY <1>1, <1>2, <2>1 DEF IProgress, Succeeded
    <2> QED
      BY <1>2, <2>4, <2>5 DEF ITransfer
  <1>4. CASE SendFails(c1)
    <2>1. toServer' = <<>> /\ cpc'[c1] = "done" /\ ret'[c1] = -1
      BY <1>1, <1>4 DEF SendFails, Return, TypeOK, SendTypeOK
    <2>2. IProgress'
      BY <2>1 DEF IProgress, Succeeded
    <2> QED
      BY <1>2, <2>1, <2>2 DEF ITransfer
  <1> QED
    BY <1>3, <1>4 DEF SendEnd

LEMMA RecvEndAckTransfer ==
    ASSUME OneTransfer, TypeOK, TypeOK', IStopAndWait, ITransfer, RecvEndAck(c1), UNCHANGED recvVars
    PROVE  ITransfer'
  <1>1. /\ c1 \in Client /\ toServer' = <<>>
        /\ toClient[c1] # <<>> /\ cpc[c1] = "waitEnd"
        /\ UNCHANGED <<src, pos, eof, fileSize, count, runs>>
        /\ UNCHANGED <<srv, fp, streams, disk, recvCount, fileCount, sruns>>
    BY Traffic DEF RecvEndAck, recvVars
  <1>2. /\ ISender' /\ IReceiver' /\ IPrefix' /\ Complete' = Complete
    BY <1>1 DEF ITransfer, ISender, IReceiver, IPrefix, Held, Sent, Dst, Complete
  <1>3. cpc'[c1] = "done" /\ ret'[c1] = Head(toClient[c1])
    BY <1>1 DEF RecvEndAck, Return, TypeOK, SendTypeOK
  <1>4. Head(toClient[c1]) = SUCCESS => Complete
    BY <1>1 DEF ITransfer, IProgress, Answered
  <1>5. IProgress'
    BY <1>1, <1>2, <1>3, <1>4 DEF IProgress, Succeeded
  <1> QED
    BY <1>1, <1>2, <1>5 DEF ITransfer

\* A client that gives up or is killed may leave its frame behind.
LEMMA GiveUpTransfer ==
    ASSUME OneTransfer, TypeOK, TypeOK', IStopAndWait, ITransfer,
           AckRecvFails(c1) \/ ClientKilled(c1), UNCHANGED recvVars
    PROVE  ITransfer'
  <1>1. /\ c1 \in Client /\ UNCHANGED linkVars
        /\ cpc'[c1] \in NotRunning /\ ret'[c1] = -1
        /\ UNCHANGED <<src, pos, eof, fileSize, count, runs>>
        /\ UNCHANGED <<srv, fp, streams, disk, recvCount, fileCount, sruns>>
    BY DEF AckRecvFails, ClientKilled, Return, recvVars, NotRunning, TypeOK, SendTypeOK, OneTransfer
  <1>2. /\ ISender' /\ IReceiver' /\ IPrefix' /\ toServer' = toServer
    BY <1>1 DEF ITransfer, ISender, IReceiver, IPrefix, Held, Sent, Dst, linkVars
  <1>3. Held' = Held /\ \A n : Sent(n)' = Sent(n)
    BY <1>1 DEF Held, Sent, Dst
  <1>4. toServer # <<>> => IFrame'
    <2>1. toServer # <<>> => IFrame
      BY DEF ITransfer
    <2>2. IStart => IStart'
      BY <1>1, <1>2 DEF IStart, Under, Dst, NotRunning
    <2>3. IData => IData'
      BY <1>1, <1>2, <1>3 DEF IData, Under, Good, NotRunning
    <2>4. IEnd => IEnd'
      BY <1>1, <1>2, <1>3 DEF IEnd, Under, NotRunning
    <2> QED
      BY <1>2, <2>1, <2>2, <2>3, <2>4 DEF IFrame, Under
  <1>5. IProgress'
    BY <1>1 DEF IProgress, Succeeded, NotRunning
  <1> QED
    BY <1>2, <1>4, <1>5 DEF ITransfer

\* A source that grows at its end keeps the pieces that were sent.
LEMMA FileGrowsTransfer ==
    ASSUME OneTransfer, TypeOK, TypeOK', IStopAndWait, ITransfer, FileGrows(c1), UNCHANGED recvVars
    PROVE  ITransfer'
  <1>1. /\ c1 \in Client /\ UNCHANGED linkVars
        /\ UNCHANGED <<cpc, ret, pos, eof, fileSize, count, runs>>
        /\ UNCHANGED <<srv, fp, streams, disk, recvCount, fileCount, sruns>>
    BY DEF FileGrows, recvVars, OneTransfer
  <1>2. PICK b \in Byte : src' = [src EXCEPT ![c1] = Append(@, b)]
    BY DEF FileGrows
  <1>3. /\ src[c1] \in Seq(Byte) /\ src'[c1] = Append(src[c1], b)
        /\ pos[c1] \in Nat /\ fileSize[c1] \in Nat
        /\ pos[c1] <= Len(src[c1]) /\ fileSize[c1] <= Len(src[c1])
        /\ cpc[c1] # "idle" /\ ~Succeeded(c1)
    BY <1>1, <1>2 DEF TypeOK, SendTypeOK, ITransfer, ISender, FileGrows, NotRunning, Succeeded
  <1>4. Len(src'[c1]) = Len(src[c1]) + 1
    BY <1>3
  <1>5. ISender' /\ IReceiver' /\ UNCHANGED <<toServer, toClient>>
    BY <1>1, <1>3, <1>4 DEF ITransfer, ISender, IReceiver, Dst, linkVars
  <1>6. ASSUME NEW n \in 0 .. pos[c1]
        PROVE  Sent(n)' = Sent(n) /\ SubSeq(src'[c1], n + 1, pos[c1]) = SubSeq(src[c1], n + 1, pos[c1])
    <2>1. n \in 0 .. Len(src[c1]) /\ 1 \in 1 .. n + 1
      BY <1>3
    <2>2. pos[c1] \in 0 .. Len(src[c1]) /\ n + 1 \in 1 .. pos[c1] + 1
      BY <1>3
    <2>3. SubSeq(Append(src[c1], b), 1, n) = SubSeq(src[c1], 1, n)
      BY <1>3, <2>1, SubSeqAppend
    <2>4. SubSeq(Append(src[c1], b), n + 1, pos[c1]) = SubSeq(src[c1], n + 1, pos[c1])
      BY <1>3, <2>2, SubSeqAppend
    <2> QED
      BY <1>3, <2>3, <2>4 DEF Sent
  <1>7. Held' = Held /\ Sent(pos[c1])' = Sent(pos[c1]) /\ Under' = Under
    <2>1. pos[c1] \in 0 .. pos[c1]
      BY <1>3
    <2> QED
      BY <1>1, <1>5, <1>6, <2>1 DEF Held, Dst, Under, Sent
  <1>8. IPrefix'
    BY <1>1, <1>6, <1>7 DEF ITransfer, IPrefix, Dst
  <1>9. toServer # <<>> => IFrame'
    <2>1. toServer # <<>> => IFrame
      BY DEF ITransfer
    <2>2. IStart => IStart'
      BY <1>1, <1>7 DEF IStart, Dst
    <2>3. IData => IData'
      BY <1>1, <1>6, <1>7 DEF IData, Good
    <2>4. IEnd => IEnd'
      BY <1>1, <1>7 DEF IEnd
    <2> QED
      BY <1>7, <2>1, <2>2, <2>3, <2>4 DEF IFrame
  <1>10. IProgress'
    <2>1. Complete' = Complete /\ Answered' = Answered /\ Succeeded(c1)' = Succeeded(c1)
      BY <1>1, <1>5, <1>7 DEF Complete, Answered, Succeeded, Dst
    <2> QED
      BY <1>1, <1>5, <1>7, <2>1 DEF ITransfer, IProgress
  <1> QED
    BY <1>5, <1>8, <1>9, <1>10 DEF ITransfer

-----------------------------------------------------------------------------
(* The steps of the receiver.                                              *)

\* The frame under way is answered: the queue is empty, the answer is alone.
LEMMA AnswerAlone ==
    ASSUME OneTransfer, TypeOK, IStopAndWait, toServer # <<>>, NEW status \in Status,
           Answer(Head(toServer), status)
    PROVE  toServer' = <<>> /\ toClient'[c1] = <<status>>
  <1>1. /\ c1 \in Client /\ Under.src = c1 /\ Tail(toServer) = <<>> /\ toClient[c1] = <<>>
    BY Traffic DEF Under
  <1>2. toServer' = <<>> /\ toClient' = [toClient EXCEPT ![c1] = Append(@, status)]
    BY <1>1 DEF Answer, Under
  <1>3. toClient'[c1] = Append(toClient[c1], status)
    BY <1>1, <1>2 DEF TypeOK, LinkTypeOK
  <1> QED
    BY <1>1, <1>2, <1>3

\* ret < 0: the receiver answers FAIL and leaves its loop.
LEMMA RefuseTransfer ==
    ASSUME OneTransfer, TypeOK, IStopAndWait, ITransfer, UNCHANGED <<sendVars, sruns>>,
           srv = "up", toServer # <<>>, Refuse(Head(toServer)), IReceiver', IPrefix'
    PROVE  ITransfer'
  <1>1. UNCHANGED <<cpc, ret, src, pos, eof, fileSize, count, runs>>
    BY DEF sendVars
  <1>2. runs[c1] # 0 /\ cpc[c1] # "reading"
    BY Traffic
  <1>3. toServer' = <<>> /\ toClient'[c1] = <<FAIL>> /\ srv' = "quit"
    BY AnswerAlone DEF Refuse, Status
  <1>4. ISender'
    BY <1>1, <1>2 DEF ITransfer, ISender
  <1>5. ~Succeeded(c1) /\ ~Answered'
    BY <1>3 DEF ITransfer, IProgress, Answered
  <1>6. IProgress'
    BY <1>1, <1>3, <1>5 DEF ITransfer, IProgress, Succeeded
  <1> QED
    BY <1>3, <1>4, <1>6 DEF ITransfer

LEMMA CreateFileTransfer ==
    ASSUME OneTransfer, TypeOK, TypeOK', IStopAndWait, ITransfer, UNCHANGED sendVars,
           CreateFile \/ CreateFileFails
    PROVE  ITransfer'
  <1>1. toServer # <<>> /\ Under.status = START /\ srv = "up" /\ IStart
    BY DEF CreateFile, CreateFileFails, Reads, ITransfer, IFrame, Under
  <1>2. /\ UNCHANGED <<cpc, ret, src, pos, eof, fileSize, count, runs>>
        /\ runs[c1] # 0 /\ pos[c1] \in Nat /\ Dst \in Path /\ c1 \in Client
        /\ UNCHANGED <<recvCount, sruns>>
    BY <1>1, Traffic, SendAssumption
       DEF CreateFile, CreateFileFails, sendVars, TypeOK, SendTypeOK, Dst
  <1>3. /\ streams = <<>> /\ recvCount = 0 /\ pos[c1] = 0 /\ count[c1] = 0
        /\ cpc[c1] \in {"waitReq"} \cup NotRunning
        /\ Under.path = Dst
    BY <1>1 DEF IStart
  <1>4. ~Succeeded(c1)
    BY <1>1 DEF ITransfer, IProgress
  <1>5. ISender' /\ \A n : Sent(n)' = Sent(n)
    BY <1>2 DEF ITransfer, ISender, Sent
  <1>6. CASE CreateFile
    <2>1. toServer' = <<>> /\ toClient'[c1] = <<SUCCESS>> /\ srv' = "up"
      BY <1>1, <1>6, AnswerAlone DEF CreateFile, Accept, Status
    <2>2. /\ disk' = [disk EXCEPT ![Dst] = <<>>]
          /\ streams' = <<[path |-> Dst, off |-> 0, buf |-> <<>>]>>
          /\ fp' = 1
      <3> DEFINE new == [path |-> Dst, off |-> 0, buf |-> <<>>]
      <3>1. /\ disk' = [disk EXCEPT ![Dst] = <<>>]
            /\ streams' = Append(streams, new)
            /\ fp' = Len(streams) + 1
        BY <1>3, <1>6 DEF CreateFile, Under
      <3> HIDE DEF new
      <3>2. streams' = <<new>> /\ fp' = 1
        BY <1>3, <3>1
      <3> QED
        BY <3>1, <3>2 DEF new
    <2>3. /\ disk'[Dst] = <<>> /\ Len(streams') = 1 /\ streams' # <<>>
          /\ streams'[1].path = Dst /\ streams'[1].off = 0 /\ streams'[1].buf = <<>>
      BY <1>2, <2>2 DEF TypeOK, RecvTypeOK
    <2>4. IReceiver'
      BY <1>2, <2>1, <2>2, <2>3 DEF ITransfer, IReceiver, Dst
    <2>5. Held' = <<>> /\ Sent(0) = <<>>
      <3>1. Held' = <<>> \o <<>>
        BY <2>3 DEF Held, Dst
      <3> QED
        BY <3>1 DEF Sent
    <2>6. IPrefix'
      <3>1. 0 \in 0 .. pos'[c1] /\ Held' = Sent(0)'
        BY <1>2, <1>5, <2>5
      <3> QED
        BY <2>3, <3>1 DEF IPrefix
    <2>7. IProgress'
      BY <1>2, <1>3, <1>4, <1>5, <2>1, <2>3, <2>5 DEF IProgress, NotRunning, Succeeded
    <2> QED
      BY <1>5, <2>1, <2>4, <2>6, <2>7 DEF ITransfer
  <1>7. CASE CreateFileFails
    <2>1. Refuse(Head(toServer)) /\ UNCHANGED <<streams, disk>>
      BY <1>7 DEF CreateFileFails
    <2>2. IReceiver'
      BY <1>2, <1>3, <2>1 DEF ITransfer, IReceiver, Refuse
    <2>3. IPrefix'
      BY <1>1, <1>3, <2>1 DEF ITransfer, IPrefix, Dst
    <2> QED
      BY <1>1, <1>2, <2>1, <2>2, <2>3, RefuseTransfer
  <1> QED
    BY <1>6, <1>7

\* What the data frame under way adds to what is held.
LEMMA DataFrame1 ==
    ASSUME OneTransfer, TypeOK, IStopAndWait, ITransfer, Reads(ING), Good(Under)
    PROVE  /\ streams # <<>> /\ fp = 1 /\ recvCount = count[c1]
           /\ Under.context \in Seq(Byte)
           /\ Held \o Under.context = Sent(pos[c1])
           /\ \A taken \in 0 .. Len(Under.context) :
                  \E n \in 0 .. pos[c1] : Held \o SubSeq(Under.context, 1, taken) = Sent(n)
  <1>1. /\ toServer # <<>> /\ Under.status = ING /\ srv = "up" /\ IData
        /\ Under \in Frame /\ c1 \in Client
    BY Traffic DEF Reads, ITransfer, IFrame, Under
  <1>2. PICK n \in 0 .. pos[c1] :
            Held = Sent(n) /\ Under.context = SubSeq(src[c1], n + 1, pos[c1])
    BY <1>1 DEF IData
  <1>3. streams # <<>> /\ fp = 1 /\ recvCount = count[c1]
    BY <1>1, OneStream DEF IData, ITransfer
  <1>4. src[c1] \in Seq(Byte) /\ pos[c1] \in Nat /\ pos[c1] <= Len(src[c1]) /\ Len(src[c1]) \in Nat
    BY <1>1 DEF TypeOK, SendTypeOK, ITransfer, ISender
  <1>5. Under.context \in Seq(Byte) /\ Len(Under.context) = pos[c1] - n
    <2>1. n + 1 \in 1 .. Len(src[c1]) + 1 /\ pos[c1] \in (n + 1) - 1 .. Len(src[c1])
      BY <1>4
    <2> QED
      BY <1>2, <1>4, <2>1, SubSeqType
  <1>6. ASSUME NEW m \in n .. pos[c1]
        PROVE  Sent(n) \o SubSeq(src[c1], n + 1, m) = Sent(m)
    <2>1. 1 \in 1 .. Len(src[c1]) + 1 /\ n \in 1 - 1 .. Len(src[c1]) /\ m \in n .. Len(src[c1])
      BY <1>4
    <2> QED
      BY <1>4, <2>1, ConcatAdjacentSubSeq DEF Sent
  <1>7. Held \o Under.context = Sent(pos[c1])
    <2>1. pos[c1] \in n .. pos[c1]
      BY <1>4
    <2> QED
      BY <1>2, <1>6, <2>1
  <1>8. ASSUME NEW taken \in 0 .. Len(Under.context)
        PROVE  \E m \in 0 .. pos[c1] : Held \o SubSeq(Under.context, 1, taken) = Sent(m)
    <2>1. /\ n + 1 \in 1 .. Len(src[c1]) + 1 /\ pos[c1] \in (n + 1) - 1 .. Len(src[c1])
          /\ taken \in 0 .. pos[c1] - (n + 1) + 1
      BY <1>4, <1>5
    <2>2. SubSeq(Under.context, 1, taken) = SubSeq(src[c1], n + 1, (n + 1) + taken - 1)
      BY <1>2, <1>4, <2>1, PieceOfPiece
    <2>3. /\ (n + 1) + taken - 1 = n + taken
          /\ n + taken \in n .. pos[c1] /\ n + taken \in 0 .. pos[c1]
      BY <1>4, <1>5
    <2>4. Held \o SubSeq(Under.context, 1, taken) = Sent(n + taken)
      BY <1>2, <1>6, <2>2, <2>3
    <2> QED
      BY <2>3, <2>4
  <1> QED
    BY <1>3, <1>5, <1>7, <1>8

LEMMA RecvFileDataTransfer ==
    ASSUME OneTransfer, TypeOK, TypeOK', IStopAndWait, ITransfer, UNCHANGED sendVars, RecvFileData
    PROVE  ITransfer'
  <1>1. /\ toServer # <<>> /\ Reads(ING) /\ Good(Under) /\ srv = "up" /\ IData
    BY DEF RecvFileData, Reads, ITransfer, IFrame, Under, Good
  <1>2. /\ UNCHANGED <<cpc, ret, src, pos, eof, fileSize, count, runs>>
        /\ runs[c1] # 0 /\ pos[c1] \in Nat /\ c1 \in Client
        /\ UNCHANGED <<fp, sruns>> /\ recvCount' = recvCount + 1
    BY <1>1, Traffic DEF RecvFileData, sendVars, TypeOK, SendTypeOK
  <1>3. /\ streams # <<>> /\ fp = 1 /\ recvCount = count[c1]
        /\ Under.context \in Seq(Byte) /\ Held \o Under.context = Sent(pos[c1])
    BY <1>1, DataFrame1
  <1>4. toServer' = <<>> /\ toClient'[c1] = <<SUCCESS>> /\ srv' = "up"
    BY <1>1, AnswerAlone DEF RecvFileData, Accept, Status, Under
  <1>5. \E n \in 0 .. Len(streams[fp].buf) + Len(Under.context) : PutAndDrain(fp, Under.context, n)
    <2>1. \/ \E n \in 0 .. Len(streams[fp].buf) + Len(Under.context) : PutAndDrain(fp, Under.context, n)
          \/ fp = 0
      BY Zenon DEF RecvFileData, Under
    <2>2. fp # 0
      BY <1>3
    <2> QED
      BY ONLY <2>1, <2>2, Zenon
  <1>6. fp # 0 /\ IReceiver
    BY <1>3 DEF ITransfer
  <1>7. /\ streams' # <<>> /\ Len(streams') = 1
        /\ streams'[1].path = Dst
        /\ streams'[1].off = Len(disk'[Dst])
        /\ Held' = Sent(pos[c1])
    BY <1>1, <1>3, <1>5, <1>6, DrainHeld
  <1>8. ISender' /\ \A n : Sent(n)' = Sent(n)
    BY <1>2 DEF ITransfer, ISender, Sent
  <1>9. IReceiver'
    BY <1>2, <1>3, <1>4, <1>6, <1>7 DEF IReceiver, Dst
  <1>10. IPrefix'
    <2>1. pos'[c1] \in 0 .. pos'[c1] /\ Held' = SubSeq(src'[c1], 1, pos'[c1])
      BY <1>2, <1>7 DEF Sent
    <2> QED
      BY <1>7, <2>1 DEF IPrefix, Sent
  <1>11. IProgress'
    <2>1. ~Succeeded(c1) /\ cpc[c1] \in {"waitData"} \cup NotRunning
      BY <1>1 DEF ITransfer, IProgress, IData
    <2>2. Held' = Sent(pos[c1])'
      BY <1>2, <1>7, <1>8
    <2> QED
      BY <1>2, <1>3, <1>4, <1>7, <2>1, <2>2 DEF IProgress, NotRunning, Succeeded
  <1> QED
    BY <1>4, <1>8, <1>9, <1>10, <1>11 DEF ITransfer

\* A damaged frame, or a full disk.
LEMMA BadDataTransfer ==
    ASSUME OneTransfer, TypeOK, TypeOK', IStopAndWait, ITransfer, UNCHANGED sendVars,
           ChecksumFails \/ FwriteFails
    PROVE  ITransfer'
  <1>1. /\ toServer # <<>> /\ Reads(ING) /\ srv = "up" /\ IData /\ streams # <<>>
        /\ Refuse(Head(toServer)) /\ UNCHANGED <<fp, sruns, pos, src>>
    BY DEF ChecksumFails, FwriteFails, Reads, ITransfer, IFrame, Under, IData, sendVars
  <1>2. srv' = "quit" /\ \A n : Sent(n)' = Sent(n)
    BY <1>1 DEF Refuse, Sent
  <1>3. CASE ChecksumFails
    <2>1. UNCHANGED <<streams, disk>>
      BY <1>3 DEF ChecksumFails
    <2>2. IReceiver' /\ Held' = Held
      BY <1>1, <1>2, <2>1 DEF ITransfer, IReceiver, Held, Dst
    <2>3. IPrefix'
      BY <1>1, <1>2, <2>1, <2>2 DEF ITransfer, IPrefix
    <2> QED
      BY <1>1, <2>2, <2>3, RefuseTransfer
  <1>4. CASE FwriteFails
    <2>1. Good(Under)
      BY <1>4 DEF FwriteFails, Good, Under
    <2>2. /\ fp = 1 /\ Under.context \in Seq(Byte)
          /\ \A taken \in 0 .. Len(Under.context) :
                 \E n \in 0 .. pos[c1] : Held \o SubSeq(Under.context, 1, taken) = Sent(n)
      BY <1>1, <2>1, DataFrame1
    <2>3. PICK taken \in 0 .. Len(Under.context) - 1 :
              \E n \in 0 .. Len(streams[fp].buf) + taken :
                  PutAndDrain(fp, SubSeq(Under.context, 1, taken), n)
      BY <1>4 DEF FwriteFails, Under
    <2>4. taken \in 0 .. Len(Under.context)
      BY <2>2
    <2>5. SubSeq(Under.context, 1, taken) \in Seq(Byte) /\ Len(SubSeq(Under.context, 1, taken)) = taken
      BY <2>2, <2>4, SubSeqType
    <2>6. IReceiver
      BY DEF ITransfer
    <2>7. /\ streams' # <<>> /\ Len(streams') = 1
          /\ streams'[1].path = Dst
          /\ streams'[1].off = Len(disk'[Dst])
          /\ Held' = Held \o SubSeq(Under.context, 1, taken)
      <3> DEFINE bytes == SubSeq(Under.context, 1, taken)
      <3>1. PICK n \in 0 .. Len(streams[fp].buf) + Len(bytes) : PutAndDrain(fp, bytes, n)
        BY <2>3, <2>5
      <3>2. bytes \in Seq(Byte) /\ fp # 0 /\ srv = "up"
        BY <1>1, <2>2, <2>5
      <3> HIDE DEF bytes
      <3>3. Held' = Held \o bytes /\ streams' # <<>> /\ Len(streams') = 1
            /\ streams'[1].path = Dst /\ streams'[1].off = Len(disk'[Dst])
        BY <2>6, <3>1, <3>2, DrainHeld
      <3> QED
        BY <3>3 DEF bytes
    <2>8. IReceiver'
      BY <1>1, <1>2, <2>6, <2>7 DEF IReceiver, Dst
    <2>9. IPrefix'
      BY <1>1, <1>2, <2>2, <2>4, <2>7 DEF IPrefix
    <2> QED
      BY <1>1, <2>8, <2>9, RefuseTransfer
  <1> QED
    BY <1>3, <1>4

LEMMA RecvEndTransfer ==
    ASSUME OneTransfer, TypeOK, TypeOK', IStopAndWait, ITransfer, UNCHANGED sendVars,
           RecvEnd \/ FflushFails
    PROVE  ITransfer'
  <1>1. /\ toServer # <<>> /\ srv = "up" /\ IEnd
        /\ UNCHANGED <<fp, sruns, recvCount>>
        /\ srv' = "quit" /\ IReceiver
    BY DEF RecvEnd, FflushFails, Refuse, Reads, ITransfer, IFrame, Under
  <1>2. /\ UNCHANGED <<cpc, ret, src, pos, eof, fileSize, count, runs>>
        /\ runs[c1] # 0 /\ pos[c1] \in Nat /\ c1 \in Client
    BY <1>1, Traffic DEF sendVars, TypeOK, SendTypeOK
  <1>3. /\ streams # <<>> /\ Held = Sent(pos[c1]) /\ recvCount = count[c1] /\ eof[c1]
        /\ cpc[c1] \in {"waitEnd"} \cup NotRunning
    BY <1>1 DEF IEnd
  <1>4. fp = 1 /\ streams[1].buf \in Seq(Byte) /\ disk[Dst] \in Seq(Byte)
        /\ Held = disk[Dst] \o streams[1].buf
    BY <1>1, <1>3, OneStream
  <1>5. Held \in Seq(Byte) /\ Held \o <<>> = Held /\ <<>> \in Seq(Byte) /\ Len(<<>>) = 0
    BY <1>4, ConcatEmptySeq
  <1>6. PICK n \in 0 .. Len(streams[1].buf) :
            PutAndDrain(fp, <<>>, n) /\ (RecvEnd => n = Len(streams[1].buf))
    <2>1. CASE RecvEnd
      BY <1>4, <2>1 DEF RecvEnd
    <2>2. CASE FflushFails /\ ~RecvEnd
      <3>1. PICK n \in 0 .. Len(streams[1].buf) - 1 : PutAndDrain(fp, <<>>, n)
        BY <1>4, <2>2 DEF FflushFails
      <3> QED
        BY <1>4, <2>2, <3>1
    <2> QED
      BY <2>1, <2>2
  <1>7. n \in 0 .. Len(streams[fp].buf) + Len(<<>>) /\ fp # 0
    BY <1>4, <1>5
  <1>8. /\ streams' # <<>> /\ Len(streams') = 1
        /\ streams'[1].path = Dst
        /\ streams'[1].off = Len(disk'[Dst])
        /\ Held' = Held
        /\ RecvEnd => streams'[1].buf = <<>> /\ disk'[Dst] = Held
    <2>1. PICK bytes \in Seq(Byte) : bytes = <<>> /\ Len(bytes) = 0
      BY <1>5
    <2>2. /\ n \in 0 .. Len(streams[fp].buf) + Len(bytes) /\ fp # 0 /\ srv = "up"
          /\ PutAndDrain(fp, bytes, n)
          /\ RecvEnd => n = Len(streams[1].buf) + Len(bytes)
      BY <1>1, <1>4, <1>6, <1>7, <2>1
    <2>3. /\ streams' # <<>> /\ Len(streams') = 1
          /\ streams'[1].path = Dst
          /\ streams'[1].off = Len(disk'[Dst])
          /\ Held' = Held \o bytes
          /\ RecvEnd => streams'[1].buf = <<>> /\ disk'[Dst] = Held \o bytes
      BY <1>1, <2>2, DrainHeld
    <2> QED
      BY <1>5, <2>1, <2>3
  <1>9. IReceiver'
    BY <1>1, <1>8 DEF IReceiver, Dst
  <1>10. \A k : Sent(k)' = Sent(k)
    BY <1>2 DEF Sent
  <1>11. IPrefix'
    <2>1. pos'[c1] \in 0 .. pos'[c1] /\ Held' = SubSeq(src'[c1], 1, pos'[c1])
      BY <1>2, <1>3, <1>8 DEF Sent
    <2> QED
      BY <1>8, <2>1 DEF IPrefix, Sent
  <1>12. CASE RecvEnd
    <2>1. toServer' = <<>> /\ toClient'[c1] = <<SUCCESS>>
      BY <1>1, <1>12, AnswerAlone DEF RecvEnd, Status
    <2>2. ISender'
      BY <1>2 DEF ITransfer, ISender
    <2>3. Complete'
      <3>1. disk'[Dst] = Sent(pos[c1])'
        BY <1>2, <1>3, <1>8, <1>12 DEF Sent
      <3> QED
        BY <1>1, <1>2, <1>3, <1>8, <1>12, <3>1 DEF Complete, Dst
    <2>4. ~Succeeded(c1)
      BY <1>1 DEF ITransfer, IProgress
    <2>5. IProgress'
      BY <1>1, <1>2, <1>3, <2>1, <2>3, <2>4 DEF IProgress, Succeeded, NotRunning
    <2> QED
      BY <1>9, <1>11, <2>1, <2>2, <2>5 DEF ITransfer
  <1>13. CASE FflushFails
    BY <1>1, <1>9, <1>11, <1>13, RefuseTransfer DEF FflushFails
  <1> QED
    BY <1>12, <1>13

\* recvfrom fails, or the process is killed: whatever is under way stays so.
LEMMA RecvFailsTransfer ==
    ASSUME OneTransfer, TypeOK, TypeOK', IStopAndWait, ITransfer, UNCHANGED sendVars, RecvFails
    PROVE  ITransfer'
  <1>1. /\ srv = "up" /\ srv' = "quit" /\ UNCHANGED <<toServer, toClient, Under>>
        /\ UNCHANGED <<fp, streams, disk, recvCount, sruns>>
        /\ UNCHANGED <<cpc, ret, src, pos, eof, fileSize, count, runs>>
    BY DEF RecvFails, linkVars, sendVars, Under
  <1>2. ISender' /\ IReceiver' /\ Held' = Held /\ \A n : Sent(n)' = Sent(n)
    BY <1>1 DEF ITransfer, ISender, IReceiver, Held, Sent, Dst
  <1>3. IPrefix'
    BY <1>1, <1>2 DEF ITransfer, IPrefix, Dst
  <1>4. toServer # <<>> => IFrame'
    BY <1>1 DEF ITransfer, IFrame, IStart, IData, IEnd, Dst
  <1>5. IProgress'
    BY <1>1 DEF ITransfer, IProgress, Answered, Succeeded, Complete
  <1> QED
    BY <1>1, <1>2, <1>3, <1>4, <1>5 DEF ITransfer

LEMMA CloseStreamTransfer ==
    ASSUME OneTransfer, TypeOK, TypeOK', IStopAndWait, ITransfer, UNCHANGED sendVars, CloseStream
    PROVE  ITransfer'
  <1>1. /\ srv = "quit" /\ UNCHANGED <<srv, toServer, toClient, Under>>
        /\ fp' = 0 /\ UNCHANGED <<recvCount, sruns>>
        /\ UNCHANGED <<cpc, ret, src, pos, eof, fileSize, count, runs>>
        /\ pos[c1] \in Nat /\ src[c1] \in Seq(Byte) /\ pos[c1] <= Len(src[c1])
    BY Traffic DEF CloseStream, linkVars, sendVars, Under, TypeOK, SendTypeOK, ITransfer, ISender
  <1>2. /\ streams # <<>> /\ streams' = <<>>
        /\ \E k \in 0 .. Len(Held) : disk'[Dst] = SubSeq(Held, 1, k)
        /\ streams[1].buf = <<>> => disk'[Dst] = disk[Dst]
    BY CloseHeld DEF ITransfer
  <1>3. \A n : Sent(n)' = Sent(n)
    BY <1>1 DEF Sent
  <1>4. IReceiver' /\ ISender'
    BY <1>1, <1>2 DEF ITransfer, IReceiver, ISender
  <1>5. IPrefix'
    <2>1. PICK n \in 0 .. pos[c1] : Held = Sent(n)
      BY <1>2 DEF ITransfer, IPrefix
    <2>2. PICK k \in 0 .. Len(Held) : disk'[Dst] = SubSeq(Held, 1, k)
      BY <1>2
    <2>3. k \in 0 .. pos[c1] /\ disk'[Dst] = Sent(k)
      BY <1>1, <2>1, <2>2, BeginningOfSent
    <2>4. \E m \in 0 .. pos'[c1] : disk'[Dst] = Sent(m)'
      BY <1>1, <1>3, <2>3
    <2> QED
      BY <1>1, <1>2, <2>4 DEF IPrefix, Dst
  <1>6. toServer # <<>> => IFrame'
    BY <1>1, <1>2 DEF ITransfer, IFrame, IStart, IData, IEnd
  <1>7. IProgress'
    <2>1. Complete => Complete'
      BY <1>1, <1>2, <1>3 DEF Complete, Dst
    <2> QED
      BY <1>1, <2>1 DEF ITransfer, IProgress, Answered, Succeeded
  <1> QED
    BY <1>1, <1>4, <1>5, <1>6, <1>7 DEF ITransfer

LEMMA ExitTransfer ==
    ASSUME OneTransfer, TypeOK, TypeOK', IStopAndWait, ITransfer, UNCHANGED sendVars, Exit
    PROVE  ITransfer'
  <1>1. /\ srv = "quit" /\ srv' = "off" /\ streams = <<>>
        /\ UNCHANGED <<toServer, toClient, Under, fp, streams, disk, recvCount, sruns>>
        /\ UNCHANGED <<cpc, ret, src, pos, eof, fileSize, count, runs>>
    BY DEF Exit, linkVars, sendVars, Under
  <1>2. ISender' /\ IReceiver' /\ \A n : Sent(n)' = Sent(n)
    BY <1>1 DEF ITransfer, ISender, IReceiver, Sent
  <1>3. IPrefix'
    BY <1>1, <1>2 DEF ITransfer, IPrefix, Dst
  <1>4. toServer # <<>> => IFrame'
    BY <1>1 DEF ITransfer, IFrame, IStart, IData, IEnd, Dst
  <1>5. IProgress'
    <2>1. Complete => Complete'
      BY <1>1, <1>2 DEF Complete, Dst
    <2> QED
      BY <1>1, <2>1 DEF ITransfer, IProgress, Answered, Succeeded
  <1> QED
    BY <1>1, <1>2, <1>3, <1>4, <1>5 DEF ITransfer

\* A killed receiver loses what it buffered, and what is on disk stays a
\* beginning of the source.
LEMMA ServerKilledTransfer ==
    ASSUME OneTransfer, TypeOK, TypeOK', IStopAndWait, ITransfer, UNCHANGED sendVars, ServerKilled
    PROVE  ITransfer'
  <1>1. /\ srv' = "off" /\ fp' = 0 /\ streams' = <<>>
        /\ UNCHANGED <<toServer, toClient, Under, disk, recvCount, sruns>>
        /\ UNCHANGED <<cpc, ret, src, pos, eof, fileSize, count, runs>>
        /\ pos[c1] \in Nat /\ src[c1] \in Seq(Byte) /\ pos[c1] <= Len(src[c1])
    BY Traffic DEF ServerKilled, linkVars, sendVars, Under, TypeOK, SendTypeOK, ITransfer, ISender
  <1>2. ISender' /\ IReceiver'
    BY <1>1 DEF ITransfer, ISender, IReceiver
  <1>3. \A n : Sent(n)' = Sent(n)
    BY <1>1 DEF Sent
  <1>4. IPrefix'
    <2>1. CASE streams = <<>>
      <3>1. disk[Dst] \in OldContent \/ \E n \in 0 .. pos[c1] : disk[Dst] = Sent(n)
        BY <2>1 DEF ITransfer, IPrefix
      <3> QED
        BY <1>1, <1>3, <3>1 DEF IPrefix, Dst
    <2>2. CASE streams # <<>>
      <3>1. PICK n \in 0 .. pos[c1] : Held = Sent(n)
        BY <2>2 DEF ITransfer, IPrefix
      <3>2. /\ disk[Dst] \in Seq(Byte) /\ streams[1].buf \in Seq(Byte)
            /\ Held = disk[Dst] \o streams[1].buf
        BY <2>2, OneStream DEF ITransfer
      <3>3. /\ Held \in Seq(Byte) /\ Len(disk[Dst]) \in 0 .. Len(Held)
            /\ SubSeq(Held, 1, Len(disk[Dst])) = disk[Dst]
        BY <3>2, FrontOfConcat
      <3>4. PICK k : k \in 0 .. Len(Held) /\ disk[Dst] = SubSeq(Held, 1, k)
        BY <3>3
      <3>5. k \in 0 .. pos[c1] /\ disk[Dst] = Sent(k)
        BY <1>1, <3>1, <3>4, BeginningOfSent
      <3> QED
        BY <1>1, <1>3, <3>5 DEF IPrefix, Dst
    <2> QED
      BY <2>1, <2>2
  <1>5. toServer # <<>> => IFrame'
    BY <1>1 DEF ITransfer, IFrame, IStart, IData, IEnd, Dst
  <1>6. IProgress'
    <2>1. Complete => Complete'
      BY <1>1, <1>3 DEF Complete, Dst
    <2> QED
      BY <1>1, <2>1 DEF ITransfer, IProgress, Answered, Succeeded
  <1> QED
    BY <1>1, <1>2, <1>4, <1>5, <1>6 DEF ITransfer

-----------------------------------------------------------------------------
(* The faults of the segment.                                              *)

LEMMA LinkTransfer ==
    ASSUME OneTransfer, TypeOK, TypeOK', IStopAndWait, ITransfer, LinkFault
    PROVE  ITransfer'
  <1>1. /\ UNCHANGED <<srv, fp, streams, disk, recvCount, fileCount, sruns>>
        /\ UNCHANGED <<cpc, ret, src, pos, eof, fileSize, count, runs>>
        /\ c1 \in Client /\ toServer \in Seq(Frame)
    BY Traffic DEF LinkFault, sendVars, recvVars
  <1>2. /\ ISender' /\ IReceiver' /\ IPrefix'
        /\ Held' = Held /\ (\A n : Sent(n)' = Sent(n)) /\ Complete' = Complete
        /\ Succeeded(c1)' = Succeeded(c1)
    BY <1>1 DEF ITransfer, ISender, IReceiver, IPrefix, Held, Sent, Complete, Succeeded, Dst
  <1>3. CASE LoseFrame
    <2>1. PICK i \in DOMAIN toServer : toServer' = RemoveAt(toServer, i)
      BY <1>3 DEF LoseFrame
    <2>2. toServer # <<>> /\ DOMAIN toServer = {1}
      BY <1>1, <2>1, Traffic
    <2>3. Len(toServer) = 1
      BY <1>1, <2>2
    <2>4. toServer' \in Seq(Frame) /\ Len(toServer') = 0
      BY <1>1, <2>1, <2>3, RemoveAtType
    <2>5. toServer' = <<>>
      BY <2>4, EmptySeq
    <2>6. toClient' = toClient /\ Answered' = Answered
      BY <1>3 DEF LoseFrame, Answered
    <2>7. IProgress'
      BY <1>1, <1>2, <2>5, <2>6 DEF ITransfer, IProgress
    <2> QED
      BY <1>2, <2>5, <2>7 DEF ITransfer
  <1>4. CASE LoseAck
    <2>1. PICK i \in DOMAIN toClient[c1] : toClient' = [toClient EXCEPT ![c1] = RemoveAt(@, i)]
      BY <1>4 DEF LoseAck, OneTransfer
    <2>2. toClient[c1] # <<>> /\ toClient[c1] \in Seq(Status) /\ Len(toClient[c1]) <= 1
      BY <1>1, <2>1 DEF TypeOK, LinkTypeOK, IStopAndWait, OneUnderWay
    <2>3. toServer = <<>> /\ toServer' = toServer
      BY <1>4, <2>2, Traffic DEF LoseAck
    <2>4. toClient'[c1] = <<>>
      <3>1. Len(toClient[c1]) = 1
        <4>1. Len(toClient[c1]) \in Nat /\ Len(toClient[c1]) # 0
          BY <2>2
        <4>2. \A n \in Nat : n # 0 /\ n <= 1 => n = 1
          OBVIOUS
        <4> QED
          BY ONLY <2>2, <4>1, <4>2, Zenon
      <3>2. RemoveAt(toClient[c1], i) \in Seq(Status) /\ Len(RemoveAt(toClient[c1], i)) = 0
        BY <2>1, <2>2, <3>1, RemoveAtType
      <3>3. RemoveAt(toClient[c1], i) = <<>>
        BY <3>2, EmptySeq
      <3> QED
        BY <1>1, <2>1, <3>3 DEF TypeOK, LinkTypeOK
    <2>5. ~Answered'
      BY <2>4 DEF Answered
    <2>6. IProgress'
      BY <1>1, <1>2, <2>3, <2>5 DEF ITransfer, IProgress
    <2> QED
      BY <1>2, <2>3, <2>6 DEF ITransfer
  <1>5. CASE Corrupt
    <2>1. PICK i \in DOMAIN toServer :
             /\ toServer[i].status = ING
             /\ \E damaged \in [1 .. Len(toServer[i].context) -> Byte] :
                    /\ checksum(damaged) # toServer[i].sum
                    /\ toServer' = [toServer EXCEPT ![i] =
                                        [toServer[i] EXCEPT !.context = damaged]]
      BY <1>5 DEF Corrupt
    <2>2. /\ toServer # <<>> /\ DOMAIN toServer = {1} /\ i = 1
          /\ Under = toServer[1] /\ Under \in DataFrame
      BY <1>1, <2>1, Traffic, FrameFields DEF Under
    <2>3. PICK damaged :
             /\ checksum(damaged) # Under.sum
             /\ toServer' = [toServer EXCEPT ![1] = [Under EXCEPT !.context = damaged]]
      BY <2>1, <2>2
    <2>4. /\ [Under EXCEPT !.context = damaged].status = ING
          /\ [Under EXCEPT !.context = damaged].context = damaged
          /\ [Under EXCEPT !.context = damaged].sum = Under.sum
      BY <2>2 DEF DataFrame
    <2>5. /\ toServer' # <<>> /\ toServer'[1] = [Under EXCEPT !.context = damaged]
          /\ Under' = toServer'[1]
      <3>1. toServer'[1] = [Under EXCEPT !.context = damaged]
        BY <1>1, <2>2, <2>3
      <3>2. DOMAIN toServer' = {1}
        BY <2>2, <2>3
      <3>3. toServer' \in Seq(Frame)
        BY DEF TypeOK, LinkTypeOK
      <3>4. toServer' # <<>>
        BY <3>2, <3>3
      <3>5. Head(toServer') = toServer'[1]
        BY <3>3, <3>4, TailType
      <3> QED
        BY <3>1, <3>4, <3>5 DEF Under
    <2>6. Under'.status = ING /\ ~Good(Under)'
      BY <2>3, <2>4, <2>5 DEF Good
    <2>7. IData
      BY <2>1, <2>2 DEF ITransfer, IFrame
    <2>8. IFrame'
      BY <1>1, <2>6, <2>7 DEF IFrame, IData
    <2>9. toClient' = toClient /\ Answered' = Answered
      BY <1>5 DEF Corrupt, Answered
    <2>10. IProgress'
      BY <1>1, <1>2, <2>2, <2>9 DEF ITransfer, IProgress
    <2> QED
      BY <1>2, <2>8, <2>10 DEF ITransfer
  <1> QED
    BY <1>3, <1>4, <1>5 DEF LinkFault, LinkNext, Stray, OneTransfer

LEMMA InitTransfer ==
    ASSUME OneTransfer
    PROVE  Init => ITransfer
  <1> SUFFICES ASSUME Init PROVE ITransfer
    OBVIOUS
  <1>1. Dst \in Path /\ c1 \in Client
    BY SendAssumption DEF OneTransfer, Dst
  <1>2. disk[Dst] \in OldContent
    BY <1>1 DEF Init, RecvInit
  <1>3. ISender /\ IReceiver /\ IPrefix /\ toServer = <<>>
    BY <1>1, <1>2 DEF Init, LinkInit, SendInit, RecvInit, ISender, IReceiver, IPrefix
  <1>4. IProgress
    BY <1>1 DEF Init, SendInit, IProgress, Succeeded
  <1> QED
    BY <1>3, <1>4 DEF ITransfer

LEMMA StepTransfer ==
    ASSUME OneTransfer, TypeOK, TypeOK', IStopAndWait, ITransfer, [Next]_vars
    PROVE  ITransfer'
  <1>1. CASE ClientNext
    BY <1>1, RecvReqAckTransfer, SendFileDataTransfer, RecvDataAckTransfer, SendEndTransfer,
       RecvEndAckTransfer, GiveUpTransfer DEF ClientNext, ClientStep, OneTransfer
  <1>2. CASE ServerNext
    <2>1. UNCHANGED sendVars
      BY <1>2 DEF ServerNext
    <2>2. CASE FwriteToNull
      <3>1. Reads(ING) /\ Good(Under) /\ fp = 0
        BY <2>2 DEF FwriteToNull, Good, Under
      <3> QED
        BY <3>1, DataFrame1
    <2>3. CASE RecvInvalid
      <3>1. toServer # <<>> /\ Under.status = UNKNOWN
        BY <2>3 DEF RecvInvalid, Reads, Under
      <3> QED
        BY <3>1 DEF ITransfer, IFrame
    <2> QED
      BY <1>2, <2>1, <2>2, <2>3, CreateFileTransfer, RecvFileDataTransfer, BadDataTransfer,
         RecvEndTransfer, RecvFailsTransfer, CloseStreamTransfer, ExitTransfer
         DEF ServerNext, ServerStep
  <1>3. CASE LinkFault
    BY <1>3, LinkTransfer
  <1>4. CASE UserNext
    <2>1. ~ServerRestart
      BY RecvAssumption DEF ServerRestart, ITransfer, IReceiver, OneTransfer
    <2> QED
      BY <1>4, <2>1, SendReqTransfer, GiveUpTransfer, FileGrowsTransfer, ServerKilledTransfer
         DEF UserNext, OneTransfer
  <1>5. CASE UNCHANGED vars
    <2>1. UNCHANGED <<toServer, toClient, cpc, ret, src, pos, eof, fileSize, count, runs,
                      srv, fp, streams, disk, recvCount, fileCount, sruns>>
      BY <1>5 DEF vars, linkVars, sendVars, recvVars
    <2>2. /\ ISender' = ISender /\ IReceiver' = IReceiver /\ Complete' = Complete
          /\ Held' = Held /\ (\A n : Sent(n)' = Sent(n)) /\ Under' = Under
          /\ Answered' = Answered /\ Succeeded(c1)' = Succeeded(c1)
      BY <2>1 DEF ISender, IReceiver, Complete, Held, Sent, Under, Answered, Succeeded, Dst
    <2>3. IPrefix => IPrefix'
      BY <2>1, <2>2 DEF IPrefix, Dst
    <2>4. IFrame => IFrame'
      <3>1. IData => IData'
        BY <2>1, <2>2 DEF IData, Good
      <3>2. (IStart => IStart') /\ (IEnd => IEnd')
        BY <2>1, <2>2 DEF IStart, IEnd, Dst
      <3> QED
        BY <2>2, <3>1, <3>2 DEF IFrame
    <2>5. IProgress => IProgress'
      BY <2>1, <2>2 DEF IProgress
    <2> QED
      BY <2>1, <2>2, <2>3, <2>4, <2>5 DEF ITransfer
  <1> QED
    BY <1>1, <1>2, <1>3, <1>4, <1>5 DEF Next

\* The invariant of one transfer.
LEMMA TransferInvariant ==
    ASSUME OneTransfer
    PROVE  Spec => [](TypeOK /\ IStopAndWait /\ ITransfer)
  <1>1. MaxRuns <= 1 /\ "stray" \notin Faults
    BY DEF OneTransfer
  <1>2. TypeOK /\ TypeOK' /\ IStopAndWait /\ [Next]_vars => IStopAndWait'
    BY <1>1, StopAndWaitStep
  <1>3. TypeOK /\ TypeOK' /\ IStopAndWait /\ ITransfer /\ [Next]_vars => ITransfer'
    BY StepTransfer
  <1> QED
    BY <1>2, <1>3, InitTransfer, StopAndWaitInit, TypeCorrect, PTL DEF Spec

LEMMA SuccessComplete ==
    ASSUME OneTransfer, TypeOK, ITransfer, NEW c \in Client, Succeeded(c)
    PROVE  /\ disk[DstOf[c]] = SubSeq(src[c], 1, pos[c])
           /\ pos[c] >= fileSize[c]
           /\ recvCount = count[c]
  <1>1. c = c1
    BY DEF OneTransfer
  <1> QED
    BY <1>1 DEF ITransfer, IProgress, Complete, ISender, Sent, Dst

\* With one client, one run of each program and no stranger on the segment:
\* whatever is lost, damaged, killed or fails, and however the source grows,
\* a fileSend that returns SUCCESS has left at the receiver what it read, and
\* that is no less than the size it announced.
THEOREM DeliveredIfSuccessHolds ==
    ASSUME OneTransfer
    PROVE  Spec => []DeliveredIfSuccess
  <1>1. TypeOK /\ ITransfer => DeliveredIfSuccess
    BY SuccessComplete DEF DeliveredIfSuccess
  <1> QED
    BY <1>1, TransferInvariant, PTL

\* Under the same conditions the totals both programs print at the end agree.
THEOREM CountsAgreeHolds ==
    ASSUME OneTransfer
    PROVE  Spec => []CountsAgree
  <1>1. TypeOK /\ ITransfer => CountsAgree
    BY SuccessComplete DEF CountsAgree
  <1> QED
    BY <1>1, TransferInvariant, PTL

-----------------------------------------------------------------------------
(* The number of frames.  Without read errors and edits every frame but    *)
(* the last is full, so the read offset counts the frames.                 *)

\* What createFile announces and main prints: fileSize / TRANSMITSIZE + 1.
Announced == (fileSize[c1] \div TRANSMITSIZE) + 1

IFrames ==
    /\ fileSize[c1] = Len(src[c1])
    /\ cpc[c1] = "waitReq" => ~eof[c1]
    /\ cpc[c1] \in {"waitReq", "reading"} /\ ~eof[c1] => pos[c1] = TRANSMITSIZE * count[c1]
    /\ cpc[c1] = "waitData" /\ ~eof[c1] => pos[c1] = TRANSMITSIZE * (count[c1] + 1)
    /\ cpc[c1] = "waitData" /\ eof[c1] => count[c1] + 1 = Announced
    /\ cpc[c1] = "reading" /\ eof[c1] => count[c1] = Announced
    /\ cpc[c1] = "waitEnd" => count[c1] = Announced
    /\ Succeeded(c1) => count[c1] = Announced
    /\ \/ cpc[c1] = "waitReq" /\ Answered
       \/ cpc[c1] \in {"reading", "waitData", "waitEnd"}
       \/ Succeeded(c1)
       => fileCount = Announced

\* A number between two multiples.
LEMMA DivBetween ==
    ASSUME NEW t \in Nat \ {0}, NEW n \in Nat, NEW k \in Nat, t * k <= n, n < t * k + t
    PROVE  n \div t = k
  OBVIOUS

\* The sender keeps the read offset and the number of frames in step.
LEMMA SenderFrames ==
    ASSUME OneTransfer, "read" \notin Faults, TypeOK, TypeOK', IStopAndWait, ITransfer, IFrames,
           SendReq(c1) \/ ClientStep(c1), UNCHANGED recvVars
    PROVE  IFrames'
  <1>1. /\ c1 \in Client /\ fileCount' = fileCount /\ TRANSMITSIZE \in Nat \ {0}
        /\ count[c1] \in Nat /\ pos[c1] \in Nat /\ src[c1] \in Seq(Byte) /\ fileSize[c1] \in Nat
        /\ pos[c1] <= Len(src[c1])
    BY Traffic, LinkAssumption DEF recvVars, TypeOK, SendTypeOK, ITransfer, ISender
  <1>2. CASE SendReq(c1)
    <2>1. PICK content \in Source[c1] :
              /\ src' = [src EXCEPT ![c1] = content]
              /\ fileSize' = [fileSize EXCEPT ![c1] = Len(content)]
              /\ \/ cpc'[c1] = "waitReq"
                 \/ cpc'[c1] = "done" /\ ret'[c1] = -1
      BY <1>1, <1>2 DEF SendReq, SendAndWait, SendFails, Return, TypeOK, SendTypeOK
    <2>2. src'[c1] = content /\ fileSize'[c1] = Len(content)
      BY <1>1, <2>1 DEF TypeOK, SendTypeOK
    <2>3. pos'[c1] = 0 /\ eof'[c1] = FALSE /\ count'[c1] = 0
      BY <1>1, <1>2 DEF SendReq, TypeOK, SendTypeOK
    <2>4. ~Answered'
      <3>1. runs[c1] = 0
        BY <1>1, <1>2, SendAssumption DEF SendReq, OneTransfer, TypeOK, SendTypeOK
      <3>2. toClient[c1] = <<>>
        BY <3>1, Traffic
      <3>3. PICK rest \in Remainders(toClient[c1]) : toClient' = [toClient EXCEPT ![c1] = rest]
        BY <1>2 DEF SendReq
      <3>4. toClient[c1] \in Seq(Status) /\ Len(toClient[c1]) = 0
        BY <3>2, Traffic
      <3>5. rest \in Seq(Status) /\ Len(rest) = 0
        BY <3>4, RemainderType
      <3>6. rest = <<>>
        BY <3>5, EmptySeq
      <3> QED
        BY <1>1, <3>3, <3>6 DEF Answered, TypeOK, LinkTypeOK
    <2>5. TRANSMITSIZE * 0 = 0
      BY <1>1
    <2> QED
      BY <2>1, <2>2, <2>3, <2>4, <2>5 DEF IFrames, Succeeded
  <1>3. CASE RecvReqAck(c1)
    <2>1. UNCHANGED <<src, pos, eof, fileSize, count>> /\ cpc[c1] = "waitReq" /\ Announced' = Announced
      BY <1>3 DEF RecvReqAck, Announced
    <2>2. CASE Head(toClient[c1]) = SUCCESS /\ cpc' = [cpc EXCEPT ![c1] = "reading"]
      <3>1. cpc'[c1] = "reading"
        BY <1>1, <2>2 DEF TypeOK, SendTypeOK
      <3>2. Answered
        BY <1>3, <2>2 DEF RecvReqAck, Answered
      <3> QED
        BY <1>1, <2>1, <3>1, <3>2 DEF IFrames, Succeeded
    <2>3. CASE Head(toClient[c1]) # SUCCESS /\ Return(c1, Head(toClient[c1]))
      <3>1. cpc'[c1] = "done" /\ ret'[c1] # SUCCESS
        BY <1>1, <2>3 DEF Return, TypeOK, SendTypeOK
      <3> QED
        BY <2>1, <3>1 DEF IFrames, Succeeded
    <2> QED
      BY <1>3, <2>2, <2>3 DEF RecvReqAck
  <1>4. CASE SendFileData(c1)
    <2>1. /\ UNCHANGED <<src, fileSize, count>> /\ cpc[c1] = "reading" /\ ~eof[c1]
          /\ Announced' = Announced
      BY <1>4 DEF SendFileData, Announced
    <2>2. PICK n \in 0 .. BytesLeft(c1), ateof \in BOOLEAN :
              /\ Fread(c1, n, ateof)
              /\ pos' = [pos EXCEPT ![c1] = @ + n]
              /\ eof' = [eof EXCEPT ![c1] = ateof]
              /\ \/ cpc' = [cpc EXCEPT ![c1] = "waitData"]
                 \/ Return(c1, -1)
      BY <1>4 DEF SendFileData, SendAndWait, SendFails
    <2>a. cpc'[c1] = "waitData" \/ (cpc'[c1] = "done" /\ ret'[c1] = -1)
      BY <1>1, <2>2 DEF Return, TypeOK, SendTypeOK
    <2>3. pos'[c1] = pos[c1] + n /\ eof'[c1] = ateof
      BY <1>1, <2>2 DEF TypeOK, SendTypeOK
    <2>4. pos[c1] = TRANSMITSIZE * count[c1] /\ fileSize[c1] = Len(src[c1]) /\ fileCount = Announced
      BY <2>1 DEF IFrames
    <2>5. ~ateof => n = TRANSMITSIZE
      BY <2>2 DEF Fread
    <2>6. ~ateof => pos'[c1] = TRANSMITSIZE * (count[c1] + 1)
      BY <1>1, <2>3, <2>4, <2>5
    <2>7. ateof => count[c1] + 1 = Announced
      <3> SUFFICES ASSUME ateof PROVE count[c1] + 1 = Announced
        OBVIOUS
      <3>1. fileSize[c1] - pos[c1] < TRANSMITSIZE
        BY <2>2, <2>4 DEF Fread, BytesLeft
      <3>2. /\ TRANSMITSIZE * count[c1] <= fileSize[c1]
            /\ fileSize[c1] < TRANSMITSIZE * count[c1] + TRANSMITSIZE
        BY <1>1, <2>4, <3>1
      <3>3. fileSize[c1] \div TRANSMITSIZE = count[c1]
        BY <1>1, <3>2, DivBetween
      <3> QED
        BY <3>3 DEF Announced
    <2> QED
      BY <1>1, <2>1, <2>a, <2>3, <2>4, <2>6, <2>7 DEF IFrames, Succeeded
  <1>5. CASE RecvDataAck(c1)
    <2>1. UNCHANGED <<src, pos, eof, fileSize>> /\ cpc[c1] = "waitData" /\ Announced' = Announced
      BY <1>5 DEF RecvDataAck, Announced
    <2>2. CASE cpc' = [cpc EXCEPT ![c1] = "reading"] /\ count' = [count EXCEPT ![c1] = @ + 1]
      <3>1. cpc'[c1] = "reading" /\ count'[c1] = count[c1] + 1
        BY <1>1, <2>2 DEF TypeOK, SendTypeOK
      <3> QED
        BY <1>1, <2>1, <3>1 DEF IFrames, Succeeded
    <2>3. CASE Return(c1, -1)
      <3>1. cpc'[c1] = "done" /\ ret'[c1] = -1
        BY <1>1, <2>3 DEF Return, TypeOK, SendTypeOK
      <3> QED
        BY <2>1, <3>1 DEF IFrames, Succeeded
    <2> QED
      BY <1>5, <2>2, <2>3 DEF RecvDataAck
  <1>6. CASE SendEnd(c1)
    <2>1. /\ UNCHANGED <<src, pos, eof, fileSize, count>> /\ cpc[c1] = "reading" /\ eof[c1]
          /\ Announced' = Announced
      BY <1>6 DEF SendEnd, Announced
    <2>2. cpc'[c1] = "waitEnd" \/ (cpc'[c1] = "done" /\ ret'[c1] = -1)
      BY <1>1, <1>6 DEF SendEnd, SendAndWait, SendFails, Return, TypeOK, SendTypeOK
    <2> QED
      BY <1>1, <2>1, <2>2 DEF IFrames, Succeeded
  <1>7. CASE RecvEndAck(c1)
    <2>1. /\ UNCHANGED <<src, pos, eof, fileSize, count>> /\ cpc[c1] = "waitEnd"
          /\ Announced' = Announced
      BY <1>7 DEF RecvEndAck, Announced
    <2>2. cpc'[c1] = "done"
      BY <1>1, <1>7 DEF RecvEndAck, Return, TypeOK, SendTypeOK
    <2> QED
      BY <1>1, <2>1, <2>2 DEF IFrames, Succeeded
  <1>8. CASE AckRecvFails(c1)
    <2>1. UNCHANGED <<src, pos, eof, fileSize, count>>
      BY <1>8 DEF AckRecvFails
    <2>2. cpc'[c1] = "done" /\ ret'[c1] = -1
      BY <1>1, <1>8 DEF AckRecvFails, Return, TypeOK, SendTypeOK
    <2> QED
      BY <2>1, <2>2 DEF IFrames, Succeeded
  <1> QED
    BY <1>2, <1>3, <1>4, <1>5, <1>6, <1>7, <1>8 DEF ClientStep

\* Nothing is lost while the sender stands still, unless another number of
\* frames is announced or a SUCCESS appears.
LEMMA OtherFrames ==
    ASSUME IFrames, UNCHANGED sendVars,
           \/ fileCount' = Announced
           \/ fileCount' = fileCount /\ (cpc[c1] = "waitReq" /\ Answered' => Answered)
    PROVE  IFrames'
  <1>1. UNCHANGED <<cpc, ret, src, pos, eof, fileSize, count>>
    BY DEF sendVars
  <1>2. Announced' = Announced /\ Succeeded(c1)' = Succeeded(c1)
    BY <1>1 DEF Announced, Succeeded
  <1> QED
    BY <1>1, <1>2 DEF IFrames

LEMMA ServerFrames ==
    ASSUME OneTransfer, TypeOK, IStopAndWait, ITransfer, IFrames, ServerStep, UNCHANGED sendVars
    PROVE  IFrames'
  <1>1. CASE CreateFile \/ CreateFileFails
    <2>1. toServer # <<>> /\ Under.status = START /\ srv = "up" /\ IStart
      BY <1>1 DEF CreateFile, CreateFileFails, Reads, ITransfer, IFrame, Under
    <2>2. fileCount' = Announced
      BY <1>1, <2>1 DEF CreateFile, CreateFileFails, Under, IStart, Announced
    <2> QED
      BY <2>2, OtherFrames
  <1>2. CASE RecvFileData \/ ChecksumFails \/ FwriteFails \/ RecvEnd \/ FflushFails \/ RecvInvalid
    <2>1. toServer # <<>> /\ Under.status \in {ING, END, UNKNOWN} /\ fileCount' = fileCount
      BY <1>2 DEF RecvFileData, ChecksumFails, FwriteFails, RecvEnd, FflushFails, RecvInvalid,
                  Reads, Under
    <2>3. Under.status \in {ING, END}
      BY <2>1 DEF ITransfer, IFrame
    <2>4. cpc[c1] # "waitReq"
      BY <2>1, <2>3 DEF ITransfer, IFrame, IData, IEnd, NotRunning
    <2> QED
      BY <2>1, <2>4, OtherFrames
  <1>3. CASE FwriteToNull \/ RecvFails \/ CloseStream \/ Exit
    <2>1. fileCount' = fileCount /\ toClient' = toClient
      BY <1>3 DEF FwriteToNull, RecvFails, CloseStream, Exit, linkVars
    <2> QED
      BY <2>1, OtherFrames DEF Answered
  <1> QED
    BY <1>1, <1>2, <1>3 DEF ServerStep

LEMMA StepFrames ==
    ASSUME OneTransfer, "read" \notin Faults, "grow" \notin Faults,
           TypeOK, TypeOK', IStopAndWait, ITransfer, IFrames, [Next]_vars
    PROVE  IFrames'
  <1>1. CASE ClientNext
    BY <1>1, SenderFrames DEF ClientNext, OneTransfer
  <1>2. CASE ServerNext
    BY <1>2, ServerFrames DEF ServerNext
  <1>3. CASE LinkFault
    <2>1. UNCHANGED sendVars /\ fileCount' = fileCount
      BY <1>3 DEF LinkFault, recvVars
    <2>2. Answered' => Answered
      <3>1. CASE toClient' = toClient
        BY <3>1 DEF Answered
      <3>2. CASE LoseAck
        <4>1. PICK i \in DOMAIN toClient[c1] : toClient' = [toClient EXCEPT ![c1] = RemoveAt(@, i)]
          BY <3>2 DEF LoseAck, OneTransfer
        <4>2. /\ c1 \in Client /\ toClient[c1] # <<>> /\ toClient[c1] \in Seq(Status)
              /\ Len(toClient[c1]) <= 1
          BY <4>1 DEF TypeOK, LinkTypeOK, IStopAndWait, OneUnderWay, OneTransfer
        <4>3. Len(toClient[c1]) = 1
          <5>1. Len(toClient[c1]) \in Nat /\ Len(toClient[c1]) # 0
            BY <4>2
          <5>2. \A n \in Nat : n # 0 /\ n <= 1 => n = 1
            OBVIOUS
          <5> QED
            BY ONLY <4>2, <5>1, <5>2, Zenon
        <4>4. RemoveAt(toClient[c1], i) \in Seq(Status) /\ Len(RemoveAt(toClient[c1], i)) = 0
          BY <4>1, <4>2, <4>3, RemoveAtType
        <4>5. toClient'[c1] = <<>>
          BY <4>1, <4>2, <4>4, EmptySeq DEF TypeOK, LinkTypeOK
        <4> QED
          BY <4>5 DEF Answered
      <3> QED
        BY <1>3, <3>1, <3>2 DEF LinkFault, LinkNext, LoseFrame, Corrupt, Stray, OneTransfer
    <2> QED
      BY <2>1, <2>2, OtherFrames
  <1>4. CASE UserNext
    <2>1. CASE SendReq(c1) /\ UNCHANGED recvVars
      BY <2>1, SenderFrames
    <2>2. CASE ClientKilled(c1) /\ UNCHANGED recvVars
      <3>1. cpc'[c1] = "idle" /\ UNCHANGED <<src, fileSize>>
        BY <2>2 DEF ClientKilled, TypeOK, SendTypeOK, OneTransfer
      <3> QED
        BY <3>1 DEF IFrames, Succeeded
    <2>3. CASE ServerKilled /\ UNCHANGED sendVars
      <3>1. fileCount' = fileCount /\ toClient' = toClient
        BY <2>3 DEF ServerKilled, linkVars
      <3> QED
        BY <2>3, <3>1, OtherFrames DEF Answered
    <2>4. ~ServerRestart
      BY RecvAssumption DEF ServerRestart, ITransfer, IReceiver, OneTransfer
    <2> QED
      BY <1>4, <2>1, <2>2, <2>3, <2>4 DEF UserNext, OneTransfer, FileGrows
  <1>5. CASE UNCHANGED vars
    BY <1>5, OtherFrames DEF vars, linkVars, recvVars, Answered
  <1> QED
    BY <1>1, <1>2, <1>3, <1>4, <1>5 DEF Next

\* Without read errors and edits, too, a success means that the receiver took
\* as many data frames as createFile announced from the size of the file, for
\* every block size: the empty frame after a last full block is one of them.
THEOREM FrameCountHolds ==
    ASSUME OneTransfer, "read" \notin Faults, "grow" \notin Faults
    PROVE  Spec => []FrameCountAsAnnounced
  <1>1. Init => IFrames
    <2> SUFFICES ASSUME Init PROVE IFrames
      OBVIOUS
    <2>1. c1 \in Client
      BY DEF OneTransfer
    <2>2. /\ cpc[c1] = "idle" /\ src[c1] = <<>> /\ fileSize[c1] = 0
      BY <2>1 DEF Init, SendInit
    <2> QED
      BY <2>2 DEF IFrames, Succeeded
  <1>2. TypeOK /\ TypeOK' /\ IStopAndWait /\ ITransfer /\ IFrames /\ [Next]_vars => IFrames'
    BY StepFrames
  <1>3. TypeOK /\ ITransfer /\ IFrames => FrameCountAsAnnounced
    <2> SUFFICES ASSUME TypeOK, ITransfer, IFrames, NEW c \in Client, Succeeded(c)
                 PROVE  recvCount = fileCount
      BY DEF FrameCountAsAnnounced
    <2>1. c = c1
      BY DEF OneTransfer
    <2> QED
      BY <2>1, SuccessComplete DEF IFrames
  <1> QED
    BY <1>1, <1>2, <1>3, TransferInvariant, PTL DEF Spec

-----------------------------------------------------------------------------
(* The refinement of FileCopy.  The mapping reads the phase off the        *)
(* content at the receiver, so the old content must differ from every      *)
(* beginning of the source, which it does when it is longer.               *)

OldIsLonger ==
    \A old \in OldContent :
        /\ Len(old) > MaxLen
        /\ \A content \in Source[c1] : Len(old) > Len(content)

IOld == \A old \in OldContent : Len(src[c1]) < Len(old)

\* What the mapping in MCFileTransmit substitutes for the variables phase and
\* outcome of FileCopy.
Phase == IF runs[c1] = 0 THEN "idle" ELSE IF disk[Dst] \in OldContent THEN "begun" ELSE "emptied"
Outcome == IF cpc[c1] # "done" THEN "none" ELSE IF ret[c1] = SUCCESS THEN "success" ELSE "failed"

LEMMA CopyVars ==
    /\ UNCHANGED Copy!copyVars <=>
           UNCHANGED <<src[c1], fileSize[c1], disk[Dst], Phase, Outcome>>
    /\ Copy!CopyInit <=>
           /\ src[c1] = <<>> /\ fileSize[c1] = 0 /\ disk[Dst] \in OldContent
           /\ Phase = "idle" /\ Outcome = "none"
    /\ Copy!Begin <=>
           /\ Phase = "idle"
           /\ src'[c1] \in Source[c1] /\ fileSize'[c1] = Len(src'[c1])
           /\ Phase' = "begun" /\ Outcome' \in {"none", "failed"}
           /\ disk'[Dst] = disk[Dst]
    /\ Copy!Empty <=>
           /\ Phase = "begun" /\ disk'[Dst] = <<>> /\ Phase' = "emptied"
           /\ UNCHANGED <<src[c1], fileSize[c1], Outcome>>
    /\ Copy!Extend <=>
           /\ Phase = "emptied" /\ Outcome # "success"
           /\ IsStrictPrefix(disk[Dst], disk'[Dst]) /\ IsPrefix(disk'[Dst], src[c1])
           /\ UNCHANGED <<src[c1], fileSize[c1], Phase, Outcome>>
    /\ Copy!SourceGrows <=>
           /\ Outcome = "none" /\ Phase # "idle"
           /\ IsStrictPrefix(src[c1], src'[c1])
           /\ UNCHANGED <<fileSize[c1], disk[Dst], Phase, Outcome>>
    /\ Copy!Succeed <=>
           /\ Phase = "emptied" /\ Outcome = "none"
           /\ IsPrefix(disk[Dst], src[c1]) /\ Len(disk[Dst]) >= fileSize[c1]
           /\ Outcome' = "success"
           /\ UNCHANGED <<src[c1], fileSize[c1], disk[Dst], Phase>>
    /\ Copy!Fail <=>
           /\ Phase # "idle" /\ Outcome = "none" /\ Outcome' = "failed"
           /\ UNCHANGED <<src[c1], fileSize[c1], disk[Dst], Phase>>
  <1>1. UNCHANGED Copy!copyVars <=>
         UNCHANGED <<src[c1], fileSize[c1], disk[Dst], Phase, Outcome>>
    BY DEF Copy!copyVars, Phase, Outcome, Dst
  <1>2. Copy!CopyInit <=>
         /\ src[c1] = <<>> /\ fileSize[c1] = 0 /\ disk[Dst] \in OldContent
         /\ Phase = "idle" /\ Outcome = "none"
    BY DEF Copy!CopyInit, Phase, Outcome, Dst
  <1>3. Copy!Begin <=>
         /\ Phase = "idle"
         /\ src'[c1] \in Source[c1] /\ fileSize'[c1] = Len(src'[c1])
         /\ Phase' = "begun" /\ Outcome' \in {"none", "failed"}
         /\ disk'[Dst] = disk[Dst]
    BY DEF Copy!Begin, Phase, Outcome, Dst
  <1>4. Copy!Empty <=>
         /\ Phase = "begun" /\ disk'[Dst] = <<>> /\ Phase' = "emptied"
         /\ UNCHANGED <<src[c1], fileSize[c1], Outcome>>
    BY DEF Copy!Empty, Phase, Outcome, Dst
  <1>5. Copy!Extend <=>
         /\ Phase = "emptied" /\ Outcome # "success"
         /\ IsStrictPrefix(disk[Dst], disk'[Dst]) /\ IsPrefix(disk'[Dst], src[c1])
         /\ UNCHANGED <<src[c1], fileSize[c1], Phase, Outcome>>
    BY DEF Copy!Extend, Phase, Outcome, Dst, IsPrefix, IsStrictPrefix,
           Copy!IsPrefix, Copy!IsStrictPrefix
  <1>6. Copy!SourceGrows <=>
         /\ Outcome = "none" /\ Phase # "idle"
         /\ IsStrictPrefix(src[c1], src'[c1])
         /\ UNCHANGED <<fileSize[c1], disk[Dst], Phase, Outcome>>
    BY DEF Copy!SourceGrows, Phase, Outcome, Dst, IsPrefix, IsStrictPrefix,
           Copy!IsPrefix, Copy!IsStrictPrefix
  <1>7. Copy!Succeed <=>
         /\ Phase = "emptied" /\ Outcome = "none"
         /\ IsPrefix(disk[Dst], src[c1]) /\ Len(disk[Dst]) >= fileSize[c1]
         /\ Outcome' = "success"
         /\ UNCHANGED <<src[c1], fileSize[c1], disk[Dst], Phase>>
    BY DEF Copy!Succeed, Phase, Outcome, Dst, IsPrefix, IsStrictPrefix,
           Copy!IsPrefix, Copy!IsStrictPrefix
  <1>8. Copy!Fail <=>
         /\ Phase # "idle" /\ Outcome = "none" /\ Outcome' = "failed"
         /\ UNCHANGED <<src[c1], fileSize[c1], disk[Dst], Phase>>
    BY DEF Copy!Fail, Phase, Outcome, Dst
  <1> QED
    BY ONLY <1>1, <1>2, <1>3, <1>4, <1>5, <1>6, <1>7, <1>8, Zenon

LEMMA PrefixOfSelf ==
    ASSUME NEW S, NEW s \in Seq(S), NEW t \in Seq(S), Len(s) <= Len(t),
           s = SubSeq(t, 1, Len(s))
    PROVE  IsPrefix(s, t)
  <1>1. SubSeq(s, 1, Len(s)) = s
    BY SubSeqFull
  <1> QED
    BY <1>1 DEF IsPrefix

\* The beginnings of the source are ordered, and none is an old content.
LEMMA SentOrder ==
    ASSUME src[c1] \in Seq(Byte), NEW n \in Nat, NEW k \in 0 .. n, n <= Len(src[c1])
    PROVE  /\ Sent(n) \in Seq(Byte) /\ Len(Sent(n)) = n
           /\ IsPrefix(Sent(n), src[c1])
           /\ IsPrefix(Sent(k), Sent(n))
           /\ IOld => Sent(n) \notin OldContent
  <1>1. 1 \in 1 .. Len(src[c1]) + 1 /\ n \in 1 - 1 .. Len(src[c1]) /\ k \in 1 - 1 .. Len(src[c1])
    OBVIOUS
  <1>2. /\ Sent(n) \in Seq(Byte) /\ Len(Sent(n)) = n
        /\ Sent(k) \in Seq(Byte) /\ Len(Sent(k)) = k
    BY <1>1, SubSeqType DEF Sent
  <1>3. IsPrefix(Sent(n), src[c1])
    BY <1>2, PrefixOfSelf DEF Sent
  <1>4. k \in 0 .. Len(Sent(n))
    BY <1>2
  <1>5. Sent(k) = SubSeq(Sent(n), 1, k)
    BY <1>4, BeginningOfSent
  <1>6. IsPrefix(Sent(k), Sent(n))
    <2>1. Len(Sent(k)) <= Len(Sent(n)) /\ Sent(k) = SubSeq(Sent(n), 1, Len(Sent(k)))
      BY <1>2, <1>5
    <2> HIDE DEF Sent
    <2> QED
      BY <1>2, <2>1, PrefixOfSelf
  <1>7. ASSUME IOld, Sent(n) \in OldContent PROVE FALSE
    <2>1. Len(src[c1]) < n
      BY <1>2, <1>7 DEF IOld
    <2> QED
      BY <2>1
  <1> QED
    BY <1>2, <1>3, <1>6, <1>7

\* Both are beginnings of the source and the longer one comes later: the copy
\* was extended.
LEMMA CopyExtended ==
    ASSUME OneTransfer, TypeOK, ITransfer, IOld, streams # <<>>, UNCHANGED sendVars,
           NEW m \in 0 .. pos[c1], NEW k \in 0 .. Len(Sent(m)), disk'[Dst] = SubSeq(Sent(m), 1, k),
           Len(disk[Dst]) <= Len(disk'[Dst]),
           Outcome = "success" => disk'[Dst] = disk[Dst]
    PROVE  [Copy!CopyNext]_(Copy!copyVars)
  <1>1. /\ UNCHANGED <<src, fileSize, cpc, ret, runs>>
        /\ c1 \in Client /\ src[c1] \in Seq(Byte) /\ pos[c1] \in Nat /\ pos[c1] <= Len(src[c1])
        /\ Len(src[c1]) \in Nat /\ runs[c1] # 0
    BY DEF sendVars, OneTransfer, TypeOK, SendTypeOK, ITransfer, ISender
  <1>2. k \in 0 .. m /\ disk'[Dst] = Sent(k)
    <2>1. m \in Nat /\ m <= Len(src[c1])
      BY <1>1
    <2> QED
      BY <1>1, <2>1, BeginningOfSent
  <1>3. PICK h \in 0 .. pos[c1] : Held = Sent(h)
    BY DEF ITransfer, IPrefix
  <1>4. PICK j \in 0 .. Len(Held) : disk[Dst] = SubSeq(Held, 1, j)
    <2>1. /\ disk[Dst] \in Seq(Byte) /\ streams[1].buf \in Seq(Byte)
          /\ Held = disk[Dst] \o streams[1].buf
      BY OneStream DEF ITransfer
    <2>2. Len(disk[Dst]) \in 0 .. Len(Held) /\ SubSeq(Held, 1, Len(disk[Dst])) = disk[Dst]
      BY ONLY <2>1, FrontOfConcat
    <2> QED
      BY <2>2
  <1>5. j \in 0 .. h /\ disk[Dst] = Sent(j)
    BY <1>1, <1>3, <1>4, BeginningOfSent
  <1>6. /\ k \in Nat /\ j \in Nat /\ k <= Len(src[c1]) /\ j <= Len(src[c1])
    BY <1>1, <1>2, <1>3, <1>5
  <1>7. /\ k \in 0 .. k /\ j \in 0 .. j
        /\ Len(Sent(k)) = k /\ Len(Sent(j)) = j
        /\ IsPrefix(Sent(k), src[c1])
        /\ Sent(k) \notin OldContent /\ Sent(j) \notin OldContent
    BY <1>1, <1>6, SentOrder
  <1>8. j <= k
    BY <1>2, <1>5, <1>7
  <1>9. Phase = "emptied" /\ Phase' = "emptied" /\ Outcome' = Outcome
    BY <1>1, <1>2, <1>5, <1>7 DEF Phase, Outcome, Dst
  <1>10. CASE disk'[Dst] = disk[Dst]
    BY <1>1, <1>9, <1>10, CopyVars
  <1>11. CASE disk'[Dst] # disk[Dst]
    <2>1. j \in 0 .. k
      BY <1>6, <1>8
    <2>2. IsPrefix(Sent(j), Sent(k))
      BY <1>1, <1>6, <2>1, SentOrder
    <2>3. IsStrictPrefix(disk[Dst], disk'[Dst]) /\ IsPrefix(disk'[Dst], src[c1])
      BY <1>2, <1>5, <1>7, <1>11, <2>2 DEF IsStrictPrefix
    <2> QED
      BY <1>1, <1>9, <1>11, <2>3, CopyVars DEF Copy!CopyNext
  <1> QED
    BY <1>10, <1>11

LEMMA CopyStutters ==
    ASSUME UNCHANGED sendVars, disk' = disk
    PROVE  UNCHANGED Copy!copyVars
  <1>1. UNCHANGED <<cpc, ret, src, fileSize, runs>>
    BY DEF sendVars
  <1> QED
    BY <1>1, CopyVars DEF Phase, Outcome, Dst

\* createFile empties the old file.
LEMMA CreateFileCopies ==
    ASSUME OneTransfer, TypeOK, IStopAndWait, ITransfer, IOld, CreateFile, UNCHANGED sendVars
    PROVE  Copy!Empty
  <1>1. toServer # <<>> /\ Under.status = START /\ srv = "up" /\ IStart
    BY DEF CreateFile, Reads, ITransfer, IFrame, Under
  <1>2. /\ UNCHANGED <<cpc, ret, src, fileSize, runs>>
        /\ runs[c1] # 0 /\ c1 \in Client /\ Dst \in Path /\ Len(src[c1]) \in Nat
    BY <1>1, Traffic, SendAssumption DEF sendVars, Dst, TypeOK, SendTypeOK
  <1>3. streams = <<>> /\ Under.path = Dst
    BY <1>1 DEF IStart
  <1>4. disk[Dst] \in OldContent
    BY <1>1, <1>3 DEF ITransfer, IPrefix
  <1>5. disk'[Dst] = <<>>
    <2>1. disk' = [disk EXCEPT ![Dst] = <<>>]
      BY <1>3 DEF CreateFile, Under
    <2> QED
      BY <1>2, <2>1 DEF TypeOK, RecvTypeOK
  <1>6. <<>> \notin OldContent
    <2>1. \A old \in OldContent : Len(old) \in Nat /\ Len(src[c1]) < Len(old)
      BY RecvAssumption DEF IOld
    <2> QED
      BY <1>2, <2>1
  <1> QED
    BY <1>2, <1>4, <1>5, <1>6, CopyVars DEF Phase, Outcome, Dst

\* What fwrite and fflush bring to the disk.
LEMMA DrainCopies ==
    ASSUME OneTransfer, TypeOK, IStopAndWait, ITransfer, IOld, UNCHANGED sendVars,
           toServer # <<>>, srv = "up", fp # 0, NEW bytes \in Seq(Byte),
           NEW n \in 0 .. Len(streams[fp].buf) + Len(bytes), PutAndDrain(fp, bytes, n),
           \E m \in 0 .. pos[c1] : Held \o bytes = Sent(m)
    PROVE  [Copy!CopyNext]_(Copy!copyVars)
  <1>1. PICK m \in 0 .. pos[c1] : Held \o bytes = Sent(m)
    OBVIOUS
  <1>2. IReceiver
    BY DEF ITransfer
  <1>3. /\ streams # <<>> /\ Len(disk[Dst]) <= Len(disk'[Dst])
        /\ \E k \in 0 .. Len(Held \o bytes) : disk'[Dst] = SubSeq(Held \o bytes, 1, k)
    BY <1>2, DrainHeld
  <1>4. PICK k \in 0 .. Len(Sent(m)) : disk'[Dst] = SubSeq(Sent(m), 1, k)
    BY <1>1, <1>3
  <1>5. Outcome # "success"
    BY DEF ITransfer, IProgress, Succeeded, Outcome
  <1> QED
    BY <1>3, <1>4, <1>5, CopyExtended

LEMMA ServerCopies ==
    ASSUME OneTransfer, TypeOK, IStopAndWait, ITransfer, IOld, ServerStep, UNCHANGED sendVars
    PROVE  [Copy!CopyNext]_(Copy!copyVars)
  <1>1. CASE CreateFile
    BY <1>1, CreateFileCopies DEF Copy!CopyNext
  <1>2. CASE RecvFileData
    <2>1. /\ toServer # <<>> /\ srv = "up" /\ Reads(ING) /\ Good(Under)
      BY <1>2 DEF RecvFileData, Reads, Good, Under
    <2>b. pos[c1] \in 0 .. pos[c1]
      BY Traffic DEF TypeOK, SendTypeOK
    <2>2. /\ fp = 1 /\ Under.context \in Seq(Byte) /\ Held \o Under.context = Sent(pos[c1])
          /\ pos[c1] \in 0 .. pos[c1]
      BY <2>1, <2>b, DataFrame1
    <2>3. \/ \E n \in 0 .. Len(streams[fp].buf) + Len(Under.context) : PutAndDrain(fp, Under.context, n)
          \/ fp = 0
      BY <1>2, Zenon DEF RecvFileData, Under
    <2>a. fp # 0 /\ \E m \in 0 .. pos[c1] : Held \o Under.context = Sent(m)
      BY <2>2
    <2>4. PICK n \in 0 .. Len(streams[fp].buf) + Len(Under.context) : PutAndDrain(fp, Under.context, n)
      BY ONLY <2>a, <2>3, Zenon
    <2> QED
      BY <2>1, <2>2, <2>a, <2>4, DrainCopies
  <1>3. CASE FwriteFails
    <2>1. /\ toServer # <<>> /\ srv = "up" /\ Reads(ING) /\ Good(Under)
      BY <1>3 DEF FwriteFails, Reads, Good, Under
    <2>2. /\ fp = 1 /\ Under.context \in Seq(Byte)
          /\ \A taken \in 0 .. Len(Under.context) :
                 \E m \in 0 .. pos[c1] : Held \o SubSeq(Under.context, 1, taken) = Sent(m)
      BY <2>1, DataFrame1
    <2>3. PICK taken \in 0 .. Len(Under.context) - 1 :
              \E n \in 0 .. Len(streams[fp].buf) + taken :
                  PutAndDrain(fp, SubSeq(Under.context, 1, taken), n)
      BY <1>3 DEF FwriteFails, Under
    <2>4. taken \in 0 .. Len(Under.context)
      BY <2>2
    <2>5. SubSeq(Under.context, 1, taken) \in Seq(Byte) /\ Len(SubSeq(Under.context, 1, taken)) = taken
      BY <2>2, <2>4, SubSeqType
    <2> DEFINE bytes == SubSeq(Under.context, 1, taken)
    <2>6. PICK n \in 0 .. Len(streams[fp].buf) + Len(bytes) : PutAndDrain(fp, bytes, n)
      BY <2>3, <2>5
    <2>7. bytes \in Seq(Byte) /\ fp # 0
      BY <2>2, <2>5
    <2>8. \E m \in 0 .. pos[c1] : Held \o bytes = Sent(m)
      BY ONLY <2>2, <2>4, Zenon
    <2> HIDE DEF bytes
    <2> QED
      BY <2>1, <2>6, <2>7, <2>8, DrainCopies
  <1>4. CASE RecvEnd \/ FflushFails
    <2>1. toServer # <<>> /\ srv = "up" /\ IEnd
      BY <1>4 DEF RecvEnd, FflushFails, Reads, ITransfer, IFrame, Under
    <2>2. /\ streams # <<>> /\ Held = Sent(pos[c1]) /\ pos[c1] \in 0 .. pos[c1]
      BY <2>1, Traffic DEF IEnd, TypeOK, SendTypeOK
    <2>3. fp = 1 /\ streams[1].buf \in Seq(Byte) /\ disk[Dst] \in Seq(Byte)
          /\ Held = disk[Dst] \o streams[1].buf
      BY <2>1, <2>2, OneStream DEF ITransfer
    <2>4. PICK bytes \in Seq(Byte) : bytes = <<>> /\ Len(bytes) = 0
      BY EmptySeq
    <2>5. Held \in Seq(Byte) /\ Held \o bytes = Held
      BY <2>3, <2>4, ConcatEmptySeq
    <2>6. PICK n \in 0 .. Len(streams[1].buf) : PutAndDrain(fp, <<>>, n)
      <3>1. CASE RecvEnd
        BY <2>3, <3>1 DEF RecvEnd
      <3>2. CASE FflushFails
        <4>1. PICK n \in 0 .. Len(streams[1].buf) - 1 : PutAndDrain(fp, <<>>, n)
          BY <2>3, <3>2 DEF FflushFails
        <4> QED
          BY <2>3, <4>1
      <3> QED
        BY <1>4, <3>1, <3>2
    <2>7. n \in 0 .. Len(streams[fp].buf) + Len(bytes) /\ fp # 0
      BY <2>3, <2>4
    <2>8. PutAndDrain(fp, bytes, n)
      BY ONLY <2>4, <2>6, Zenon
    <2>9. \E m \in 0 .. pos[c1] : Held \o bytes = Sent(m)
      BY ONLY <2>2, <2>5, Zenon
    <2> QED
      BY <2>1, <2>7, <2>8, <2>9, DrainCopies
  <1>5. CASE CloseStream
    <2>1. /\ streams # <<>> /\ Len(disk[Dst]) <= Len(disk'[Dst])
          /\ \E k \in 0 .. Len(Held) : disk'[Dst] = SubSeq(Held, 1, k)
          /\ streams[1].buf = <<>> => disk'[Dst] = disk[Dst]
      BY <1>5, CloseHeld DEF ITransfer
    <2>2. PICK m \in 0 .. pos[c1] : Held = Sent(m)
      BY <2>1 DEF ITransfer, IPrefix
    <2>3. PICK k \in 0 .. Len(Sent(m)) : disk'[Dst] = SubSeq(Sent(m), 1, k)
      BY <2>1, <2>2
    <2>4. Outcome = "success" => disk'[Dst] = disk[Dst]
      BY <2>1 DEF Outcome, ITransfer, IProgress, Succeeded, Complete
    <2> QED
      BY <2>1, <2>3, <2>4, CopyExtended
  <1>6. CASE disk' = disk
    BY <1>6, CopyStutters
  <1> QED
    BY <1>1, <1>2, <1>3, <1>4, <1>5, <1>6
       DEF ServerStep, CreateFileFails, ChecksumFails, FwriteToNull, RecvInvalid, RecvFails, Exit

\* sendReq begins; the other steps of the client leave the copy alone, and
\* its return from fileSend is the outcome.
LEMMA ClientCopies ==
    ASSUME OneTransfer, OldIsLonger, TypeOK, IStopAndWait, ITransfer, IOld,
           SendReq(c1) \/ ClientStep(c1) \/ ClientKilled(c1) \/ FileGrows(c1), UNCHANGED recvVars
    PROVE  [Copy!CopyNext]_(Copy!copyVars) /\ IOld'
  <1>1. /\ disk' = disk /\ c1 \in Client
        /\ src[c1] \in Seq(Byte) /\ pos[c1] \in Nat /\ pos[c1] <= Len(src[c1])
        /\ \A old \in OldContent : Len(old) \in Nat
        /\ MaxLen \in Nat
    BY SendAssumption, RecvAssumption
       DEF recvVars, OneTransfer, TypeOK, SendTypeOK, ITransfer, ISender
  <1>2. runs[c1] = 0 => cpc[c1] = "idle"
    BY Traffic
  <1>3. CASE SendReq(c1)
    <2>1. PICK content \in Source[c1] :
              /\ src' = [src EXCEPT ![c1] = content]
              /\ fileSize' = [fileSize EXCEPT ![c1] = Len(content)]
              /\ \/ cpc' = [cpc EXCEPT ![c1] = "waitReq"]
                 \/ Return(c1, -1)
      BY <1>3 DEF SendReq, SendAndWait, SendFails
    <2>2. /\ src'[c1] = content /\ fileSize'[c1] = Len(content)
          /\ Outcome' \in {"none", "failed"}
      BY <1>1, <2>1 DEF Return, Outcome, TypeOK, SendTypeOK
    <2>3. runs[c1] = 0 /\ runs'[c1] = 1
      BY <1>1, <1>3, SendAssumption DEF SendReq, OneTransfer, TypeOK, SendTypeOK
    <2>4. disk[Dst] \in OldContent
      BY <2>3 DEF ITransfer, ISender
    <2>5. Phase = "idle" /\ Phase' = "begun"
      BY <1>1, <2>3, <2>4 DEF Phase, Dst
    <2>6. Copy!Begin
      BY <1>1, <2>2, <2>5, CopyVars
    <2>7. IOld'
      BY <2>2 DEF IOld, OldIsLonger
    <2> QED
      BY <2>6, <2>7 DEF Copy!CopyNext
  <1>4. CASE FileGrows(c1)
    <2>1. PICK b \in Byte : src' = [src EXCEPT ![c1] = Append(@, b)]
      BY <1>4 DEF FileGrows
    <2>2. /\ UNCHANGED <<cpc, ret, fileSize, runs>> /\ cpc[c1] \notin NotRunning
          /\ Len(src[c1]) < MaxLen
          /\ src'[c1] = Append(src[c1], b)
      BY <1>1, <1>4, <2>1 DEF FileGrows, TypeOK, SendTypeOK
    <2>3. /\ src'[c1] \in Seq(Byte) /\ Len(src'[c1]) = Len(src[c1]) + 1
          /\ src[c1] = SubSeq(src'[c1], 1, Len(src[c1]))
      BY <1>1, <2>2
    <2>4. IsStrictPrefix(src[c1], src'[c1])
      <3>1. Len(src[c1]) <= Len(src'[c1]) /\ src[c1] # src'[c1]
        BY <1>1, <2>3
      <3>2. IsPrefix(src[c1], src'[c1])
        BY ONLY <1>1, <2>3, <3>1, PrefixOfSelf
      <3> QED
        BY <3>1, <3>2 DEF IsStrictPrefix
    <2>5. Outcome = "none" /\ Outcome' = Outcome /\ Phase # "idle" /\ Phase' = Phase
      BY <1>1, <1>2, <2>2 DEF Outcome, Phase, Dst, NotRunning
    <2>6. Copy!SourceGrows
      BY <1>1, <2>2, <2>4, <2>5, CopyVars
    <2>7. IOld'
      BY <1>1, <2>2, <2>3 DEF IOld, OldIsLonger
    <2> QED
      BY <2>6, <2>7 DEF Copy!CopyNext
  <1>5. CASE ClientStep(c1) \/ ClientKilled(c1)
    <2>1. /\ UNCHANGED <<src, fileSize, runs>> /\ cpc[c1] \notin NotRunning
      BY <1>5 DEF ClientStep, RecvReqAck, SendFileData, RecvDataAck, SendEnd, RecvEndAck,
                  AckRecvFails, ClientKilled, Waiting, NotRunning
    <2>2. Outcome = "none" /\ Phase # "idle" /\ Phase' = Phase /\ IOld'
      BY <1>1, <1>2, <2>1 DEF Outcome, Phase, Dst, NotRunning, IOld
    <2>3. CASE Outcome' = "none"
      BY <1>1, <2>1, <2>2, <2>3, CopyVars
    <2>4. CASE Outcome' = "failed"
      BY <1>1, <2>1, <2>2, <2>4, CopyVars DEF Copy!CopyNext
    <2>5. CASE Outcome' = "success"
      <3>1. cpc'[c1] = "done" /\ ret'[c1] = SUCCESS
        BY <2>5 DEF Outcome
      <3>2. /\ RecvEndAck(c1) /\ Head(toClient[c1]) = SUCCESS
        <4>1. CASE RecvReqAck(c1)
          BY <1>1, <3>1, <4>1 DEF RecvReqAck, Return, TypeOK, SendTypeOK
        <4>2. CASE SendFileData(c1) \/ SendEnd(c1)
          <5>1. \/ cpc' = [cpc EXCEPT ![c1] = "waitData"]
                \/ cpc' = [cpc EXCEPT ![c1] = "waitEnd"]
                \/ Return(c1, -1)
            BY <4>2 DEF SendFileData, SendEnd, SendAndWait, SendFails
          <5> QED
            BY <1>1, <3>1, <5>1 DEF Return, TypeOK, SendTypeOK
        <4>3. CASE RecvDataAck(c1) \/ AckRecvFails(c1) \/ ClientKilled(c1)
          BY <1>1, <3>1, <4>3
             DEF RecvDataAck, AckRecvFails, ClientKilled, Return, TypeOK, SendTypeOK
        <4>4. CASE RecvEndAck(c1)
          BY <1>1, <3>1, <4>4 DEF RecvEndAck, Return, TypeOK, SendTypeOK
        <4> QED
          BY <1>5, <4>1, <4>2, <4>3, <4>4 DEF ClientStep
      <3>3. disk[Dst] = Sent(pos[c1]) /\ pos[c1] >= fileSize[c1]
        BY <3>2 DEF RecvEndAck, ITransfer, IProgress, Answered, Complete, ISender
      <3>4. pos[c1] \in 0 .. pos[c1]
        BY <1>1
      <3>5. /\ Len(Sent(pos[c1])) = pos[c1] /\ IsPrefix(Sent(pos[c1]), src[c1])
            /\ Sent(pos[c1]) \notin OldContent
        BY <1>1, <3>4, SentOrder
      <3>6. Phase = "emptied"
        BY <2>2, <3>3, <3>5 DEF Phase
      <3>7. Copy!Succeed
        BY <1>1, <2>1, <2>2, <2>5, <3>3, <3>5, <3>6, CopyVars
      <3> QED
        BY <2>2, <3>7 DEF Copy!CopyNext
    <2> QED
      BY <2>3, <2>4, <2>5 DEF Outcome
  <1> QED
    BY <1>3, <1>4, <1>5

LEMMA StepCopies ==
    ASSUME OneTransfer, OldIsLonger, TypeOK, IStopAndWait, ITransfer, IOld, [Next]_vars
    PROVE  [Copy!CopyNext]_(Copy!copyVars) /\ IOld'
  <1>1. CASE ClientNext
    BY <1>1, ClientCopies DEF ClientNext, OneTransfer
  <1>2. CASE UNCHANGED sendVars
    <2>1. IOld'
      BY <1>2 DEF IOld, sendVars
    <2>2. CASE ServerStep
      BY <1>2, <2>1, <2>2, ServerCopies
    <2>3. CASE disk' = disk
      BY <1>2, <2>1, <2>3, CopyStutters
    <2> QED
      BY <1>2, <2>2, <2>3 DEF Next, ClientNext, ServerNext, LinkFault, UserNext, ServerKilled,
         ServerRestart, recvVars, vars
  <1>3. CASE UserNext /\ ~UNCHANGED sendVars
    BY <1>3, ClientCopies DEF UserNext, OneTransfer
  <1>4. CASE UNCHANGED vars
    BY <1>2, <1>4 DEF vars
  <1> QED
    BY <1>1, <1>2, <1>3, <1>4 DEF Next, ServerNext, LinkFault

\* The programs implement FileCopy: with one client, one run of each program
\* and no stranger on the segment, for files of any size, and whatever is
\* lost, damaged, killed or fails, the copy keeps what it held before until it
\* is emptied once, is a beginning of the source from then on, and is complete
\* and final when success is announced.
THEOREM RefinesFileCopyHolds ==
    ASSUME OneTransfer, OldIsLonger
    PROVE  Spec => RefinesFileCopy
  <1>1. ASSUME Init PROVE Copy!CopyInit /\ IOld
    <2>1. c1 \in Client /\ Dst \in Path /\ MaxLen \in Nat
      BY SendAssumption DEF OneTransfer, Dst
    <2>2. /\ src[c1] = <<>> /\ fileSize[c1] = 0 /\ runs[c1] = 0 /\ cpc[c1] = "idle"
          /\ disk[Dst] \in OldContent
      BY <1>1, <2>1 DEF Init, SendInit, RecvInit
    <2>3. Copy!CopyInit
      BY <2>2, CopyVars DEF Phase, Outcome
    <2>4. \A old \in OldContent : Len(old) \in Nat /\ Len(old) > MaxLen
      BY RecvAssumption DEF OldIsLonger
    <2>5. IOld
      BY <2>1, <2>2, <2>4 DEF IOld
    <2> QED
      BY <2>3, <2>5
  <1>2. TypeOK /\ IStopAndWait /\ ITransfer /\ IOld /\ [Next]_vars =>
            [Copy!CopyNext]_(Copy!copyVars) /\ IOld'
    BY StepCopies
  <1> QED
    BY <1>1, <1>2, TransferInvariant, PTL DEF Spec, RefinesFileCopy, Copy!CopySpec

-----------------------------------------------------------------------------
(* The runs of one client after one another.  Both programs may be killed  *)
(* and started again; frames that are left over in the queue, or go to a   *)
(* receiver that refuses them, are never in the middle of a transfer.      *)

OneSender ==
    /\ Client = {c1}
    /\ "loseFrame" \notin Faults /\ "grow" \notin Faults

\* A hole, or a byte some version of the file has at place i.
Faithful(i, b) == b = 0 \/ \E v \in Versions(Dst) : i \in DOMAIN v /\ v[i] = b
FaithfulFrom(off, bytes) == \A k \in DOMAIN bytes : Faithful(off + k, bytes[k])

\* The stream fp points to, and where the next byte that it takes belongs.
Current == streams[Len(streams)]
Writes  == Current.off + Len(Current.buf)

IPointer == srv = "up" => fp = Len(streams)

IFiles ==
    /\ \A p \in Path \ {Dst} : disk[p] \in OldContent
    /\ FaithfulFrom(0, disk[Dst])
    /\ \A j \in DOMAIN streams :
           streams[j].path = Dst /\ FaithfulFrom(streams[j].off, streams[j].buf)

ISource == cpc[c1] \notin NotRunning => src[c1] \in Source[c1] /\ pos[c1] <= Len(src[c1])

\* The offset a frame leaves, and what the context of one read at off is.
After(frame, off) ==
    IF frame.status = START THEN 0
    ELSE IF frame.status = ING THEN off + Len(frame.context)
    ELSE off
Fits(frame, off) ==
    /\ frame.status = START => frame.path = Dst
    /\ frame.status = ING /\ Good(frame) => FaithfulFrom(off, frame.context)

\* at: the offsets before every frame of the queue, and behind the last.
InQueue(queue, at) ==
    /\ at \in [1 .. Len(queue) + 1 -> Nat]
    /\ \A i \in 1 .. Len(queue) : at[i + 1] = After(queue[i], at[i]) /\ Fits(queue[i], at[i])

\* They lead from where the receiver writes to where the client reads.
AtFront(off) == srv = "up" /\ streams # <<>> => off = Writes
AtEnd(off)   == cpc[c1] \notin NotRunning => off = pos[c1]
IQueue == \E at : InQueue(toServer, at) /\ AtFront(at[1]) /\ AtEnd(at[Len(toServer) + 1])

IOffsets == IPointer /\ IFiles /\ ISource /\ IQueue

-----------------------------------------------------------------------------
(* Faithful bytes stay so when they are joined, cut and written.           *)

LEMMA FaithfulConcat ==
    ASSUME NEW off \in Nat, NEW s \in Seq(Byte), NEW t \in Seq(Byte),
           FaithfulFrom(off, s), FaithfulFrom(off + Len(s), t)
    PROVE  FaithfulFrom(off, s \o t)
  <1>1. /\ Len(s \o t) = Len(s) + Len(t) /\ Len(s) \in Nat /\ Len(t) \in Nat
        /\ s \o t \in Seq(Byte)
        /\ \A k \in 1 .. Len(s) + Len(t) : (s \o t)[k] = IF k <= Len(s) THEN s[k] ELSE t[k - Len(s)]
    BY ConcatProperties
  <1> SUFFICES ASSUME NEW k \in 1 .. Len(s) + Len(t) PROVE Faithful(off + k, (s \o t)[k])
    BY <1>1 DEF FaithfulFrom
  <1>2. CASE k <= Len(s)
    <2>1. k \in DOMAIN s /\ (s \o t)[k] = s[k]
      BY <1>1, <1>2
    <2> QED
      BY <2>1 DEF FaithfulFrom
  <1>3. CASE ~(k <= Len(s))
    <2>1. k - Len(s) \in DOMAIN t /\ (s \o t)[k] = t[k - Len(s)]
      BY <1>1, <1>3
    <2>2. (off + Len(s)) + (k - Len(s)) = off + k
      BY <1>1
    <2>3. Faithful((off + Len(s)) + (k - Len(s)), t[k - Len(s)])
      BY <2>1 DEF FaithfulFrom
    <2> QED
      BY <2>1, <2>2, <2>3
  <1> QED
    BY <1>2, <1>3

LEMMA FaithfulPiece ==
    ASSUME NEW off \in Nat, NEW s \in Seq(Byte), FaithfulFrom(off, s),
           NEW i \in 1 .. Len(s) + 1, NEW j \in i - 1 .. Len(s)
    PROVE  FaithfulFrom(off + (i - 1), SubSeq(s, i, j))
  <1>1. /\ SubSeq(s, i, j) \in Seq(Byte) /\ Len(SubSeq(s, i, j)) = j - i + 1
        /\ \A k \in 1 .. j - i + 1 : SubSeq(s, i, j)[k] = s[i + k - 1]
    BY SubSeqType
  <1> SUFFICES ASSUME NEW k \in 1 .. j - i + 1
               PROVE  Faithful(off + (i - 1) + k, SubSeq(s, i, j)[k])
    BY <1>1 DEF FaithfulFrom
  <1>2. i + k - 1 \in DOMAIN s /\ SubSeq(s, i, j)[k] = s[i + k - 1]
    BY <1>1
  <1>3. off + (i + k - 1) = off + (i - 1) + k
    OBVIOUS
  <1>4. Faithful(off + (i + k - 1), s[i + k - 1])
    BY <1>2 DEF FaithfulFrom
  <1> QED
    BY <1>2, <1>3, <1>4

LEMMA FaithfulWrite ==
    ASSUME NEW content \in Seq(Byte), NEW off \in Nat, NEW bytes \in Seq(Byte),
           FaithfulFrom(0, content), FaithfulFrom(off, bytes)
    PROVE  FaithfulFrom(0, WriteAt(content, off, bytes))
  <1>1. CASE bytes = <<>>
    BY <1>1 DEF WriteAt
  <1>2. CASE bytes # <<>>
    <2> DEFINE end == off + Len(bytes)
               len == IF end > Len(content) THEN end ELSE Len(content)
               w == WriteAt(content, off, bytes)
    <2>1. w = [i \in 1 .. len |->
                   IF i \in off + 1 .. end     THEN bytes[i - off]
                   ELSE IF i \in DOMAIN content THEN content[i]
                   ELSE 0]
      BY <1>2 DEF WriteAt
    <2>2. DOMAIN w = 1 .. len
      BY <2>1
    <2> SUFFICES ASSUME NEW i \in 1 .. len PROVE Faithful(0 + i, w[i])
      BY <2>2 DEF FaithfulFrom
    <2>3. i \in Nat /\ Len(bytes) \in Nat /\ 0 + i = i
      OBVIOUS
    <2>4. CASE i \in off + 1 .. end
      <3>1. i - off \in DOMAIN bytes /\ w[i] = bytes[i - off] /\ off + (i - off) = i
        BY <2>1, <2>4
      <3>2. Faithful(off + (i - off), bytes[i - off])
        BY <3>1 DEF FaithfulFrom
      <3> QED
        BY <2>3, <3>1, <3>2
    <2>5. CASE i \notin off + 1 .. end /\ i \in DOMAIN content
      <3>1. w[i] = content[i]
        BY <2>1, <2>5
      <3> QED
        BY <2>5, <3>1 DEF FaithfulFrom
    <2>6. CASE i \notin off + 1 .. end /\ i \notin DOMAIN content
      <3>1. w[i] = 0
        BY <2>1, <2>6
      <3> QED
        BY <3>1 DEF Faithful
    <2> QED
      BY <2>4, <2>5, <2>6
  <1> QED
    BY <1>1, <1>2

\* A version of the file is faithful, and so is every piece of it.
LEMMA VersionFaithful ==
    ASSUME NEW v \in Versions(Dst), v \in Seq(Byte)
    PROVE  FaithfulFrom(0, v)
  <1> SUFFICES ASSUME NEW k \in DOMAIN v PROVE Faithful(0 + k, v[k])
    BY DEF FaithfulFrom
  <1>1. 0 + k = k
    OBVIOUS
  <1> QED
    BY <1>1 DEF Faithful

-----------------------------------------------------------------------------
(* What the queue does.                                                    *)

LEMMA AfterType ==
    ASSUME NEW frame \in Frame, NEW off \in Nat
    PROVE  After(frame, off) \in Nat
  <1>1. CASE frame.status = ING
    <2>1. Len(frame.context) \in Nat
      BY <1>1, FrameFields
    <2> QED
      BY <1>1, <2>1 DEF After
  <1>2. CASE frame.status # ING
    BY <1>2 DEF After
  <1> QED
    BY <1>1, <1>2

\* A frame joins the queue.
LEMMA QueueGrows ==
    ASSUME NEW queue \in Seq(Frame), NEW at, InQueue(queue, at),
           NEW frame \in Frame, Fits(frame, at[Len(queue) + 1])
    PROVE  \E new : /\ InQueue(Append(queue, frame), new)
                    /\ new[1] = at[1]
                    /\ new[Len(Append(queue, frame)) + 1] = After(frame, at[Len(queue) + 1])
  <1> DEFINE n == Len(queue)
             q2 == Append(queue, frame)
             new == [i \in 1 .. n + 2 |-> IF i = n + 2 THEN After(frame, at[n + 1]) ELSE at[i]]
  <1>1. /\ n \in Nat /\ Len(q2) = n + 1 /\ q2[n + 1] = frame
        /\ \A i \in 1 .. n : q2[i] = queue[i]
        /\ at \in [1 .. n + 1 -> Nat]
    BY DEF InQueue
  <1>2. After(frame, at[n + 1]) \in Nat
    <2>1. n + 1 \in 1 .. n + 1
      BY <1>1
    <2>2. at[n + 1] \in Nat
      BY <1>1, <2>1
    <2> QED
      BY <2>2, AfterType
  <1>3. new \in [1 .. Len(q2) + 1 -> Nat]
    BY <1>1, <1>2
  <1>4. \A i \in 1 .. n + 1 : new[i] = at[i]
    BY <1>1
  <1>5. new[n + 2] = After(frame, at[n + 1])
    BY <1>1
  <1> HIDE DEF new, q2
  <1>6. ASSUME NEW i \in 1 .. Len(q2)
        PROVE  new[i + 1] = After(q2[i], new[i]) /\ Fits(q2[i], new[i])
    <2>1. CASE i = n + 1
      <3>1. i + 1 = n + 2
        BY <1>1, <2>1
      <3> QED
        BY <1>1, <1>4, <1>5, <2>1, <3>1
    <2>2. CASE i # n + 1
      <3>1. i \in 1 .. n /\ i \in 1 .. n + 1 /\ i + 1 \in 1 .. n + 1
        BY <1>1, <2>2
      <3>2. at[i + 1] = After(queue[i], at[i]) /\ Fits(queue[i], at[i])
        BY <3>1 DEF InQueue
      <3> QED
        BY <1>1, <1>4, <3>1, <3>2
    <2> QED
      BY <2>1, <2>2
  <1>7. InQueue(q2, new)
    BY <1>3, <1>6 DEF InQueue
  <1>8. new[1] = at[1] /\ new[Len(q2) + 1] = After(frame, at[n + 1])
    <2>1. 1 \in 1 .. n + 1 /\ Len(q2) + 1 = n + 2
      BY <1>1
    <2> QED
      BY <1>4, <1>5, <2>1
  <1> QED
    BY <1>7, <1>8 DEF q2

\* The oldest frames leave the queue.
LEMMA QueueShrinks ==
    ASSUME NEW queue \in Seq(Frame), NEW at, InQueue(queue, at),
           NEW rest \in Seq(Frame), NEW d \in 0 .. Len(queue), Len(rest) = Len(queue) - d,
           \A k \in 1 .. Len(rest) : rest[k] = queue[k + d]
    PROVE  \E new : /\ InQueue(rest, new)
                    /\ new[1] = at[d + 1]
                    /\ new[Len(rest) + 1] = at[Len(queue) + 1]
  <1> DEFINE new == [i \in 1 .. Len(rest) + 1 |-> at[i + d]]
  <1>1. at \in [1 .. Len(queue) + 1 -> Nat] /\ Len(queue) \in Nat /\ Len(rest) \in Nat
    BY DEF InQueue
  <1>2. \A i \in 1 .. Len(rest) + 1 : i + d \in 1 .. Len(queue) + 1
    BY <1>1
  <1>3. new \in [1 .. Len(rest) + 1 -> Nat]
    BY <1>1, <1>2
  <1>4. \A i \in 1 .. Len(rest) + 1 : new[i] = at[i + d]
    OBVIOUS
  <1> HIDE DEF new
  <1>5. ASSUME NEW i \in 1 .. Len(rest)
        PROVE  new[i + 1] = After(rest[i], new[i]) /\ Fits(rest[i], new[i])
    <2>1. /\ i \in 1 .. Len(rest) + 1 /\ i + 1 \in 1 .. Len(rest) + 1
          /\ i + d \in 1 .. Len(queue) /\ (i + 1) + d = (i + d) + 1
      BY <1>1
    <2>2. /\ at[(i + d) + 1] = After(queue[i + d], at[i + d])
          /\ Fits(queue[i + d], at[i + d])
      BY <2>1 DEF InQueue
    <2> QED
      BY <1>4, <2>1, <2>2
  <1>6. InQueue(rest, new)
    BY <1>3, <1>5 DEF InQueue
  <1>7. new[1] = at[d + 1] /\ new[Len(rest) + 1] = at[Len(queue) + 1]
    <2>1. /\ 1 \in 1 .. Len(rest) + 1 /\ Len(rest) + 1 \in 1 .. Len(rest) + 1
          /\ 1 + d = d + 1 /\ (Len(rest) + 1) + d = Len(queue) + 1
      BY <1>1
    <2> QED
      BY <1>4, <2>1
  <1> QED
    BY <1>6, <1>7

\* A data frame is damaged: nobody will take its bytes.
LEMMA QueueDamaged ==
    ASSUME NEW queue \in Seq(Frame), NEW at, InQueue(queue, at),
           NEW i \in 1 .. Len(queue), NEW frame,
           queue[i].status = ING, frame.status = ING, ~Good(frame),
           Len(frame.context) = Len(queue[i].context)
    PROVE  InQueue([queue EXCEPT ![i] = frame], at)
  <1> DEFINE q2 == [queue EXCEPT ![i] = frame]
  <1>1. Len(q2) = Len(queue) /\ \A j \in 1 .. Len(queue) : q2[j] = IF j = i THEN frame ELSE queue[j]
    OBVIOUS
  <1> HIDE DEF q2
  <1>2. ASSUME NEW j \in 1 .. Len(q2)
        PROVE  at[j + 1] = After(q2[j], at[j]) /\ Fits(q2[j], at[j])
    <2>1. j \in 1 .. Len(queue) /\ at[j + 1] = After(queue[j], at[j]) /\ Fits(queue[j], at[j])
      BY <1>1 DEF InQueue
    <2>2. CASE j = i
      <3>1. q2[j] = frame
        BY <1>1, <2>1, <2>2
      <3>2. After(frame, at[j]) = After(queue[i], at[j])
        BY DEF After
      <3>3. Fits(frame, at[j])
        BY DEF Fits
      <3> QED
        BY <2>1, <2>2, <3>1, <3>2, <3>3
    <2>3. CASE j # i
      BY <1>1, <2>1, <2>3
    <2> QED
      BY <2>2, <2>3
  <1> QED
    BY <1>1, <1>2 DEF InQueue, q2

-----------------------------------------------------------------------------
(* The steps of the client.                                                *)

LEMMA ReadFaithful ==
    ASSUME OneSender, TypeOK, IOffsets, cpc[c1] \notin NotRunning,
           NEW n \in 0 .. BytesLeft(c1)
    PROVE  FaithfulFrom(pos[c1], SubSeq(src[c1], pos[c1] + 1, pos[c1] + n))
  <1>1. /\ c1 \in Client /\ src[c1] \in Seq(Byte) /\ pos[c1] \in Nat
        /\ src[c1] \in Source[c1] /\ pos[c1] <= Len(src[c1])
    BY DEF OneSender, TypeOK, SendTypeOK, IOffsets, ISource
  <1>2. src[c1] \in Versions(Dst)
    BY <1>1 DEF Versions, Dst
  <1>3. FaithfulFrom(0, src[c1])
    BY <1>1, <1>2, VersionFaithful
  <1>4. /\ pos[c1] + 1 \in 1 .. Len(src[c1]) + 1
        /\ pos[c1] + n \in (pos[c1] + 1) - 1 .. Len(src[c1])
        /\ 0 + ((pos[c1] + 1) - 1) = pos[c1]
    BY <1>1 DEF BytesLeft
  <1>5. FaithfulFrom(0 + ((pos[c1] + 1) - 1), SubSeq(src[c1], pos[c1] + 1, pos[c1] + n))
    BY <1>1, <1>3, <1>4, FaithfulPiece
  <1> QED
    BY <1>4, <1>5

\* The client sends frame, and after it is where the frame ends.
LEMMA SendOffsets ==
    ASSUME TypeOK, IQueue, UNCHANGED recvVars, NEW frame \in Frame,
           toServer' = Append(toServer, frame),
           \A off \in Nat : AtEnd(off) => Fits(frame, off) /\ After(frame, off) = pos'[c1]
    PROVE  IQueue'
  <1>1. PICK at : InQueue(toServer, at) /\ AtFront(at[1]) /\ AtEnd(at[Len(toServer) + 1])
    BY DEF IQueue
  <1>2. toServer \in Seq(Frame) /\ at[Len(toServer) + 1] \in Nat
    <2>1. toServer \in Seq(Frame)
      BY DEF TypeOK, LinkTypeOK
    <2>2. Len(toServer) + 1 \in 1 .. Len(toServer) + 1
      BY <2>1
    <2> QED
      BY <1>1, <2>1, <2>2 DEF InQueue
  <1>3. PICK new : /\ InQueue(toServer', new)
                   /\ new[1] = at[1]
                   /\ new[Len(toServer') + 1] = After(frame, at[Len(toServer) + 1])
    BY <1>1, <1>2, QueueGrows
  <1>4. AtFront(new[1])'
    BY <1>1, <1>3 DEF AtFront, Writes, Current, recvVars
  <1>5. AtEnd(new[Len(toServer) + 1])'
    BY <1>1, <1>2, <1>3 DEF AtEnd
  <1> QED
    BY <1>3, <1>4, <1>5 DEF IQueue

\* The queue stays, and the read offset too unless the client is done.
LEMMA StayOffsets ==
    ASSUME IQueue, UNCHANGED <<toServer, srv, streams>>,
           \/ cpc'[c1] \in NotRunning
           \/ cpc[c1] \notin NotRunning /\ pos'[c1] = pos[c1]
    PROVE  IQueue'
  <1>1. PICK at : InQueue(toServer, at) /\ AtFront(at[1]) /\ AtEnd(at[Len(toServer) + 1])
    BY DEF IQueue
  <1> QED
    BY <1>1 DEF IQueue, AtFront, AtEnd, Writes, Current

LEMMA ClientOffsets ==
    ASSUME OneSender, TypeOK, IOffsets, UNCHANGED recvVars,
           SendReq(c1) \/ ClientStep(c1) \/ ClientKilled(c1)
    PROVE  ISource' /\ IQueue'
  <1>1. /\ c1 \in Client /\ UNCHANGED <<srv, streams>>
        /\ src[c1] \in Seq(Byte) /\ pos[c1] \in Nat
        /\ cpc[c1] \notin NotRunning => src[c1] \in Source[c1] /\ pos[c1] <= Len(src[c1])
        /\ IQueue
    BY DEF OneSender, recvVars, TypeOK, SendTypeOK, IOffsets, ISource
  <1>2. CASE SendReq(c1)
    <2>1. PICK content \in Source[c1] :
              /\ src' = [src EXCEPT ![c1] = content]
              /\ \/ SendAndWait(c1, [src |-> c1, status |-> START,
                                     fileSize |-> Len(content), path |-> DstOf[c1]], "waitReq")
                 \/ SendFails(c1)
      BY <1>2 DEF SendReq
    <2>2. content \in Seq(Byte) /\ DstOf[c1] \in Path
      BY <1>1, SendAssumption
    <2>3. src'[c1] = content /\ pos'[c1] = 0
      BY <1>1, <1>2, <2>1 DEF SendReq, TypeOK, SendTypeOK
    <2>4. ISource'
      BY <2>2, <2>3 DEF ISource
    <2>5. CASE SendFails(c1)
      <3>1. toServer' = toServer /\ cpc'[c1] \in NotRunning
        BY <1>1, <2>5 DEF SendFails, Return, NotRunning, TypeOK, SendTypeOK
      <3> QED
        BY <1>1, <2>4, <3>1, StayOffsets
    <2> DEFINE frame == [src |-> c1, status |-> START, fileSize |-> Len(content), path |-> DstOf[c1]]
    <2>6. CASE SendAndWait(c1, frame, "waitReq")
      <3>1. toServer' = Append(toServer, frame)
        BY <2>6 DEF SendAndWait
      <3>2. frame \in Frame /\ frame.status = START /\ frame.path = Dst
        BY <1>1, <2>2 DEF Frame, AttrFrame, Dst
      <3> HIDE DEF frame
      <3>3. \A off \in Nat : Fits(frame, off) /\ After(frame, off) = pos'[c1]
        BY <2>3, <3>2 DEF Fits, After
      <3> QED
        BY <1>1, <2>4, <3>1, <3>2, <3>3, SendOffsets
    <2> QED
      BY <2>1, <2>5, <2>6
  <1>3. CASE SendFileData(c1)
    <2>1. PICK n \in 0 .. BytesLeft(c1), ateof \in BOOLEAN :
              /\ Fread(c1, n, ateof)
              /\ pos' = [pos EXCEPT ![c1] = @ + n]
              /\ LET buf == SubSeq(src[c1], pos[c1] + 1, pos[c1] + n) IN
                 \/ SendAndWait(c1, [src |-> c1, status |-> ING,
                                     sum |-> checksum(buf), context |-> buf], "waitData")
                 \/ SendFails(c1)
      BY <1>3 DEF SendFileData
    <2> DEFINE buf == SubSeq(src[c1], pos[c1] + 1, pos[c1] + n)
               frame == [src |-> c1, status |-> ING, sum |-> checksum(buf), context |-> buf]
    <2>2. src' = src /\ cpc[c1] \notin NotRunning
      BY <1>3 DEF SendFileData, NotRunning
    <2>3. pos'[c1] = pos[c1] + n /\ n \in Nat /\ pos[c1] + n <= Len(src[c1])
      BY <1>1, <2>1, <2>2 DEF BytesLeft, TypeOK, SendTypeOK
    <2>4. ISource'
      BY <1>1, <2>2, <2>3 DEF ISource
    <2>5. CASE SendFails(c1)
      <3>1. toServer' = toServer /\ cpc'[c1] \in NotRunning
        BY <1>1, <2>5 DEF SendFails, Return, NotRunning, TypeOK, SendTypeOK
      <3> QED
        BY <1>1, <2>4, <3>1, StayOffsets
    <2>6. CASE SendAndWait(c1, frame, "waitData")
      <3>1. toServer' = Append(toServer, frame)
        BY <2>6 DEF SendAndWait
      <3>2. frame \in Frame
        BY <1>1, <2>1, FreadBlock DEF TypeOK
      <3>3. FaithfulFrom(pos[c1], buf)
        BY <2>2, ReadFaithful
      <3>4. Len(buf) = n
        <4>1. /\ pos[c1] + 1 \in 1 .. Len(src[c1]) + 1
              /\ pos[c1] + n \in (pos[c1] + 1) - 1 .. Len(src[c1])
              /\ (pos[c1] + n) - (pos[c1] + 1) + 1 = n
          BY <1>1, <2>3
        <4> QED
          BY <1>1, <4>1, SubSeqType
      <3> HIDE DEF buf
      <3>5. frame.status = ING /\ frame.context = buf
        OBVIOUS
      <3> HIDE DEF frame
      <3>6. \A off \in Nat : AtEnd(off) => Fits(frame, off) /\ After(frame, off) = pos'[c1]
        BY <2>2, <2>3, <3>3, <3>4, <3>5 DEF AtEnd, Fits, After
      <3> QED
        BY <1>1, <2>4, <3>1, <3>2, <3>6, SendOffsets
    <2> QED
      BY <2>1, <2>5, <2>6
  <1>4. CASE SendEnd(c1)
    <2>1. UNCHANGED <<src, pos>> /\ cpc[c1] \notin NotRunning
      BY <1>4 DEF SendEnd, NotRunning
    <2>2. ISource'
      BY <1>1, <2>1 DEF ISource
    <2>3. CASE SendFails(c1)
      <3>1. toServer' = toServer /\ cpc'[c1] \in NotRunning
        BY <1>1, <2>3 DEF SendFails, Return, NotRunning, TypeOK, SendTypeOK
      <3> QED
        BY <1>1, <2>2, <3>1, StayOffsets
    <2> DEFINE frame == [src |-> c1, status |-> END]
    <2>4. CASE SendAndWait(c1, frame, "waitEnd")
      <3>1. toServer' = Append(toServer, frame)
        BY <2>4 DEF SendAndWait
      <3>2. frame \in Frame /\ frame.status = END
        BY <1>1 DEF Frame, PlainFrame
      <3> HIDE DEF frame
      <3>3. \A off \in Nat : AtEnd(off) => Fits(frame, off) /\ After(frame, off) = pos'[c1]
        BY <2>1, <3>2 DEF AtEnd, Fits, After
      <3> QED
        BY <1>1, <2>2, <3>1, <3>2, <3>3, SendOffsets
    <2> QED
      BY <1>4, <2>3, <2>4 DEF SendEnd
  <1>5. CASE RecvReqAck(c1) \/ RecvDataAck(c1) \/ RecvEndAck(c1) \/ AckRecvFails(c1) \/ ClientKilled(c1)
    <2>1. UNCHANGED <<toServer, src, pos>> /\ cpc[c1] \notin NotRunning
      BY <1>5 DEF RecvReqAck, RecvDataAck, RecvEndAck, AckRecvFails, ClientKilled, NotRunning,
                  Waiting, linkVars
    <2>2. ISource'
      BY <1>1, <2>1 DEF ISource
    <2> QED
      BY <1>1, <2>1, <2>2, StayOffsets
  <1> QED
    BY <1>2, <1>3, <1>4, <1>5 DEF ClientStep

-----------------------------------------------------------------------------
(* The steps of the receiver.                                              *)

\* fwrite, and the drain of the buffer, of bytes that belong where they go.
LEMMA DrainFaithful ==
    ASSUME TypeOK, IFiles, fp = Len(streams), fp # 0, NEW bytes \in Seq(Byte),
           FaithfulFrom(Writes, bytes),
           NEW n \in 0 .. Len(streams[fp].buf) + Len(bytes), PutAndDrain(fp, bytes, n)
    PROVE  /\ IFiles'
           /\ Writes' = Writes + Len(bytes)
           /\ Len(streams') = Len(streams)
  <1> DEFINE st == streams[fp]
             buf == st.buf \o bytes
             x == SubSeq(buf, 1, n)
             y == SubSeq(buf, n + 1, Len(buf))
             new == [path |-> Dst, off |-> st.off + n, buf |-> y]
  <1>1. /\ streams \in Seq(Stream) /\ fp \in DOMAIN streams /\ disk \in [Path -> Seq(Byte)]
        /\ st \in Stream /\ Writes = st.off + Len(st.buf)
    BY DEF TypeOK, RecvTypeOK, Writes, Current
  <1>2. /\ st.path = Dst /\ Dst \in Path /\ st.off \in Nat /\ st.buf \in Seq(Byte)
        /\ FaithfulFrom(st.off, st.buf)
    BY <1>1 DEF IFiles, Stream
  <1>3. buf \in Seq(Byte) /\ Len(buf) = Len(st.buf) + Len(bytes) /\ n \in 0 .. Len(buf)
    BY <1>2
  <1>4. FaithfulFrom(st.off, buf)
    BY <1>1, <1>2, FaithfulConcat
  <1>5. /\ disk' = [disk EXCEPT ![Dst] = WriteAt(@, st.off, x)]
        /\ streams' = [streams EXCEPT ![fp] = new]
    BY <1>2 DEF PutAndDrain
  <1> HIDE DEF buf, st
  <1>6. /\ 1 \in 1 .. Len(buf) + 1 /\ n \in 1 - 1 .. Len(buf)
        /\ n + 1 \in 1 .. Len(buf) + 1 /\ Len(buf) \in (n + 1) - 1 .. Len(buf)
        /\ st.off + (1 - 1) = st.off /\ st.off + ((n + 1) - 1) = st.off + n
    BY <1>2, <1>3
  <1>7. /\ x \in Seq(Byte) /\ y \in Seq(Byte) /\ Len(y) = Len(buf) - n
        /\ FaithfulFrom(st.off + (1 - 1), x) /\ FaithfulFrom(st.off + ((n + 1) - 1), y)
    <2>1. x \in Seq(Byte) /\ y \in Seq(Byte) /\ Len(y) = Len(buf) - (n + 1) + 1
      BY <1>3, <1>6, SubSeqType
    <2>2. Len(buf) - (n + 1) + 1 = Len(buf) - n
      BY <1>3
    <2>3. FaithfulFrom(st.off + (1 - 1), x) /\ FaithfulFrom(st.off + ((n + 1) - 1), y)
      BY <1>2, <1>3, <1>4, <1>6, FaithfulPiece
    <2> QED
      BY <2>1, <2>2, <2>3
  <1> HIDE DEF x, y
  <1>8. FaithfulFrom(0, WriteAt(disk[Dst], st.off, x))
    <2>1. FaithfulFrom(st.off, x) /\ FaithfulFrom(0, disk[Dst])
      BY <1>6, <1>7 DEF IFiles
    <2> QED
      BY <1>1, <1>2, <1>7, <2>1, FaithfulWrite
  <1>9. /\ disk'[Dst] = WriteAt(disk[Dst], st.off, x)
        /\ \A p \in Path \ {Dst} : disk'[p] = disk[p]
    BY <1>1, <1>2, <1>5
  <1>10. new.path = Dst /\ new.off = st.off + n /\ new.buf = y /\ new \in Stream
    BY <1>2, <1>3, <1>7 DEF Stream
  <1> HIDE DEF new
  <1>11. /\ DOMAIN streams' = DOMAIN streams /\ Len(streams') = Len(streams)
         /\ \A j \in DOMAIN streams : streams'[j] = IF j = fp THEN new ELSE streams[j]
    BY <1>1, <1>5, <1>10
  <1>12. FaithfulFrom(new.off, new.buf)
    BY <1>6, <1>7, <1>10
  <1>13. IFiles'
    <2>1. \A p \in Path \ {Dst} : disk'[p] \in OldContent
      BY <1>9 DEF IFiles
    <2>2. \A j \in DOMAIN streams' :
              streams'[j].path = Dst /\ FaithfulFrom(streams'[j].off, streams'[j].buf)
      BY <1>10, <1>11, <1>12 DEF IFiles
    <2>3. FaithfulFrom(0, disk'[Dst])
      BY <1>8, <1>9
    <2> QED
      BY <2>1, <2>2, <2>3 DEF IFiles, Dst, FaithfulFrom, Faithful, Versions
  <1>14. Writes' = Writes + Len(bytes)
    <2>1. Writes' = streams'[Len(streams')].off + Len(streams'[Len(streams')].buf)
      BY DEF Writes, Current
    <2>2. Writes' = (st.off + n) + Len(y)
      BY <1>1, <1>10, <1>11, <2>1
    <2>3. Len(bytes) \in Nat /\ Len(st.buf) \in Nat
      BY <1>2
    <2>4. /\ st.off \in Nat /\ n \in Nat /\ Writes = st.off + Len(st.buf)
          /\ Len(y) = (Len(st.buf) + Len(bytes)) - n
      BY <1>1, <1>2, <1>3, <1>7
    <2>5. (st.off + n) + Len(y) = (st.off + Len(st.buf)) + Len(bytes)
      BY ONLY <2>3, <2>4
    <2> QED
      BY <2>2, <2>4, <2>5
  <1> QED
    BY <1>11, <1>13, <1>14

\* The receiver takes the oldest frame; next is where it ends.
LEMMA TakeOffsets ==
    ASSUME TypeOK, IQueue, UNCHANGED sendVars, toServer # <<>>, toServer' = Tail(toServer),
           \A off, next \in Nat :
               AtFront(off) /\ Fits(Head(toServer), off) /\ next = After(Head(toServer), off)
                   => (srv' = "up" /\ streams' # <<>> => next = Writes')
    PROVE  IQueue'
  <1>1. PICK at : InQueue(toServer, at) /\ AtFront(at[1]) /\ AtEnd(at[Len(toServer) + 1])
    BY DEF IQueue
  <1>2. /\ toServer \in Seq(Frame) /\ toServer' \in Seq(Frame)
        /\ Len(toServer') = Len(toServer) - 1
        /\ \A k \in 1 .. Len(toServer') : toServer'[k] = toServer[k + 1]
        /\ Head(toServer) = toServer[1]
        /\ 1 \in 1 .. Len(toServer) /\ 1 \in 0 .. Len(toServer)
    BY TailType DEF TypeOK, LinkTypeOK
  <1>3. /\ at[1] \in Nat /\ at[2] \in Nat
        /\ at[2] = After(Head(toServer), at[1]) /\ Fits(Head(toServer), at[1])
    <2>1. 1 \in 1 .. Len(toServer) + 1 /\ 2 \in 1 .. Len(toServer) + 1
      BY <1>2
    <2> QED
      BY <1>1, <1>2, <2>1 DEF InQueue
  <1>4. PICK new : /\ InQueue(toServer', new)
                   /\ new[1] = at[1 + 1]
                   /\ new[Len(toServer') + 1] = at[Len(toServer) + 1]
    BY <1>1, <1>2, QueueShrinks
  <1>5. srv' = "up" /\ streams' # <<>> => new[1] = Writes'
    BY <1>1, <1>3, <1>4
  <1>6. AtFront(new[1])' /\ AtEnd(new[Len(toServer) + 1])'
    BY <1>1, <1>4, <1>5 DEF AtFront, AtEnd, sendVars
  <1> QED
    BY <1>4, <1>6 DEF IQueue

\* What is known of the frame the receiver takes.
LEMMA FrontFits ==
    ASSUME TypeOK, IQueue, toServer # <<>>
    PROVE  /\ Head(toServer) \in Frame
           /\ \E off \in Nat : AtFront(off) /\ Fits(Head(toServer), off)
  <1>1. PICK at : InQueue(toServer, at) /\ AtFront(at[1])
    BY DEF IQueue
  <1>2. /\ toServer \in Seq(Frame) /\ Head(toServer) \in Frame
        /\ Head(toServer) = toServer[1]
        /\ 1 \in 1 .. Len(toServer) /\ 1 \in 1 .. Len(toServer) + 1
    BY TailType DEF TypeOK, LinkTypeOK
  <1>3. at[1] \in Nat /\ Fits(Head(toServer), at[1])
    BY <1>1, <1>2 DEF InQueue
  <1> QED
    BY <1>1, <1>2, <1>3

\* A good data frame holds what belongs where the receiver writes.
LEMMA ContextFaithful ==
    ASSUME TypeOK, IOffsets, Reads(ING), Good(Head(toServer)), fp # 0
    PROVE  /\ Head(toServer).context \in Seq(Byte)
           /\ FaithfulFrom(Writes, Head(toServer).context)
           /\ Writes \in Nat
           /\ fp = Len(streams) /\ streams # <<>>
  <1>1. /\ srv = "up" /\ toServer # <<>> /\ Head(toServer).status = ING
        /\ fp = Len(streams) /\ streams \in Seq(Stream) /\ IQueue
    BY DEF Reads, IOffsets, IPointer, TypeOK, RecvTypeOK
  <1>2. streams # <<>> /\ Current \in Stream
    BY <1>1 DEF Current
  <1>3. Writes \in Nat
    BY <1>2 DEF Writes, Stream
  <1>4. Head(toServer).context \in Seq(Byte)
    BY <1>1, FrontFits, FrameFields
  <1>5. PICK off \in Nat : AtFront(off) /\ Fits(Head(toServer), off)
    BY <1>1, FrontFits
  <1>6. off = Writes
    BY <1>1, <1>2, <1>5 DEF AtFront
  <1>7. FaithfulFrom(off, Head(toServer).context)
    BY <1>1, <1>5 DEF Fits
  <1> QED
    BY <1>1, <1>2, <1>3, <1>4, <1>6, <1>7

LEMMA NothingFaithful ==
    ASSUME NEW off
    PROVE  FaithfulFrom(off, <<>>) /\ <<>> \in Seq(Byte) /\ Len(<<>>) = 0
  BY DEF FaithfulFrom

\* The receiver takes a frame and stops reading: the queue leads nowhere now.
LEMMA LastTaken ==
    ASSUME TypeOK, IQueue, UNCHANGED sendVars, toServer # <<>>, toServer' = Tail(toServer),
           srv' # "up"
    PROVE  IPointer' /\ IQueue'
  <1>1. IQueue'
    BY TakeOffsets
  <1> QED
    BY <1>1 DEF IPointer

LEMMA CreateFileOffsets ==
    ASSUME OneSender, TypeOK, IOffsets, UNCHANGED sendVars, CreateFile
    PROVE  IPointer' /\ IFiles' /\ IQueue'
  <1> DEFINE new == [path |-> Dst, off |-> 0, buf |-> <<>>]
  <1>1. /\ toServer # <<>> /\ Head(toServer).status = START /\ IQueue
        /\ streams \in Seq(Stream) /\ disk \in [Path -> Seq(Byte)]
    BY DEF CreateFile, Reads, IOffsets, TypeOK, RecvTypeOK
  <1>2. /\ Head(toServer).path = Dst /\ Dst \in Path
    <2>1. PICK off \in Nat : Fits(Head(toServer), off)
      BY <1>1, FrontFits
    <2>2. Head(toServer).path = Dst
      BY <1>1, <2>1 DEF Fits
    <2> QED
      BY <1>1, <2>2, FrontFits, FrameFields
  <1>3. /\ disk' = [disk EXCEPT ![Dst] = <<>>]
        /\ streams' = Append(streams, new)
        /\ fp' = Len(streams) + 1
        /\ toServer' = Tail(toServer)
    BY <1>2 DEF CreateFile, Accept, Answer
  <1>4. new \in Stream /\ new.path = Dst /\ new.off = 0 /\ new.buf = <<>>
    BY <1>2, NothingFaithful DEF Stream
  <1> HIDE DEF new
  <1>5. /\ Len(streams') = Len(streams) + 1 /\ DOMAIN streams' = 1 .. Len(streams) + 1
        /\ streams' # <<>> /\ Len(streams) \in Nat
        /\ \A j \in 1 .. Len(streams) + 1 :
               streams'[j] = IF j = Len(streams) + 1 THEN new ELSE streams[j]
    <2>1. streams \in Seq(Stream) /\ new \in Stream /\ streams' = Append(streams, new)
      BY <1>1, <1>3, <1>4
    <2> QED
      BY ONLY <2>1
  <1>6. IPointer'
    BY <1>3, <1>5 DEF IPointer
  <1>7. IFiles'
    <2>1. \A p \in Path \ {Dst} : disk'[p] \in OldContent
      BY <1>1, <1>3 DEF IOffsets, IFiles
    <2>2. FaithfulFrom(0, disk'[Dst])
      BY <1>1, <1>2, <1>3, NothingFaithful
    <2>3. ASSUME NEW j \in DOMAIN streams'
          PROVE  streams'[j].path = Dst /\ FaithfulFrom(streams'[j].off, streams'[j].buf)
      <3>1. CASE j = Len(streams) + 1
        <4>1. streams'[j] = new
          BY <1>5, <3>1
        <4>2. FaithfulFrom(new.off, new.buf)
          BY <1>4, NothingFaithful
        <4> QED
          BY <1>4, <4>1, <4>2
      <3>2. CASE j # Len(streams) + 1
        <4>1. streams'[j] = streams[j] /\ j \in DOMAIN streams
          BY <1>1, <1>5, <3>2
        <4> QED
          BY <4>1 DEF IOffsets, IFiles
      <3> QED
        BY <3>1, <3>2
    <2> QED
      BY <2>1, <2>2, <2>3 DEF IFiles, Dst, FaithfulFrom, Faithful, Versions
  <1>8. Writes' = 0
    <2>1. Writes' = streams'[Len(streams')].off + Len(streams'[Len(streams')].buf)
      BY DEF Writes, Current
    <2>2. streams'[Len(streams')] = new
      BY <1>5
    <2> QED
      BY <1>4, <2>1, <2>2, NothingFaithful
  <1>9. IQueue'
    <2>1. \A off : After(Head(toServer), off) = 0
      BY <1>1 DEF After
    <2> QED
      BY <1>1, <1>3, <1>8, <2>1, TakeOffsets
  <1> QED
    BY <1>6, <1>7, <1>9

LEMMA RecvFileDataOffsets ==
    ASSUME OneSender, TypeOK, IOffsets, UNCHANGED sendVars, RecvFileData
    PROVE  IPointer' /\ IFiles' /\ IQueue'
  <1> DEFINE bytes == Head(toServer).context
  <1>1. /\ toServer # <<>> /\ toServer' = Tail(toServer) /\ Reads(ING)
        /\ Head(toServer).status = ING /\ srv = "up" /\ fp' = fp
        /\ IPointer /\ IFiles /\ IQueue /\ Good(Head(toServer))
        /\ fp = Len(streams) /\ streams \in Seq(Stream)
    BY DEF RecvFileData, Accept, Answer, Reads, IOffsets, IPointer, Good, TypeOK, RecvTypeOK
  <1>2. CASE fp # 0
    <2>1. /\ bytes \in Seq(Byte) /\ FaithfulFrom(Writes, bytes) /\ Writes \in Nat
          /\ streams # <<>>
      BY <1>1, <1>2, ContextFaithful
    <2>2. PICK n \in 0 .. Len(streams[fp].buf) + Len(bytes) : PutAndDrain(fp, bytes, n)
      BY <1>2 DEF RecvFileData
    <2>3. /\ IFiles' /\ Writes' = Writes + Len(bytes) /\ Len(streams') = Len(streams)
      <3>1. IFiles /\ fp = Len(streams)
        BY <1>1
      <3> HIDE DEF bytes
      <3> QED
        BY <1>2, <2>1, <2>2, <3>1, DrainFaithful
    <2>4. IPointer'
      BY <1>1, <2>3 DEF IPointer
    <2>5. IQueue'
      <3>1. \A off : AtFront(off) => After(Head(toServer), off) = Writes'
        BY <1>1, <2>1, <2>3 DEF AtFront, After
      <3> QED
        BY <1>1, <3>1, TakeOffsets
    <2> QED
      BY <2>3, <2>4, <2>5
  <1>3. CASE fp = 0
    <2>1. streams = <<>> /\ UNCHANGED <<disk, streams>>
      BY <1>1, <1>3, EmptySeq DEF RecvFileData
    <2>2. IFiles' /\ IPointer'
      BY <1>1, <1>3, <2>1 DEF IFiles, IPointer, Dst, FaithfulFrom, Faithful, Versions
    <2>3. IQueue'
      BY <1>1, <2>1, TakeOffsets
    <2> QED
      BY <2>2, <2>3
  <1> QED
    BY <1>2, <1>3

\* The last frame of a run: refused, or END, or the one that kills it.
LEMMA RefuseOffsets ==
    ASSUME OneSender, TypeOK, IOffsets, UNCHANGED sendVars,
           CreateFileFails \/ ChecksumFails \/ FwriteFails \/ FwriteToNull \/ RecvEnd \/ FflushFails
    PROVE  IPointer' /\ IFiles' /\ IQueue'
  <1>1. /\ toServer # <<>> /\ toServer' = Tail(toServer) /\ srv = "up" /\ srv' # "up"
        /\ IFiles /\ IQueue /\ fp = Len(streams) /\ streams \in Seq(Stream)
    BY DEF CreateFileFails, ChecksumFails, FwriteFails, FwriteToNull, RecvEnd, FflushFails,
           Refuse, Answer, Reads, IOffsets, IPointer, TypeOK, RecvTypeOK
  <1>2. IPointer' /\ IQueue'
    BY <1>1, LastTaken
  <1> SUFFICES IFiles'
    BY <1>2
  <1>3. ASSUME NEW bytes \in Seq(Byte), fp # 0, FaithfulFrom(Writes, bytes),
               NEW n \in 0 .. Len(streams[fp].buf) + Len(bytes), PutAndDrain(fp, bytes, n)
        PROVE  IFiles'
    BY <1>1, <1>3, DrainFaithful
  <1>4. ASSUME UNCHANGED disk, streams' = streams \/ streams' = <<>>
        PROVE  IFiles'
    BY <1>1, <1>4 DEF IFiles, Dst, FaithfulFrom, Faithful, Versions
  <1>5. CASE CreateFileFails \/ ChecksumFails \/ FwriteToNull
    BY <1>4, <1>5 DEF CreateFileFails, ChecksumFails, FwriteToNull
  <1>6. CASE FwriteFails
    <2> DEFINE bytes == Head(toServer).context
    <2>1. Reads(ING) /\ Good(Head(toServer)) /\ fp # 0
      BY <1>6 DEF FwriteFails, Good
    <2>2. /\ bytes \in Seq(Byte) /\ FaithfulFrom(Writes, bytes) /\ Writes \in Nat
      BY <2>1, ContextFaithful
    <2>3. PICK taken \in 0 .. Len(bytes) - 1 :
              \E n \in 0 .. Len(streams[fp].buf) + taken :
                  PutAndDrain(fp, SubSeq(bytes, 1, taken), n)
      BY <1>6 DEF FwriteFails
    <2> DEFINE piece == SubSeq(bytes, 1, taken)
    <2>4. PICK n \in 0 .. Len(streams[fp].buf) + taken : PutAndDrain(fp, piece, n)
      BY <2>3
    <2> HIDE DEF bytes
    <2>5. /\ 1 \in 1 .. Len(bytes) + 1 /\ taken \in 1 - 1 .. Len(bytes)
          /\ Writes + (1 - 1) = Writes /\ taken - 1 + 1 = taken
      BY <2>2, <2>3
    <2>6. piece \in Seq(Byte) /\ Len(piece) = taken
      BY <2>2, <2>5, SubSeqType
    <2>7. FaithfulFrom(Writes + (1 - 1), piece)
      BY <2>2, <2>5, FaithfulPiece
    <2>8. FaithfulFrom(Writes, piece)
      BY <2>5, <2>7
    <2> HIDE DEF piece
    <2> QED
      BY <1>3, <2>1, <2>4, <2>6, <2>8
  <1>7. CASE RecvEnd \/ FflushFails
    <2>1. CASE fp = 0
      BY <1>4, <1>7, <2>1 DEF RecvEnd, FflushFails
    <2>2. CASE fp # 0
      <3>1. \E n \in 0 .. Len(streams[fp].buf) : PutAndDrain(fp, <<>>, n)
        <4>1. Len(streams[fp].buf) \in Nat
          <5>1. streams[fp] \in Stream
            BY <1>1, <2>2
          <5> QED
            BY <5>1 DEF Stream
        <4> QED
          BY <1>7, <2>2, <4>1 DEF RecvEnd, FflushFails
      <3>2. PICK n \in 0 .. Len(streams[fp].buf) : PutAndDrain(fp, <<>>, n)
        BY <3>1
      <3>3. Len(streams[fp].buf) + Len(<<>>) = Len(streams[fp].buf)
        <4>1. streams[fp] \in Stream
          BY <1>1, <2>2
        <4> QED
          BY <4>1 DEF Stream
      <3> QED
        BY <1>3, <2>2, <3>2, <3>3, NothingFaithful
    <2> QED
      BY <2>1, <2>2
  <1> QED
    BY <1>5, <1>6, <1>7

\* The receiver is past its loop: one stream after another is closed.
LEMMA CloseOffsets ==
    ASSUME OneSender, TypeOK, IOffsets, UNCHANGED sendVars, CloseStream
    PROVE  IPointer' /\ IFiles' /\ IQueue'
  <1> DEFINE last == Len(streams)
             st == streams[last]
  <1>1. /\ srv' # "up" /\ UNCHANGED toServer /\ streams # <<>> /\ IFiles /\ IQueue
        /\ streams \in Seq(Stream) /\ disk \in [Path -> Seq(Byte)] /\ st \in Stream
        /\ Len(streams) \in 1 .. Len(streams)
    BY DEF CloseStream, linkVars, IOffsets, TypeOK, RecvTypeOK
  <1>2. IPointer' /\ IQueue'
    BY <1>1 DEF IPointer, IQueue, AtFront, AtEnd, sendVars
  <1>3. /\ st.path = Dst /\ Dst \in Path /\ st.off \in Nat /\ st.buf \in Seq(Byte)
        /\ FaithfulFrom(st.off, st.buf)
    BY <1>1 DEF IFiles, Stream
  <1>4. PICK n \in 0 .. Len(st.buf) :
            disk' = [disk EXCEPT ![st.path] = WriteAt(@, st.off, SubSeq(st.buf, 1, n))]
    <2>1. Len(st.buf) \in 0 .. Len(st.buf)
      BY <1>3
    <2> QED
      BY <2>1 DEF CloseStream
  <1>5. streams' \in Seq(Stream) /\ \A j \in DOMAIN streams' : j \in DOMAIN streams /\ streams'[j] = streams[j]
    <2>1. streams' = SubSeq(streams, 1, Len(streams) - 1)
      BY DEF CloseStream, Front
    <2>2. 1 \in 1 .. Len(streams) + 1 /\ Len(streams) - 1 \in 1 - 1 .. Len(streams)
      BY <1>1
    <2>3. /\ streams' \in Seq(Stream) /\ Len(streams') = Len(streams) - 1
          /\ \A k \in 1 .. Len(streams) - 1 : streams'[k] = streams[1 + k - 1]
      <3>1. (Len(streams) - 1) - 1 + 1 = Len(streams) - 1
        BY <1>1
      <3> QED
        BY <1>1, <2>1, <2>2, <3>1, SubSeqType
    <2> QED
      BY <1>1, <2>3
  <1> HIDE DEF st, last
  <1> DEFINE x == SubSeq(st.buf, 1, n)
  <1>6. x \in Seq(Byte) /\ FaithfulFrom(st.off, x)
    <2>1. 1 \in 1 .. Len(st.buf) + 1 /\ n \in 1 - 1 .. Len(st.buf) /\ st.off + (1 - 1) = st.off
      BY <1>3
    <2>2. FaithfulFrom(st.off + (1 - 1), x)
      BY <1>3, <2>1, FaithfulPiece
    <2> QED
      BY <1>3, <2>1, <2>2, SubSeqType
  <1> HIDE DEF x
  <1>7. FaithfulFrom(0, WriteAt(disk[Dst], st.off, x))
    <2>1. FaithfulFrom(0, disk[Dst])
      BY <1>1 DEF IFiles
    <2> QED
      BY <1>1, <1>3, <1>6, <2>1, FaithfulWrite
  <1>8. /\ disk'[Dst] = WriteAt(disk[Dst], st.off, x)
        /\ \A p \in Path \ {Dst} : disk'[p] = disk[p]
    BY <1>1, <1>3, <1>4 DEF x
  <1>9. IFiles'
    <2>1. \A p \in Path \ {Dst} : disk'[p] \in OldContent
      BY <1>1, <1>8 DEF IFiles
    <2>2. \A j \in DOMAIN streams' :
              streams'[j].path = Dst /\ FaithfulFrom(streams'[j].off, streams'[j].buf)
      BY <1>1, <1>5 DEF IFiles
    <2>3. FaithfulFrom(0, disk'[Dst])
      BY <1>7, <1>8
    <2> QED
      BY <2>1, <2>2, <2>3 DEF IFiles, Dst, FaithfulFrom, Faithful, Versions
  <1> QED
    BY <1>2, <1>9

LEMMA ServerOffsets ==
    ASSUME OneSender, TypeOK, IOffsets, UNCHANGED sendVars, ServerStep
    PROVE  IPointer' /\ IFiles' /\ IQueue'
  <1>1. /\ IPointer /\ IFiles /\ IQueue
    BY DEF IOffsets
  <1>2. CASE RecvInvalid
    <2>1. /\ toServer # <<>> /\ toServer' = Tail(toServer) /\ Head(toServer).status = UNKNOWN
          /\ UNCHANGED <<srv, fp, streams, disk>>
      BY <1>2 DEF RecvInvalid, Accept, Answer, Reads
    <2>2. IPointer' /\ IFiles' /\ Writes' = Writes
      BY <1>1, <2>1 DEF IPointer, IFiles, Dst, FaithfulFrom, Faithful, Versions, Writes, Current
    <2>3. \A off : After(Head(toServer), off) = off
      BY <2>1 DEF After
    <2>4. \A off : AtFront(off) => (srv' = "up" /\ streams' # <<>> => off = Writes')
      BY <2>1, <2>2 DEF AtFront
    <2>5. IQueue'
      BY <1>1, <2>1, <2>3, <2>4, TakeOffsets
    <2> QED
      BY <2>2, <2>5
  <1>3. CASE RecvFails \/ Exit
    <2>1. UNCHANGED <<toServer, fp, streams, disk>> /\ srv' # "up"
      BY <1>3 DEF RecvFails, Exit, linkVars
    <2> QED
      BY <1>1, <2>1 DEF IPointer, IFiles, Dst, FaithfulFrom, Faithful, Versions,
                        IQueue, AtFront, AtEnd, sendVars
  <1> QED
    BY <1>2, <1>3, CreateFileOffsets, RecvFileDataOffsets, RefuseOffsets, CloseOffsets
    DEF ServerStep

-----------------------------------------------------------------------------
(* The steps of the segment and of the users.                              *)

LEMMA LinkOffsets ==
    ASSUME OneSender, TypeOK, IOffsets, LinkFault
    PROVE  IOffsets'
  <1>1. /\ UNCHANGED <<srv, fp, streams, disk, cpc, src, pos>>
        /\ toServer \in Seq(Frame) /\ ~LoseFrame
    BY DEF LinkFault, sendVars, recvVars, TypeOK, LinkTypeOK, LoseFrame, OneSender
  <1>2. /\ IPointer' /\ IFiles' /\ ISource'
        /\ \A off : AtFront(off)' = AtFront(off) /\ AtEnd(off)' = AtEnd(off)
    BY <1>1 DEF IOffsets, IPointer, IFiles, ISource, AtFront, AtEnd, Writes, Current,
                Dst, FaithfulFrom, Faithful, Versions
  <1> SUFFICES IQueue'
    BY <1>2 DEF IOffsets
  <1>3. PICK at : InQueue(toServer, at) /\ AtFront(at[1]) /\ AtEnd(at[Len(toServer) + 1])
    BY DEF IOffsets, IQueue
  <1>4. CASE toServer' = toServer
    BY <1>2, <1>3, <1>4 DEF IQueue
  <1>5. CASE Corrupt
    <2>1. PICK i \in DOMAIN toServer :
             /\ toServer[i].status = ING
             /\ \E damaged \in [1 .. Len(toServer[i].context) -> Byte] :
                    /\ checksum(damaged) # toServer[i].sum
                    /\ toServer' = [toServer EXCEPT ![i] =
                                        [toServer[i] EXCEPT !.context = damaged]]
      BY <1>5 DEF Corrupt
    <2>2. PICK damaged \in [1 .. Len(toServer[i].context) -> Byte] :
             /\ checksum(damaged) # toServer[i].sum
             /\ toServer' = [toServer EXCEPT ![i] = [toServer[i] EXCEPT !.context = damaged]]
      BY <2>1
    <2> DEFINE frame == [toServer[i] EXCEPT !.context = damaged]
    <2>3. toServer[i] \in DataFrame /\ toServer[i].context \in Seq(Byte) /\ i \in 1 .. Len(toServer)
      BY <1>1, <2>1, FrameFields
    <2>4. Len(damaged) = Len(toServer[i].context)
      BY <2>2, <2>3
    <2>5. frame.status = ING /\ frame.context = damaged /\ frame.sum = toServer[i].sum
      BY <2>1, <2>3 DEF DataFrame
    <2>6. toServer' = [toServer EXCEPT ![i] = frame]
      BY <2>2
    <2> HIDE DEF frame
    <2>7. ~Good(frame)
      BY <2>2, <2>5 DEF Good
    <2>8. InQueue(toServer', at)
      BY <1>1, <1>3, <2>1, <2>3, <2>4, <2>5, <2>6, <2>7, QueueDamaged
    <2>9. Len(toServer') = Len(toServer)
      BY <1>1, <2>3, <2>6
    <2> QED
      BY <1>2, <1>3, <2>8, <2>9 DEF IQueue
  <1>6. CASE toServer' # toServer /\ Stray
    <2>1. PICK c \in Client : toServer' = Append(toServer, [src |-> c, status |-> UNKNOWN])
      BY <1>6 DEF Stray
    <2> DEFINE frame == [src |-> c, status |-> UNKNOWN]
    <2>2. frame \in Frame /\ frame.status = UNKNOWN
      BY DEF Frame, PlainFrame
    <2> HIDE DEF frame
    <2>3. \A off : Fits(frame, off) /\ After(frame, off) = off
      BY <2>2 DEF Fits, After
    <2>4. toServer' = Append(toServer, frame)
      BY <2>1 DEF frame
    <2>5. PICK new : /\ InQueue(toServer', new)
                     /\ new[1] = at[1]
                     /\ new[Len(toServer') + 1] = After(frame, at[Len(toServer) + 1])
      BY <1>1, <1>3, <2>2, <2>3, <2>4, QueueGrows
    <2>6. AtFront(new[1]) /\ AtEnd(new[Len(toServer') + 1])
      BY <1>3, <2>3, <2>5
    <2> QED
      BY <1>2, <2>5, <2>6 DEF IQueue
  <1>7. LoseAck => toServer' = toServer
    BY DEF LoseAck
  <1> QED
    BY <1>1, <1>4, <1>5, <1>6, <1>7 DEF LinkFault, LinkNext

\* Whoever is started or killed between two frames: no stream is open then.
LEMMA ServerUserOffsets ==
    ASSUME OneSender, TypeOK, IOffsets, UNCHANGED sendVars, ServerRestart \/ ServerKilled
    PROVE  IOffsets'
  <1>1. /\ streams' = <<>> /\ fp' = 0 /\ UNCHANGED <<disk, cpc, src, pos>>
        /\ toServer \in Seq(Frame)
    BY DEF ServerRestart, ServerKilled, sendVars, TypeOK, LinkTypeOK
  <1>2. IPointer' /\ IFiles' /\ ISource' /\ \A off : AtFront(off)' /\ AtEnd(off)' = AtEnd(off)
    BY <1>1 DEF IOffsets, IPointer, IFiles, ISource, AtFront, AtEnd,
                Dst, FaithfulFrom, Faithful, Versions
  <1>3. PICK at : InQueue(toServer, at) /\ AtEnd(at[Len(toServer) + 1])
    BY DEF IOffsets, IQueue
  <1>4. CASE ServerRestart
    <2>1. toServer' \in Remainders(toServer)
      BY <1>4 DEF ServerRestart
    <2>2. toServer' \in Seq(Frame)
      BY <1>1, <2>1, RemainderType
    <2>3. PICK d \in 0 .. Len(toServer) :
              /\ Len(toServer') = Len(toServer) - d
              /\ \A k \in 1 .. Len(toServer') : toServer'[k] = toServer[k + d]
      BY <1>1, <2>1, RemainderType
    <2>4. \E new : /\ InQueue(toServer', new)
                   /\ new[1] = at[d + 1]
                   /\ new[Len(toServer') + 1] = at[Len(toServer) + 1]
      BY <1>1, <1>3, <2>2, <2>3, QueueShrinks
    <2>5. PICK new : /\ InQueue(toServer', new)
                     /\ new[Len(toServer') + 1] = at[Len(toServer) + 1]
      BY <2>4, Zenon
    <2>6. IQueue'
      BY <1>2, <1>3, <2>5 DEF IQueue
    <2> QED
      BY <1>2, <2>6 DEF IOffsets
  <1>5. CASE ServerKilled
    <2>1. toServer' = toServer
      BY <1>5 DEF ServerKilled, linkVars
    <2> QED
      BY <1>2, <1>3, <2>1 DEF IOffsets, IQueue
  <1> QED
    BY <1>4, <1>5

LEMMA InitOffsets ==
    ASSUME OneSender, Init
    PROVE  IOffsets
  <1> DEFINE at == [i \in 1 .. 1 |-> 0]
  <1>1. /\ toServer = <<>> /\ streams = <<>> /\ fp = 0 /\ c1 \in Client
        /\ disk \in [Path -> OldContent] /\ cpc[c1] = "idle" /\ OldContent \subseteq Seq(Byte)
    BY RecvAssumption DEF Init, LinkInit, SendInit, RecvInit, OneSender
  <1>2. IPointer /\ ISource
    BY <1>1 DEF IPointer, ISource, NotRunning
  <1>3. IFiles
    <2>1. Dst \in Path
      BY <1>1, SendAssumption DEF Dst
    <2>2. disk[Dst] \in Versions(Dst) /\ disk[Dst] \in Seq(Byte)
      BY <1>1, <2>1 DEF Versions
    <2>3. FaithfulFrom(0, disk[Dst])
      BY <2>2, VersionFaithful
    <2> QED
      BY <1>1, <2>3 DEF IFiles
  <1>4. InQueue(toServer, at)
    <2>1. Len(toServer) = 0
      BY <1>1
    <2>2. at \in [1 .. Len(toServer) + 1 -> Nat] /\ 1 .. Len(toServer) = {}
      BY <2>1
    <2> QED
      BY <2>2 DEF InQueue
  <1>5. AtFront(at[1]) /\ AtEnd(at[Len(toServer) + 1])
    BY <1>1 DEF AtFront, AtEnd, NotRunning
  <1> HIDE DEF at
  <1> QED
    BY <1>2, <1>3, <1>4, <1>5 DEF IOffsets, IQueue

LEMMA StepOffsets ==
    ASSUME OneSender, TypeOK, IOffsets, [Next]_vars
    PROVE  IOffsets'
  <1>1. ASSUME UNCHANGED recvVars
        PROVE  IPointer' /\ IFiles'
    BY <1>1 DEF recvVars, IOffsets, IPointer, IFiles, Dst, FaithfulFrom, Faithful, Versions
  <1>2. CASE \E c \in Client : (SendReq(c) \/ ClientStep(c) \/ ClientKilled(c)) /\ UNCHANGED recvVars
    BY <1>1, <1>2, ClientOffsets DEF OneSender, IOffsets
  <1>3. CASE ServerNext
    <2>1. ISource'
      BY <1>3 DEF ServerNext, sendVars, IOffsets, ISource
    <2> QED
      BY <1>3, <2>1, ServerOffsets DEF ServerNext, IOffsets
  <1>4. CASE LinkFault
    BY <1>4, LinkOffsets
  <1>5. CASE (ServerRestart \/ ServerKilled) /\ UNCHANGED sendVars
    BY <1>5, ServerUserOffsets
  <1>6. CASE UNCHANGED vars
    <2>1. UNCHANGED <<toServer, srv, streams, cpc, src, pos>> /\ UNCHANGED recvVars
      BY <1>6 DEF vars, linkVars, sendVars, recvVars
    <2>2. ISource' /\ IQueue'
      BY <2>1 DEF IOffsets, ISource, IQueue, AtFront, AtEnd, Writes, Current
    <2> QED
      BY <1>1, <2>1, <2>2 DEF IOffsets
  <1>7. \A c \in Client : ~FileGrows(c)
    BY DEF FileGrows, OneSender
  <1> QED
    BY <1>2, <1>3, <1>4, <1>5, <1>6, <1>7 DEF Next, ClientNext, UserNext

\* With one client, however often either program is killed and started again,
\* and whatever is damaged, refused, cut short or mixed with strange frames: as
\* long as no frame is lost between two others and the file is not edited
\* while it is sent, no byte of a file of the receiver is at a place where no
\* version of the file has it.
THEOREM OffsetFaithfulHolds ==
    ASSUME OneSender
    PROVE  Spec => []OffsetFaithful
  <1>1. TypeOK /\ IOffsets => OffsetFaithful
    <2> SUFFICES ASSUME TypeOK, IOffsets, NEW p \in Path, NEW i \in DOMAIN disk[p]
                 PROVE  \/ disk[p][i] = 0
                        \/ \E v \in Versions(p) : i \in DOMAIN v /\ v[i] = disk[p][i]
      BY DEF OffsetFaithful
    <2>1. CASE p = Dst
      <3>1. Faithful(0 + i, disk[p][i])
        BY <2>1 DEF IOffsets, IFiles, FaithfulFrom
      <3>2. 0 + i = i
        BY DEF TypeOK, RecvTypeOK
      <3> QED
        BY <2>1, <3>1, <3>2 DEF Faithful
    <2>2. CASE p # Dst
      BY <2>2 DEF IOffsets, IFiles, Versions
    <2> QED
      BY <2>1, <2>2
  <1> QED
    BY <1>1, InitOffsets, StepOffsets, TypeCorrect, PTL DEF Spec
=============================================================================
