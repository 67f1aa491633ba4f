--------------------------- MODULE MCFileTransmit ---------------------------
(***************************************************************************)
(* Instances of FileTransmit for TLC, and the refinement of FileCopy.      *)
(***************************************************************************)
EXTENDS FileTransmit

CONSTANTS c1, c2, file

\* Two bytes per frame, so that the lengths below cover: the empty file, less
\* than a frame, exactly one frame (followed by an empty one), more than one.
MCByte == {0, 1, 2}
MCSource == [c \in Client |->
    {<<>>, <<1>>, <<1, 2>>, <<2, 1, 1>>, <<1, 1, 2, 2>>}]
\* Contents with no byte in common at any offset, one per client.
MCTwoSources == [c \in Client |-> IF c = c1 THEN {<<1, 1, 1>>} ELSE {<<2, 2>>}]
\* A user who edits the file between two runs.
MCEdits == [c \in Client |-> {<<1, 2>>, <<2, 1, 1>>}]
MCDst == [c \in Client |-> file]
\* Longer than any of the sources, so that it is told from every copy.
MCOld == {<<2, 2, 2, 2, 2, 2>>}
MCNoOld == {<<>>}

\* FileCopy as the single client c1 and the receiver implement it.
Copy == INSTANCE FileCopy WITH
    Contents    <- Source[c1],
    OldContents <- OldContent,
    source      <- src[c1],
    announced   <- fileSize[c1],
    copy        <- disk[DstOf[c1]],
    phase       <- IF runs[c1] = 0 THEN "idle"
                   ELSE IF disk[DstOf[c1]] \in OldContent THEN "begun"
                   ELSE "emptied",
    outcome     <- IF cpc[c1] # "done" THEN "none"
                   ELSE IF ret[c1] = SUCCESS THEN "success" ELSE "failed"

\* With one client, one run of each program and no stranger on the segment,
\* whatever is lost, damaged or fails, the programs implement FileCopy.
RefinesFileCopy == Copy!CopySpec
=============================================================================
