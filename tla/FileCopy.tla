------------------------------ MODULE FileCopy ------------------------------
(***************************************************************************)
(* What a file transfer promises its user, without protocol, frames or     *)
(* buffers: the copy first keeps what it held before, is emptied once, and *)
(* from then on is always a prefix of the source; success is announced     *)
(* only when the copy is complete, and from then on the copy is final.     *)
(***************************************************************************)
EXTENDS Integers, Sequences, SequencesExt

CONSTANTS Contents, OldContents

VARIABLES
    source,     \* the file to copy, chosen when the transfer begins
    announced,  \* its size then
    copy,       \* the file at the receiver
    phase,      \* "idle", "begun", "emptied"
    outcome     \* "none", "failed", "success"
copyVars == <<source, announced, copy, phase, outcome>>

CopyInit ==
    /\ source = <<>>
    /\ announced = 0
    /\ copy \in OldContents
    /\ phase = "idle"
    /\ outcome = "none"

Begin ==
    /\ phase = "idle"
    /\ source' \in Contents
    /\ announced' = Len(source')
    /\ phase' = "begun"
    /\ outcome' \in {"none", "failed"}
    /\ UNCHANGED copy

Empty ==
    /\ phase = "begun"
    /\ copy' = <<>>
    /\ phase' = "emptied"
    /\ UNCHANGED <<source, announced, outcome>>

\* Bytes may still arrive after a failure was announced.
Extend ==
    /\ phase = "emptied"
    /\ outcome # "success"
    /\ IsStrictPrefix(copy, copy')
    /\ IsPrefix(copy', source)
    /\ UNCHANGED <<source, announced, phase, outcome>>

SourceGrows ==
    /\ outcome = "none"
    /\ phase # "idle"
    /\ IsStrictPrefix(source, source')
    /\ UNCHANGED <<announced, copy, phase, outcome>>

Succeed ==
    /\ phase = "emptied"
    /\ outcome = "none"
    /\ IsPrefix(copy, source)
    /\ Len(copy) >= announced
    /\ outcome' = "success"
    /\ UNCHANGED <<source, announced, copy, phase>>

Fail ==
    /\ phase # "idle"
    /\ outcome = "none"
    /\ outcome' = "failed"
    /\ UNCHANGED <<source, announced, copy, phase>>

CopyNext == Begin \/ Empty \/ Extend \/ SourceGrows \/ Succeed \/ Fail
CopySpec == CopyInit /\ [][CopyNext]_copyVars
=============================================================================
