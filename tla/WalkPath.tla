------------------------------ MODULE WalkPath ------------------------------
(***************************************************************************)
(* walkthrough/walkthroughPath.c: get_dir_size, deleteFileAndDir,           *)
(* deleteFile and deleteMaxFile, while another process removes files.       *)
(*                                                                         *)
(* The stack has a frame per call that has a directory open.  stat follows *)
(* symbolic links, so that a link to a directory is walked as one.  No link *)
(* leads to a directory above it: such a walk ends only where stat does not *)
(* follow any more links.                                                  *)
(***************************************************************************)
EXTENDS Integers, Sequences, FiniteSets

CONSTANTS
    Path,       \* the directory that is walked
    Elsewhere,  \* the directory of what is not below Path
    Entry,      \* what there may be, below Path and elsewhere
    Place,      \* Place[e]: the directory an entry is in at first
    Leads,      \* Leads[e]: the directory that stat finds for e, or NULL for a file
    Size,       \* st_size of what stat finds, or of a link
    Expired,    \* entries that are too large or too old for deleteFile
    Depth,      \* entries on the longest way down
    NULL,
    MaxRemoved  \* bound: files the other process removes

ASSUME WalkAssumption ==
    /\ {Path, Elsewhere, NULL} \cap Entry = {} /\ NULL \notin {Path, Elsewhere}
    /\ Place \in [Entry -> Entry \cup {Path, Elsewhere}]
    /\ Leads \in [Entry -> Entry \cup {NULL}]
    /\ \A e \in Entry : Leads[e] # NULL => Leads[Leads[e]] = Leads[e]
    /\ Size \in [Entry -> Nat]
    /\ Expired \subseteq {e \in Entry : Leads[e] = NULL}

VARIABLES
    op,         \* the function that runs or ran
    done,
    place,      \* NULL for an entry that is gone
    stack,      \* frames: directory, entries readdir will return, size, entry walked
    last,       \* deleteName
    result,     \* of get_dir_size
    failed,     \* some opendir, stat or remove failed
    removed     \* number of files the other process removed
walkVars == <<op, done, place, stack, last, result, failed, removed>>

IsLink(e)   == Leads[e] # NULL /\ Leads[e] # e
Content(d)  == {e \in Entry : place[e] = d}

Frame(d, self) == [dir |-> d, todo |-> Content(d), size |-> 0, self |-> self]

WalkInit ==
    /\ op = "none"
    /\ done = FALSE
    /\ place = Place
    /\ stack = <<>>
    /\ last = NULL
    /\ result = 0
    /\ failed = FALSE
    /\ removed = 0

Top == stack[Len(stack)]
Below == SubSeq(stack, 1, Len(stack) - 1)
-----------------------------------------------------------------------------

\* A call of the function op on directory d, for the entry self; opendir may
\* fail (no permission, no descriptor left).
Call(d, self, frames) ==
    \/ stack' = Append(frames, Frame(d, self)) /\ UNCHANGED failed
    \/ stack' = Append(frames, [Frame(d, self) EXCEPT !.todo = {}, !.size = -1]) /\ failed' = TRUE

walk(function) ==
    /\ op = "none"
    /\ op' = function
    /\ Call(Path, NULL, <<>>)
    /\ UNCHANGED <<done, place, last, result, removed>>

\* readdir returns e, which may be gone.
Returned(e) == stack # <<>> /\ e \in Top.todo
Rest(e)     == Append(Below, [Top EXCEPT !.todo = @ \ {e}])

\* What a link leads to is gone.
Dangling(e) == IsLink(e) /\ place[Leads[e]] = NULL

\* stat fails, at what is gone and at anything else (no permission, a link that
\* leads nowhere): closedir and return, deleteMaxFile without removing anything.
StatFails(e) ==
    /\ Returned(e)
    /\ stack' = Append(Below, [Top EXCEPT !.todo = {}, !.size = -1])
    /\ last' = NULL
    /\ failed' = TRUE
    /\ UNCHANGED <<op, done, place, result, removed>>

StatSucceeds(e) == Returned(e) /\ place[e] = Top.dir /\ ~Dangling(e)

\* An entry that is gone by now may not be returned any more.
SkipGone(e) ==
    /\ Returned(e)
    /\ place[e] = NULL
    /\ stack' = Rest(e)
    /\ UNCHANGED <<op, done, place, last, result, failed, removed>>

Enter(e) ==
    /\ StatSucceeds(e) /\ Leads[e] # NULL
    /\ op # "deleteMaxFile"
    /\ Call(Leads[e], e, Rest(e))
    /\ UNCHANGED <<op, done, place, last, result, removed>>

AddSize(e) ==
    /\ StatSucceeds(e) /\ Leads[e] = NULL /\ op = "get_dir_size"
    /\ stack' = Append(Below, [Top EXCEPT !.todo = @ \ {e}, !.size = @ + Size[e]])
    /\ UNCHANGED <<op, done, place, last, result, failed, removed>>

\* deleteFile removes only what is expired, but everything in directories.
Doomed(e) == op = "deleteFileAndDir" \/ (op = "deleteFile" /\ (Len(stack) > 1 \/ e \in Expired))
Remove(e) ==
    /\ StatSucceeds(e) /\ Leads[e] = NULL /\ Doomed(e)
    /\ \/ place' = [place EXCEPT ![e] = NULL] /\ UNCHANGED failed
       \/ UNCHANGED place /\ failed' = TRUE
    /\ stack' = Rest(e)
    /\ UNCHANGED <<op, done, last, result, removed>>
Spare(e) ==
    /\ StatSucceeds(e) /\ Leads[e] = NULL /\ op = "deleteFile" /\ ~Doomed(e)
    /\ stack' = Rest(e)
    /\ UNCHANGED <<op, done, place, last, result, failed, removed>>

\* i stays 0: whatever comes next replaces deleteName.
Candidate(e) ==
    /\ StatSucceeds(e) /\ op = "deleteMaxFile"
    /\ last' = e
    /\ stack' = Rest(e)
    /\ UNCHANGED <<op, done, place, result, failed, removed>>

\* Mutant: an emptied directory is left to the caller.
ReturnWithoutRmdir(self) == UNCHANGED <<place, failed>>

\* rmdir of what was walked: it fails for a link and if anything is left.
ReturnToRmdir(self) ==
    IF IsLink(self) \/ Content(self) # {} \/ place[self] = NULL THEN UNCHANGED <<place, failed>>
    ELSE \/ place' = [place EXCEPT ![self] = NULL] /\ UNCHANGED failed
         \/ UNCHANGED place /\ failed' = TRUE

\* Mutant: = for +=.
SumReplaced(size, sub) == sub

\* A failure of the subdirectory counts as one byte less.
SumWith(size, sub) == size + sub

Return ==
    /\ Len(stack) > 1 /\ Top.todo = {}
    /\ LET up == stack[Len(stack) - 1] IN
          stack' = Append(SubSeq(stack, 1, Len(stack) - 2), [up EXCEPT !.size = SumWith(@, Top.size)])
    /\ IF op = "get_dir_size" THEN UNCHANGED <<place, failed>> ELSE ReturnToRmdir(Top.self)
    /\ UNCHANGED <<op, done, last, result, removed>>

\* deleteMaxFile removes its candidate; without one deleteName was never
\* written, and remove gets whatever stands there.
RemoveCandidate ==
    IF op # "deleteMaxFile" \/ failed THEN UNCHANGED <<place, failed>>
    ELSE \/ \E e \in (IF last = NULL THEN Entry ELSE {last}) :
               /\ Content(e) = {}
               /\ place' = [place EXCEPT ![e] = NULL]
               /\ UNCHANGED failed
         \/ UNCHANGED place /\ failed' = TRUE

Finish ==
    /\ Len(stack) = 1 /\ Top.todo = {}
    /\ stack' = <<>>
    /\ done' = TRUE
    /\ result' = Top.size
    /\ RemoveCandidate
    /\ UNCHANGED <<op, last, removed>>

\* The other process removes a file or a link.
OtherRemoves(e) ==
    /\ stack # <<>> /\ removed < MaxRemoved
    /\ place[e] # NULL /\ Leads[e] # e
    /\ place' = [place EXCEPT ![e] = NULL]
    /\ removed' = removed + 1
    /\ UNCHANGED <<op, done, stack, last, result, failed>>

WalkNext ==
    \/ \E f \in {"get_dir_size", "deleteFileAndDir", "deleteFile", "deleteMaxFile"} : walk(f)
    \/ \E e \in Entry : \/ StatFails(e) \/ SkipGone(e) \/ Enter(e) \/ AddSize(e)
                         \/ Remove(e) \/ Spare(e) \/ Candidate(e) \/ OtherRemoves(e)
    \/ Return
    \/ Finish

WalkSpec == WalkInit /\ [][WalkNext]_walkVars

-----------------------------------------------------------------------------

\* The directories a walk from Path comes to.
Reached ==
    LET closed == {S \in SUBSET (Entry \cup {Path}) :
                      Path \in S /\ \A e \in Entry : Place[e] \in S /\ Leads[e] # NULL => Leads[e] \in S}
    IN  {d \in Entry \cup {Path} : \A S \in closed : d \in S}

\* What a deletion has no business with: what is in no directory it comes to,
\* and the files deleteFile is to keep.
MustStay(e) ==
    \/ Place[e] \notin Reached
    \/ op = "deleteFile" /\ Place[e] = Path /\ Leads[e] = NULL /\ e \notin Expired

\* Whatever call fails, and wherever it gives up, deleteFileAndDir and deleteFile
\* remove nothing that must stay.  When every call succeeded, they leave no empty
\* directory and no file but those to be kept: what is left is a link to a
\* directory (which is emptied, wherever it is) or leads down to one.
LeftoversExplained ==
    op \in {"deleteFileAndDir", "deleteFile"} /\ removed = 0 =>
        /\ \A e \in Entry : MustStay(e) => place[e] = Place[e]
        /\ done /\ ~failed =>
              \A e \in Entry : place[e] \in Reached =>
                  \/ Leads[e] # NULL /\ (IsLink(e) \/ Content(e) # {})
                  \/ Leads[e] = NULL /\ op = "deleteFile" /\ place[e] = Path /\ e \notin Expired

\* The bytes get_dir_size should count, those of a file once for every way that leads to it.
IsWay(w) == Place[w[1]] = Path /\ \A n \in 1 .. Len(w) - 1 : Place[w[n + 1]] = Leads[w[n]]
Ways == {w \in UNION {[1 .. n -> Entry] : n \in 1 .. Depth} : IsWay(w) /\ Leads[w[Len(w)]] = NULL}
BytesOn(ways) == UNION {{w} \X (1 .. Size[w[Len(w)]]) : w \in ways}
Total == Cardinality(BytesOn(Ways))

\* No way down from Path is longer than Depth: no link leads back up.
ASSUME DepthAssumption ==
    /\ IsFiniteSet(Entry)
    /\ Depth \in Nat \ {0}
    /\ \A w \in [1 .. Depth + 1 -> Entry] : ~IsWay(w)

\* get_dir_size never reports more than there is, and all of it when no call
\* failed, whatever else is removed meanwhile.
SizeExplained ==
    done /\ op = "get_dir_size" =>
        /\ result <= Total
        /\ ~failed /\ removed = 0 => result = Total
=============================================================================
