-------------------------- MODULE WalkPath_proofs --------------------------
(***************************************************************************)
(* For every tree of directories, links and files: deleteFileAndDir and     *)
(* deleteFile leave nothing that is not explained, and get_dir_size counts   *)
(* what there is.                                                          *)
(*                                                                         *)
(* Walked says what a removal has done so far: there is a set V of          *)
(* directories it has been through, whose entries are all dealt with, and   *)
(* so are, in every open directory, the entries readdir has returned but    *)
(* for the one that is being walked.  What makes it inductive: an entry     *)
(* that stays because its directory is not empty is dealt with only after   *)
(* that directory is in V, where nothing is left that could be removed.     *)
(*                                                                         *)
(* SizesOK says it of the sum: a frame has the size of the ways down that   *)
(* branch off in its directory at an entry readdir has returned.  A file is *)
(* the end of one such way, and the ways through a subdirectory move to the *)
(* frame below when its call returns.                                      *)
(***************************************************************************)
EXTENDS WalkPath, SequenceTheorems, FiniteSetTheorems, TLAPS

Programs == {"none", "get_dir_size", "deleteFileAndDir", "deleteFile", "deleteMaxFile"}
Deletes  == {"deleteFileAndDir", "deleteFile"}
Frames   == [dir : Entry \cup {Path}, todo : SUBSET Entry, size : Int, self : Entry \cup {NULL}]

Types ==
    /\ op \in Programs
    /\ done \in BOOLEAN
    /\ failed \in BOOLEAN
    /\ removed \in Nat
    /\ last \in Entry \cup {NULL}
    /\ result \in Int
    /\ stack \in Seq(Frames)
    /\ place \in [Entry -> Entry \cup {Path, Elsewhere, NULL}]
    /\ \A e \in Entry : place[e] \in {Place[e], NULL}
    /\ op = "none" => place = Place /\ stack = <<>> /\ ~done
    /\ done => stack = <<>>

\* A frame is about a directory the walk comes to, and was opened for an
\* entry that readdir has returned for the directory below it on the stack.
FrameOK(k) ==
    /\ stack[k].dir \in Reached
    /\ \A e \in stack[k].todo : Place[e] = stack[k].dir
    /\ k = 1 => stack[k].dir = Path
    /\ k > 1 => /\ stack[k].self \in Entry
                /\ Place[stack[k].self] = stack[k - 1].dir
                /\ stack[k].self \notin stack[k - 1].todo
                /\ Leads[stack[k].self] = stack[k].dir
FramesOK == \A k \in 1..Len(stack) : FrameOK(k)

\* Why an entry may stay.
Explained(e) ==
    \/ Leads[e] # NULL /\ (IsLink(e) \/ Content(e) # {})
    \/ Leads[e] = NULL /\ op = "deleteFile" /\ place[e] = Path /\ e \notin Expired

Handled(e, V) ==
    /\ place[e] = NULL \/ Explained(e)
    /\ Leads[e] # NULL => Leads[e] \in V

Open(k, e) == Place[e] = stack[k].dir /\ e \notin stack[k].todo
Inside(k, e) == k < Len(stack) /\ e = stack[k + 1].self

Through(V) == \A e \in Entry : Place[e] \in V => Handled(e, V)
Emptied(V) == \A e \in Entry : place[e] = NULL /\ Leads[e] # NULL => Leads[e] \in V
ReturnedDone(V) == \A k \in 1..Len(stack) : \A e \in Entry : Open(k, e) /\ ~Inside(k, e) => Handled(e, V)
Covered(V) == Through(V) /\ Emptied(V) /\ ReturnedDone(V)

Untouched == \A e \in Entry : Place[e] \notin Reached => place[e] = Place[e]
Settled   == \A e \in Entry : place[e] \in Reached => Explained(e)

\* Nothing failed, and nobody else removed anything.
Undisturbed == op \in Deletes /\ ~failed /\ removed = 0

Walked ==
    Undisturbed => /\ Untouched
                   /\ IF done THEN Settled ELSE \E V \in SUBSET Entry : Covered(V)

-----------------------------------------------------------------------------

LEMMA ReachedType == Reached \subseteq Entry \cup {Path} /\ Path \in Reached
  BY DEF Reached

\* What is in a directory the walk comes to, and is a directory, the walk comes to.
LEMMA ReachedClosed ==
    ASSUME NEW e \in Entry, Place[e] \in Reached, Leads[e] # NULL
    PROVE  Leads[e] \in Reached
  BY WalkAssumption DEF Reached

LEMMA ReachedLeast ==
    ASSUME NEW S \in SUBSET (Entry \cup {Path}), Path \in S,
           \A e \in Entry : Place[e] \in S /\ Leads[e] # NULL => Leads[e] \in S
    PROVE  Reached \subseteq S
  BY DEF Reached

LEMMA SubSeqType ==
    ASSUME NEW S, NEW s \in Seq(S), NEW j \in 0..Len(s)
    PROVE  /\ SubSeq(s, 1, j) \in Seq(S)
           /\ Len(SubSeq(s, 1, j)) = j
           /\ \A k \in 1..j : SubSeq(s, 1, j)[k] = s[k]
  OBVIOUS

\* The top frame is replaced.
LEMMA TopReplaced ==
    ASSUME NEW S, NEW s \in Seq(S), s # <<>>, NEW f \in S
    PROVE  LET t == Append(SubSeq(s, 1, Len(s) - 1), f)
           IN  /\ Len(s) \in Nat /\ Len(s) >= 1
               /\ t \in Seq(S)
               /\ Len(t) = Len(s)
               /\ \A k \in 1..Len(s) : t[k] = IF k = Len(s) THEN f ELSE s[k]
<1>1. Len(s) \in Nat /\ Len(s) >= 1
  BY EmptySeq
<1>2. /\ SubSeq(s, 1, Len(s) - 1) \in Seq(S) /\ Len(SubSeq(s, 1, Len(s) - 1)) = Len(s) - 1
      /\ \A k \in 1..(Len(s) - 1) : SubSeq(s, 1, Len(s) - 1)[k] = s[k]
  BY <1>1, SubSeqType, Len(s) - 1 \in 0..Len(s)
<1> QED
  BY <1>1, <1>2

\* Two frames become one.
LEMMA TopPopped ==
    ASSUME NEW S, NEW s \in Seq(S), Len(s) > 1, NEW f \in S
    PROVE  LET t == Append(SubSeq(s, 1, Len(s) - 2), f)
           IN  /\ Len(s) \in Nat
               /\ t \in Seq(S)
               /\ Len(t) = Len(s) - 1
               /\ \A k \in 1..(Len(s) - 1) : t[k] = IF k = Len(s) - 1 THEN f ELSE s[k]
<1>1. Len(s) \in Nat
  OBVIOUS
<1>2. /\ SubSeq(s, 1, Len(s) - 2) \in Seq(S) /\ Len(SubSeq(s, 1, Len(s) - 2)) = Len(s) - 2
      /\ \A k \in 1..(Len(s) - 2) : SubSeq(s, 1, Len(s) - 2)[k] = s[k]
  BY <1>1, SubSeqType, Len(s) - 2 \in 0..Len(s)
<1> QED
  BY <1>1, <1>2

\* A frame is pushed.
LEMMA TopPushed ==
    ASSUME NEW S, NEW s \in Seq(S), NEW f \in S
    PROVE  LET t == Append(s, f)
           IN  /\ Len(s) \in Nat
               /\ t \in Seq(S)
               /\ Len(t) = Len(s) + 1
               /\ \A k \in 1..(Len(s) + 1) : t[k] = IF k = Len(s) + 1 THEN f ELSE s[k]
  OBVIOUS

-----------------------------------------------------------------------------

LEMMA FrameType ==
    ASSUME NEW d \in Entry \cup {Path}, NEW self \in Entry \cup {NULL}
    PROVE  /\ Frame(d, self) \in Frames
           /\ Frame(d, self).dir = d
           /\ Frame(d, self).self = self
           /\ Frame(d, self).todo = Content(d)
           /\ Frame(d, self).size = 0
<1>1. Content(d) \in SUBSET Entry
  BY DEF Content
<1> QED
  BY <1>1 DEF Frame, Frames

\* What may become of a frame.
LEMMA FrameGivenUp ==
    ASSUME NEW f \in Frames
    PROVE  LET g == [f EXCEPT !.todo = {}, !.size = -1]
           IN  g \in Frames /\ g.dir = f.dir /\ g.self = f.self /\ g.todo = {} /\ g.size = -1
<1>1. {} \in SUBSET Entry /\ -1 \in Int
  OBVIOUS
<1> QED
  BY <1>1 DEF Frames

LEMMA FrameRead ==
    ASSUME NEW f \in Frames, NEW e
    PROVE  LET g == [f EXCEPT !.todo = @ \ {e}]
           IN  /\ g \in Frames /\ g.dir = f.dir /\ g.self = f.self
               /\ g.todo = f.todo \ {e} /\ g.size = f.size
<1>1. f.todo \ {e} \in SUBSET Entry
  BY DEF Frames
<1> QED
  BY <1>1 DEF Frames

LEMMA FrameCounted ==
    ASSUME NEW f \in Frames, NEW n \in Int
    PROVE  LET g == [f EXCEPT !.size = @ + n]
           IN  /\ g \in Frames /\ g.dir = f.dir /\ g.self = f.self
               /\ g.todo = f.todo /\ g.size = f.size + n
<1>1. f.size + n \in Int
  BY DEF Frames
<1> QED
  BY <1>1 DEF Frames

\* What a step does to the stack: the top frame is replaced by one about the
\* same directory with fewer entries to come, ...
Replaced(left, size) ==
    /\ stack # <<>>
    /\ Len(stack') = Len(stack)
    /\ stack' \in Seq(Frames)
    /\ \A k \in 1..(Len(stack) - 1) : stack'[k] = stack[k]
    /\ stack'[Len(stack)].dir = Top.dir
    /\ stack'[Len(stack)].self = Top.self
    /\ stack'[Len(stack)].todo = left
    /\ stack'[Len(stack)].size = size

\* ... one more directory is opened, for the entry e of the top frame, ...
Entered(e, todo, size) ==
    /\ stack # <<>>
    /\ Len(stack') = Len(stack) + 1
    /\ stack' \in Seq(Frames)
    /\ \A k \in 1..(Len(stack) - 1) : stack'[k] = stack[k]
    /\ stack'[Len(stack)].dir = Top.dir
    /\ stack'[Len(stack)].self = Top.self
    /\ stack'[Len(stack)].todo = Top.todo \ {e}
    /\ stack'[Len(stack)].size = Top.size
    /\ stack'[Len(stack) + 1].dir = Leads[e]
    /\ stack'[Len(stack) + 1].self = e
    /\ stack'[Len(stack) + 1].todo = todo
    /\ stack'[Len(stack) + 1].size = size

\* ... or the one on the top is closed.
Closed ==
    /\ Len(stack) > 1
    /\ Len(stack') = Len(stack) - 1
    /\ stack' \in Seq(Frames)
    /\ \A k \in 1..(Len(stack) - 2) : stack'[k] = stack[k]
    /\ stack'[Len(stack) - 1].dir = stack[Len(stack) - 1].dir
    /\ stack'[Len(stack) - 1].self = stack[Len(stack) - 1].self
    /\ stack'[Len(stack) - 1].todo = stack[Len(stack) - 1].todo
    /\ stack'[Len(stack) - 1].size = stack[Len(stack) - 1].size + Top.size

LEMMA TopType ==
    ASSUME stack \in Seq(Frames), stack # <<>>
    PROVE  Len(stack) \in Nat /\ Len(stack) >= 1 /\ Top \in Frames /\ Top = stack[Len(stack)]
  BY EmptySeq DEF Top

LEMMA ReplaceFrame ==
    ASSUME stack \in Seq(Frames), stack # <<>>, NEW f \in Frames, stack' = Append(Below, f),
           f.dir = Top.dir, f.self = Top.self
    PROVE  Replaced(f.todo, f.size)
<1>1. /\ Len(stack) \in Nat /\ Len(stack) >= 1
      /\ Append(Below, f) \in Seq(Frames)
      /\ Len(Append(Below, f)) = Len(stack)
      /\ \A k \in 1..Len(stack) : Append(Below, f)[k] = IF k = Len(stack) THEN f ELSE stack[k]
  BY TopReplaced DEF Below
<1> QED
  BY <1>1 DEF Replaced

LEMMA RestReplaces ==
    ASSUME stack \in Seq(Frames), stack # <<>>, NEW e, stack' = Rest(e)
    PROVE  Replaced(Top.todo \ {e}, Top.size)
<1> DEFINE f == [Top EXCEPT !.todo = @ \ {e}]
<1>1. Top \in Frames
  BY TopType
<1>2. /\ f \in Frames /\ f.dir = Top.dir /\ f.self = Top.self
      /\ f.todo = Top.todo \ {e} /\ f.size = Top.size
  BY <1>1, FrameRead
<1>3. stack' = Append(Below, f)
  BY DEF Rest
<1> HIDE DEF f
<1>4. Replaced(f.todo, f.size)
  BY <1>2, <1>3, ReplaceFrame
<1> QED
  BY <1>2, <1>4

LEMMA GivingUpReplaces ==
    ASSUME stack \in Seq(Frames), stack # <<>>,
           stack' = Append(Below, [Top EXCEPT !.todo = {}, !.size = -1])
    PROVE  Replaced({}, -1)
<1> DEFINE f == [Top EXCEPT !.todo = {}, !.size = -1]
<1>1. Top \in Frames
  BY TopType
<1>2. f \in Frames /\ f.dir = Top.dir /\ f.self = Top.self /\ f.todo = {} /\ f.size = -1
  BY <1>1, FrameGivenUp
<1>3. stack' = Append(Below, f)
  OBVIOUS
<1> HIDE DEF f
<1>4. Replaced(f.todo, f.size)
  BY <1>2, <1>3, ReplaceFrame
<1> QED
  BY <1>2, <1>4

LEMMA CountingReplaces ==
    ASSUME stack \in Seq(Frames), stack # <<>>, NEW e, NEW n \in Int,
           stack' = Append(Below, [Top EXCEPT !.todo = @ \ {e}, !.size = @ + n])
    PROVE  Replaced(Top.todo \ {e}, Top.size + n)
<1> DEFINE f == [Top EXCEPT !.todo = @ \ {e}, !.size = @ + n]
<1>1. Top \in Frames
  BY TopType
<1>2. /\ f \in Frames /\ f.dir = Top.dir /\ f.self = Top.self
      /\ f.todo = Top.todo \ {e} /\ f.size = Top.size + n
  <2>1. Top.todo \ {e} \in SUBSET Entry /\ Top.size + n \in Int
    BY <1>1 DEF Frames
  <2> QED
    BY ONLY <1>1, <2>1 DEF Frames
<1>3. stack' = Append(Below, f)
  OBVIOUS
<1> HIDE DEF f
<1>4. Replaced(f.todo, f.size)
  BY <1>2, <1>3, ReplaceFrame
<1> QED
  BY <1>2, <1>4

\* A call from the top frame opens a directory, or fails to.
LEMMA CallEnters ==
    ASSUME stack \in Seq(Frames), stack # <<>>, NEW e \in Entry, Leads[e] \in Entry,
           Call(Leads[e], e, Rest(e))
    PROVE  \/ Entered(e, Content(Leads[e]), 0) /\ failed' = failed
           \/ Entered(e, {}, -1) /\ failed' = TRUE
<1> DEFINE r == [Top EXCEPT !.todo = @ \ {e}]
           f == Frame(Leads[e], e)
           g == [f EXCEPT !.todo = {}, !.size = -1]
<1>1. Top \in Frames
  BY TopType
<1>2. /\ r \in Frames /\ r.dir = Top.dir /\ r.self = Top.self
      /\ r.todo = Top.todo \ {e} /\ r.size = Top.size
  BY <1>1, FrameRead
<1>3. f \in Frames /\ f.dir = Leads[e] /\ f.self = e /\ f.todo = Content(Leads[e]) /\ f.size = 0
  BY FrameType
<1>4. g \in Frames /\ g.dir = Leads[e] /\ g.self = e /\ g.todo = {} /\ g.size = -1
  <2> HIDE DEF f
  <2> QED BY <1>3, FrameGivenUp
<1>5. Rest(e) = Append(Below, r)
  BY DEF Rest
<1>6. \/ stack' = Append(Rest(e), f) /\ failed' = failed
      \/ stack' = Append(Rest(e), g) /\ failed' = TRUE
  BY DEF Call
<1> HIDE DEF r, f, g
<1>7. /\ Len(stack) \in Nat /\ Len(stack) >= 1
      /\ Rest(e) \in Seq(Frames)
      /\ Len(Rest(e)) = Len(stack)
      /\ \A k \in 1..Len(stack) : Rest(e)[k] = IF k = Len(stack) THEN r ELSE stack[k]
  BY <1>2, <1>5, TopReplaced DEF Below
<1>8. ASSUME NEW h \in Frames, h.dir = Leads[e], h.self = e, stack' = Append(Rest(e), h)
      PROVE  Entered(e, h.todo, h.size)
  <2>1. /\ stack' \in Seq(Frames)
        /\ Len(stack') = Len(stack) + 1
        /\ \A k \in 1..(Len(stack) + 1) : stack'[k] = IF k = Len(stack) + 1 THEN h ELSE Rest(e)[k]
    BY <1>7, <1>8, TopPushed
  <2>2. \A k \in 1..(Len(stack) - 1) : stack'[k] = stack[k]
    BY <1>7, <2>1
  <2>3. stack'[Len(stack)] = r /\ stack'[Len(stack) + 1] = h
    BY <1>7, <2>1
  <2> QED
    BY <1>2, <1>8, <2>1, <2>2, <2>3 DEF Entered
<1> QED
  BY <1>3, <1>4, <1>6, <1>8

LEMMA ReturnCloses ==
    ASSUME stack \in Seq(Frames), Return
    PROVE  Closed
<1> DEFINE up == stack[Len(stack) - 1]
           f == [up EXCEPT !.size = SumWith(@, Top.size)]
<1>1. Len(stack) \in Nat /\ Len(stack) > 1 /\ stack' = Append(SubSeq(stack, 1, Len(stack) - 2), f)
  BY DEF Return
<1>2. up \in Frames /\ Top \in Frames
  BY <1>1 DEF Top
<1>3. Top.size \in Int
  BY <1>2 DEF Frames
<1>4. /\ f \in Frames /\ f.dir = up.dir /\ f.self = up.self
      /\ f.todo = up.todo /\ f.size = up.size + Top.size
  <2> HIDE DEF up
  <2> QED BY <1>2, <1>3, FrameCounted DEF SumWith
<1> HIDE DEF f
<1>5. /\ stack' \in Seq(Frames)
      /\ Len(stack') = Len(stack) - 1
      /\ \A k \in 1..(Len(stack) - 1) : stack'[k] = IF k = Len(stack) - 1 THEN f ELSE stack[k]
  BY <1>1, <1>4, TopPopped
<1> QED
  BY <1>1, <1>4, <1>5 DEF Closed

Started(todo, size) ==
    /\ Len(stack') = 1
    /\ stack' \in Seq(Frames)
    /\ stack'[1].dir = Path
    /\ stack'[1].todo = todo
    /\ stack'[1].size = size

LEMMA CallStarts ==
    ASSUME Call(Path, NULL, <<>>)
    PROVE  \/ Started(Content(Path), 0) /\ failed' = failed
           \/ Started({}, -1) /\ failed' = TRUE
<1> DEFINE f == Frame(Path, NULL)
           g == [f EXCEPT !.todo = {}, !.size = -1]
<1>1. f \in Frames /\ f.dir = Path /\ f.todo = Content(Path) /\ f.size = 0
  BY FrameType
<1>2. g \in Frames /\ g.dir = Path /\ g.todo = {} /\ g.size = -1
  <2> HIDE DEF f
  <2> QED BY <1>1, FrameGivenUp
<1>3. \/ stack' = Append(<<>>, f) /\ failed' = failed
      \/ stack' = Append(<<>>, g) /\ failed' = TRUE
  BY DEF Call
<1> HIDE DEF f, g
<1>4. ASSUME NEW h \in Frames, h.dir = Path, stack' = Append(<<>>, h)
      PROVE  Started(h.todo, h.size)
  <2>1. stack' \in Seq(Frames) /\ Len(stack') = 1 /\ stack'[1] = h
    BY <1>4
  <2> QED
    BY <1>4, <2>1 DEF Started
<1> QED
  BY <1>1, <1>2, <1>3, <1>4

-----------------------------------------------------------------------------

LEMMA PlaceRemoved ==
    ASSUME Types, NEW y \in Entry, place' = [place EXCEPT ![y] = NULL]
    PROVE  /\ place' \in [Entry -> Entry \cup {Path, Elsewhere, NULL}]
           /\ \A e \in Entry : place'[e] \in {Place[e], NULL}
           /\ place'[y] = NULL
           /\ \A e \in Entry \ {y} : place'[e] = place[e]
  BY DEF Types

\* Types without what every step shows by itself: where the walk is, and what
\* is there.
OpTypes ==
    /\ op \in Programs
    /\ done \in BOOLEAN
    /\ removed \in Nat
    /\ op = "none" => place = Place /\ stack = <<>> /\ ~done
    /\ done => stack = <<>>
PlaceTypes ==
    /\ failed \in BOOLEAN
    /\ place \in [Entry -> Entry \cup {Path, Elsewhere, NULL}]
    /\ \A e \in Entry : place[e] \in {Place[e], NULL}

LEMMA TypesStep ==
    ASSUME Types, [WalkNext]_walkVars
    PROVE  Types'
<1> USE DEF Types
<1>1. ASSUME NEW f \in Programs \ {"none"}, walk(f)
      PROVE  Types'
  <2>1. stack' \in Seq(Frames) /\ failed' \in BOOLEAN
    BY <1>1, CallStarts DEF walk, Started
  <2> QED
    BY <1>1, <2>1 DEF walk
<1>2. ASSUME NEW e \in Entry, StatFails(e)
      PROVE  Types'
  <2>1. stack' \in Seq(Frames)
    BY <1>2, GivingUpReplaces DEF StatFails, Returned, Replaced
  <2> QED
    BY <1>2, <2>1 DEF StatFails, Returned
<1>3. ASSUME NEW e \in Entry, SkipGone(e)
      PROVE  Types'
  <2>1. stack' \in Seq(Frames)
    BY <1>3, RestReplaces DEF SkipGone, Returned, Replaced
  <2> QED
    BY <1>3, <2>1 DEF SkipGone, Returned
<1>4. ASSUME NEW e \in Entry, Enter(e)
      PROVE  Types'
  <2>1. Leads[e] \in Entry
    BY <1>4, WalkAssumption DEF Enter
  <2>2. stack' \in Seq(Frames) /\ failed' \in BOOLEAN
    BY <1>4, <2>1, CallEnters DEF Enter, StatSucceeds, Returned, Entered
  <2> QED
    BY <1>4, <2>2 DEF Enter, StatSucceeds, Returned
<1>5. ASSUME NEW e \in Entry, AddSize(e)
      PROVE  Types'
  <2>1. Size[e] \in Int
    BY WalkAssumption
  <2>2. stack' \in Seq(Frames)
    BY <1>5, <2>1, CountingReplaces DEF AddSize, StatSucceeds, Returned, Replaced
  <2> QED
    BY <1>5, <2>2 DEF AddSize, StatSucceeds, Returned
<1>6. ASSUME NEW e \in Entry, Remove(e)
      PROVE  Types'
  <2>1. stack' \in Seq(Frames)
    BY <1>6, RestReplaces DEF Remove, StatSucceeds, Returned, Replaced
  <2>2. PlaceTypes'
    BY <1>6, PlaceRemoved DEF Remove, PlaceTypes
  <2>3. OpTypes'
    BY <1>6 DEF Remove, StatSucceeds, Returned, OpTypes
  <2>4. UNCHANGED <<last, result>>
    BY <1>6 DEF Remove
  <2> QED
    BY <2>1, <2>2, <2>3, <2>4 DEF OpTypes, PlaceTypes
<1>7. ASSUME NEW e \in Entry, Spare(e)
      PROVE  Types'
  <2>1. stack' \in Seq(Frames)
    BY <1>7, RestReplaces DEF Spare, StatSucceeds, Returned, Replaced
  <2> QED
    BY <1>7, <2>1 DEF Spare, StatSucceeds, Returned
<1>8. ASSUME NEW e \in Entry, Candidate(e)
      PROVE  Types'
  <2>1. stack' \in Seq(Frames)
    BY <1>8, RestReplaces DEF Candidate, StatSucceeds, Returned, Replaced
  <2> QED
    BY <1>8, <2>1 DEF Candidate, StatSucceeds, Returned
<1>9. ASSUME NEW e \in Entry, OtherRemoves(e)
      PROVE  Types'
  <2>1. UNCHANGED stack /\ OpTypes'
    BY <1>9 DEF OtherRemoves, OpTypes
  <2>2. PlaceTypes'
    BY <1>9, PlaceRemoved DEF OtherRemoves, PlaceTypes
  <2>3. UNCHANGED <<last, result>>
    BY <1>9 DEF OtherRemoves
  <2> QED
    BY <2>1, <2>2, <2>3 DEF OpTypes, PlaceTypes
<1>10. CASE Return
  <2>1. stack' \in Seq(Frames)
    BY <1>10, ReturnCloses DEF Closed
  <2>2. OpTypes'
    BY <1>10 DEF Return, OpTypes
  <2>3. \/ UNCHANGED <<place, failed>>
        \/ /\ Top.self \in Entry
           /\ place' = [place EXCEPT ![Top.self] = NULL]
           /\ UNCHANGED failed
        \/ UNCHANGED place /\ failed' = TRUE
    <3>1. stack # <<>> /\ Top \in Frames
      BY <1>10, TopType DEF Return
    <3>2. Top.self \in Entry \cup {NULL}
      BY <3>1 DEF Frames
    <3> QED
      BY <1>10, <3>2 DEF Return, ReturnToRmdir
  <2>4. PlaceTypes'
    BY <2>3, PlaceRemoved DEF PlaceTypes
  <2>5. UNCHANGED <<last, result>>
    BY <1>10 DEF Return
  <2> QED
    BY <2>1, <2>2, <2>4, <2>5 DEF OpTypes, PlaceTypes
<1>11. CASE Finish
  <2>0. Len(stack) = 1 /\ Len(<<>>) = 0
    BY <1>11 DEF Finish
  <2>1. stack' = <<>> /\ done' = TRUE /\ UNCHANGED <<op, last, removed>>
    BY <1>11 DEF Finish
  <2>a. stack # <<>>
    BY ONLY <2>0
  <2>2. result' \in Int
    BY <1>11, <2>a, TopType DEF Finish, Frames
  <2>3. PlaceTypes'
    BY <1>11, PlaceRemoved DEF Finish, RemoveCandidate, PlaceTypes
  <2>4. stack' \in Seq(Frames)
    BY <2>1
  <2>5. OpTypes'
    BY <2>1, <2>a DEF OpTypes
  <2> QED
    BY <2>1, <2>2, <2>3, <2>4, <2>5 DEF OpTypes, PlaceTypes
<1>12. CASE UNCHANGED walkVars
  BY <1>12 DEF walkVars
<1> QED
  BY <1>1, <1>2, <1>3, <1>4, <1>5, <1>6, <1>7, <1>8, <1>9, <1>10, <1>11, <1>12 DEF WalkNext, Programs

-----------------------------------------------------------------------------
(* The frames.                                                             *)

LEMMA ReplacedKeepsFrames ==
    ASSUME Types, FramesOK, NEW left, left \subseteq Top.todo, NEW size, Replaced(left, size)
    PROVE  FramesOK'
<1>1. Len(stack) \in Nat /\ Len(stack) >= 1 /\ Top = stack[Len(stack)]
  BY TopType DEF Types, Replaced
<1>2. SUFFICES ASSUME NEW k \in 1..Len(stack)
               PROVE  FrameOK(k)'
  BY <1>1 DEF FramesOK, Replaced
<1>3. stack'[k].dir = stack[k].dir /\ stack'[k].self = stack[k].self
      /\ stack'[k].todo \subseteq stack[k].todo
  BY <1>1, <1>2 DEF Replaced
<1>4. k > 1 => stack'[k - 1] = stack[k - 1]
  BY <1>1, <1>2 DEF Replaced
<1>5. FrameOK(k)
  BY DEF FramesOK
<1> QED
  BY <1>3, <1>4, <1>5 DEF FrameOK

LEMMA EnteredKeepsFrames ==
    ASSUME Types, FramesOK, NEW e \in Top.todo, e \in Entry, Leads[e] # NULL,
           NEW todo, todo \subseteq Content(Leads[e]), NEW size, Entered(e, todo, size)
    PROVE  FramesOK'
<1>1. Len(stack) \in Nat /\ Len(stack) >= 1 /\ Top = stack[Len(stack)]
  BY TopType DEF Types, Entered
<1>2. FrameOK(Len(stack))
  BY <1>1 DEF FramesOK
<1>3. Place[e] = Top.dir /\ Top.dir \in Reached
  BY <1>1, <1>2 DEF FrameOK
<1>4. Leads[e] \in Reached
  BY <1>3, ReachedClosed
<1>5. \A x \in todo : Place[x] = Leads[e]
  <2>1. Leads[e] \in Entry
    BY WalkAssumption
  <2>2. \A x \in todo : x \in Entry /\ place[x] = Leads[e]
    BY DEF Content
  <2>3. \A x \in Entry : place[x] \in {Place[x], NULL}
    BY DEF Types
  <2> QED
    BY <2>1, <2>2, <2>3, WalkAssumption
<1>6. ASSUME NEW k \in 1..Len(stack)
      PROVE  FrameOK(k)'
  <2>1. stack'[k].dir = stack[k].dir /\ stack'[k].self = stack[k].self
        /\ stack'[k].todo \subseteq stack[k].todo
    BY <1>1, <1>6 DEF Entered
  <2>2. k > 1 => stack'[k - 1] = stack[k - 1]
    BY <1>1, <1>6 DEF Entered
  <2>3. FrameOK(k)
    BY DEF FramesOK
  <2> QED
    BY <2>1, <2>2, <2>3 DEF FrameOK
<1>7. ASSUME NEW k, k = Len(stack) + 1
      PROVE  FrameOK(k)'
  <2>1. k - 1 = Len(stack) /\ k # 1
    BY <1>1, <1>7
  <2>2. /\ stack'[k].dir = Leads[e] /\ stack'[k].self = e /\ stack'[k].todo = todo
        /\ stack'[k - 1].dir = Place[e] /\ e \notin stack'[k - 1].todo
    BY <1>3, <1>7, <2>1 DEF Entered
  <2> QED
    BY <1>4, <1>5, <2>1, <2>2 DEF FrameOK
<1>8. SUFFICES ASSUME NEW k \in 1..(Len(stack) + 1)
               PROVE  FrameOK(k)'
  BY DEF FramesOK, Entered
<1>9. k \in 1..Len(stack) \/ k = Len(stack) + 1
  BY <1>1
<1> QED
  BY <1>6, <1>7, <1>9

LEMMA ClosedKeepsFrames ==
    ASSUME Types, FramesOK, Closed
    PROVE  FramesOK'
<1>1. Len(stack) \in Nat /\ Len(stack) > 1
  BY DEF Types, Closed
<1>2. SUFFICES ASSUME NEW k \in 1..(Len(stack) - 1)
               PROVE  FrameOK(k)'
  BY <1>1 DEF FramesOK, Closed
<1>3. stack'[k].dir = stack[k].dir /\ stack'[k].self = stack[k].self
      /\ stack'[k].todo = stack[k].todo
  BY <1>1, <1>2 DEF Closed
<1>4. k > 1 => stack'[k - 1] = stack[k - 1]
  BY <1>1, <1>2 DEF Closed
<1>5. FrameOK(k)
  BY <1>1 DEF FramesOK
<1> QED
  BY <1>3, <1>4, <1>5 DEF FrameOK

LEMMA StartedFrames ==
    ASSUME Types, place = Place, NEW todo, todo \subseteq Content(Path), NEW size, Started(todo, size)
    PROVE  FramesOK'
<1>1. SUFFICES FrameOK(1)'
  BY DEF FramesOK, Started
<1>2. \A e \in todo : Place[e] = Path
  BY DEF Content
<1> QED
  BY <1>2, ReachedType DEF FrameOK, Started

\* What an action does to the stack.
StackStep ==
    \/ UNCHANGED stack
    \/ stack' = <<>>
    \/ place = Place /\ \E todo \in SUBSET Content(Path) : \E size : Started(todo, size)
    \/ \E left \in SUBSET Top.todo : \E size : Replaced(left, size)
    \/ \E e \in Entry : /\ e \in Top.todo /\ Leads[e] # NULL
                        /\ \E todo \in SUBSET Content(Leads[e]) : \E size : Entered(e, todo, size)
    \/ Closed

LEMMA StackSteps ==
    ASSUME Types, WalkNext
    PROVE  StackStep
<1>0. stack \in Seq(Frames)
  BY DEF Types
<1>1. ASSUME NEW f, walk(f)
      PROVE  StackStep
  <2>1. place = Place
    BY <1>1 DEF walk, Types
  <2>2. Started(Content(Path), 0) \/ Started({}, -1)
    BY <1>1, CallStarts DEF walk
  <2>3. \E todo \in SUBSET Content(Path) : \E size : Started(todo, size)
    BY <2>2
  <2> QED
    BY <2>1, <2>3 DEF StackStep
<1>2. ASSUME NEW e \in Entry, stack # <<>>, stack' = Rest(e)
      PROVE  StackStep
  <2>1. Replaced(Top.todo \ {e}, Top.size)
    BY <1>0, <1>2, RestReplaces
  <2>2. Top.todo \ {e} \in SUBSET Top.todo
    OBVIOUS
  <2> QED
    BY <2>1, <2>2 DEF StackStep
<1>3. ASSUME NEW e \in Entry, StatFails(e)
      PROVE  StackStep
  <2>1. Replaced({}, -1)
    BY <1>0, <1>3, GivingUpReplaces DEF StatFails, Returned
  <2> QED
    BY <2>1 DEF StackStep
<1>4. ASSUME NEW e \in Entry, Enter(e)
      PROVE  StackStep
  <2>1. Leads[e] \in Entry /\ stack # <<>> /\ e \in Top.todo /\ Leads[e] # NULL
    BY <1>4, WalkAssumption DEF Enter, StatSucceeds, Returned
  <2>2. Entered(e, Content(Leads[e]), 0) \/ Entered(e, {}, -1)
    BY <1>0, <1>4, <2>1, CallEnters DEF Enter
  <2>3. \E todo \in SUBSET Content(Leads[e]) : \E size : Entered(e, todo, size)
    BY <2>2
  <2> QED
    BY <2>1, <2>3 DEF StackStep
<1>5. ASSUME NEW e \in Entry, AddSize(e)
      PROVE  StackStep
  <2>1. Size[e] \in Int
    BY WalkAssumption
  <2>2. Replaced(Top.todo \ {e}, Top.size + Size[e])
    BY <1>0, <1>5, <2>1, CountingReplaces DEF AddSize, StatSucceeds, Returned
  <2>3. Top.todo \ {e} \in SUBSET Top.todo
    OBVIOUS
  <2> QED
    BY <2>2, <2>3 DEF StackStep
<1>6. CASE Return
  BY <1>0, <1>6, ReturnCloses DEF StackStep
<1>7. CASE Finish
  BY <1>7 DEF Finish, StackStep
<1>8. ASSUME NEW e \in Entry, SkipGone(e) \/ Remove(e) \/ Spare(e) \/ Candidate(e)
      PROVE  StackStep
  <2>1. stack # <<>> /\ stack' = Rest(e)
    BY <1>8 DEF SkipGone, Remove, Spare, Candidate, StatSucceeds, Returned
  <2> QED
    BY <1>2, <2>1
<1>9. ASSUME NEW e \in Entry, OtherRemoves(e)
      PROVE  StackStep
  BY <1>9 DEF OtherRemoves, StackStep
<1> QED
  BY <1>1, <1>3, <1>4, <1>5, <1>6, <1>7, <1>8, <1>9 DEF WalkNext

LEMMA FramesStep ==
    ASSUME Types, FramesOK, [WalkNext]_walkVars
    PROVE  FramesOK'
<1>1. CASE UNCHANGED stack
  BY <1>1 DEF FramesOK, FrameOK
<1>2. CASE stack' = <<>>
  <2>1. Len(stack') = 0
    BY <1>2
  <2> QED
    BY <2>1 DEF FramesOK
<1>3. CASE WalkNext
  <2>1. StackStep
    BY <1>3, StackSteps
  <2>2. ASSUME place = Place, NEW todo \in SUBSET Content(Path), NEW size, Started(todo, size)
        PROVE  FramesOK'
    BY <2>2, StartedFrames
  <2>3. ASSUME NEW left \in SUBSET Top.todo, NEW size, Replaced(left, size)
        PROVE  FramesOK'
    BY <2>3, ReplacedKeepsFrames
  <2>4. ASSUME NEW e \in Entry, e \in Top.todo, Leads[e] # NULL,
               NEW todo \in SUBSET Content(Leads[e]), NEW size, Entered(e, todo, size)
        PROVE  FramesOK'
    BY <2>4, EnteredKeepsFrames
  <2> QED
    BY <1>1, <1>2, <2>1, <2>2, <2>3, <2>4, ClosedKeepsFrames DEF StackStep
<1> QED
  BY <1>1, <1>3 DEF walkVars

-----------------------------------------------------------------------------
(* What the walk has dealt with stays dealt with.                          *)

LEMMA UpperIsEntry ==
    ASSUME FramesOK, NEW k \in 1..Len(stack), k > 1
    PROVE  /\ stack[k].dir \in Entry
           /\ Leads[stack[k].dir] = stack[k].dir
<1>1. FrameOK(k)
  BY DEF FramesOK
<1>2. /\ stack[k].self \in Entry
      /\ Leads[stack[k].self] = stack[k].dir
      /\ stack[k].dir \in Entry \cup {Path}
  BY <1>1, ReachedType DEF FrameOK
<1>3. stack[k].dir \in Entry
  BY <1>2, WalkAssumption
<1>4. Leads[stack[k].self] # NULL
  BY <1>2, <1>3, WalkAssumption
<1> QED
  BY <1>2, <1>3, <1>4, WalkAssumption

LEMMA HandledMore ==
    ASSUME NEW e, NEW V, NEW W, V \subseteq W, Handled(e, V)
    PROVE  Handled(e, W)
  BY DEF Handled

LEMMA HandledKept ==
    ASSUME NEW e, NEW V, UNCHANGED <<place, op>>, Handled(e, V)
    PROVE  Handled(e, V)'
  BY DEF Handled, Explained, IsLink, Content

\* Removing what nothing explains changes nothing for the others: if the
\* directory e was kept for the sake of y, it has been walked, and y with it.
LEMMA RemovalKeepsHandled ==
    ASSUME Types, NEW V \in SUBSET Entry, Through(V),
           NEW y \in Entry, ~Explained(y), place[y] # NULL,
           place' = [place EXCEPT ![y] = NULL], op' = op,
           NEW e \in Entry, Handled(e, V)
    PROVE  Handled(e, V)'
<1>1. /\ place'[y] = NULL
      /\ \A x \in Entry \ {y} : place'[x] = place[x]
      /\ \A x \in Entry : place[x] \in {Place[x], NULL}
  BY PlaceRemoved DEF Types
<1>2. Leads[e] # NULL => Leads[e] \in V
  BY DEF Handled
<1>3. CASE place'[e] = NULL
  BY <1>2, <1>3 DEF Handled
<1>4. CASE place'[e] # NULL
  <2>1. e # y /\ place'[e] = place[e]
    BY <1>1, <1>4
  <2>2. Explained(e)
    BY <1>4, <2>1 DEF Handled
  <2>3. CASE Leads[e] = NULL
    BY <1>2, <2>1, <2>2, <2>3 DEF Handled, Explained
  <2>4. CASE IsLink(e)
    <3>1. IsLink(e)' /\ Leads[e] # NULL
      BY <2>4 DEF IsLink
    <3> QED
      BY <1>2, <3>1 DEF Handled, Explained
  <2>5. CASE Leads[e] # NULL /\ ~IsLink(e)
    <3>1. Leads[e] = e /\ e \in V
      BY <1>2, <2>5 DEF IsLink
    <3>2. PICK x \in Entry : place[x] = e
      BY <2>2, <2>5 DEF Explained, Content
    <3>3. x # y
      <4>1. SUFFICES ASSUME place[y] = e
                     PROVE  FALSE
        BY <3>2
      <4>2. Place[y] \in V
        BY <1>1, <3>1, <4>1
      <4> QED
        BY <4>2 DEF Through, Handled
    <3>4. Content(e)' # {}
      BY <1>1, <3>2, <3>3 DEF Content
    <3> QED
      BY <1>2, <2>5, <3>4 DEF Handled, Explained
  <2> QED
    BY <2>3, <2>4, <2>5
<1> QED
  BY <1>3, <1>4

\* readdir returned e, and it is dealt with.
LEMMA ReplacedDone ==
    ASSUME Types, NEW V, NEW e \in Entry, NEW size, Replaced(Top.todo \ {e}, size), ReturnedDone(V),
           \A x \in Entry : Handled(x, V) => Handled(x, V)', Handled(e, V)'
    PROVE  ReturnedDone(V)'
<1>1. Len(stack) \in Nat /\ Len(stack) >= 1 /\ Top = stack[Len(stack)]
  BY TopType DEF Types, Replaced
<1>2. SUFFICES ASSUME NEW k \in 1..Len(stack), NEW x \in Entry, x # e, Open(k, x)', ~Inside(k, x)'
               PROVE  Handled(x, V)
  BY DEF ReturnedDone, Replaced
<1>3. /\ stack'[k].dir = stack[k].dir
      /\ x \notin stack'[k].todo => x \notin stack[k].todo
  BY <1>1, <1>2 DEF Replaced
<1>4. k < Len(stack) => stack'[k + 1].self = stack[k + 1].self
  BY <1>1 DEF Replaced
<1>5. Open(k, x)
  BY <1>2, <1>3 DEF Open
<1>6. ~Inside(k, x)
  BY <1>2, <1>4 DEF Inside, Replaced
<1> QED
  BY <1>5, <1>6 DEF ReturnedDone

\* The directory of e was opened: all there is in it is still to come.
LEMMA EnteredDone ==
    ASSUME Types, NEW V, NEW e \in Entry, Leads[e] \in Entry, NEW size, Entered(e, Content(Leads[e]), size),
           UNCHANGED <<place, op>>, ReturnedDone(V), Emptied(V)
    PROVE  ReturnedDone(V)'
<1>1. Len(stack) \in Nat /\ Len(stack) >= 1 /\ Top = stack[Len(stack)]
  BY TopType DEF Types, Entered
<1>2. SUFFICES ASSUME NEW k \in 1..(Len(stack) + 1), NEW x \in Entry, Open(k, x)', ~Inside(k, x)'
               PROVE  Handled(x, V)
  BY HandledKept DEF ReturnedDone, Entered
<1>3. CASE k = Len(stack) + 1
  <2>1. Place[x] = Leads[e] /\ x \notin Content(Leads[e])
    BY <1>2, <1>3 DEF Open, Entered
  <2>2. place[x] = NULL
    BY <2>1 DEF Content, Types
  <2> QED
    BY <2>2 DEF Handled, Emptied
<1>4. CASE k = Len(stack)
  <2>1. x # e
    BY <1>1, <1>2, <1>4 DEF Inside, Entered
  <2>2. Open(k, x)
    BY <1>1, <1>2, <1>4, <2>1 DEF Open, Entered
  <2>3. ~Inside(k, x)
    BY <1>1, <1>4 DEF Inside
  <2> QED
    BY <1>1, <1>4, <2>2, <2>3 DEF ReturnedDone
<1>5. CASE k < Len(stack)
  <2>1. stack'[k] = stack[k] /\ stack'[k + 1].self = stack[k + 1].self
    BY <1>1, <1>5 DEF Entered
  <2>2. Open(k, x)
    BY <1>2, <2>1 DEF Open
  <2>3. ~Inside(k, x)
    BY <1>1, <1>2, <1>5, <2>1 DEF Inside, Entered
  <2> QED
    BY <1>1, <1>5, <2>2, <2>3 DEF ReturnedDone
<1> QED
  BY <1>1, <1>3, <1>4, <1>5

\* The directory on the top was closed, and its entry is dealt with.
LEMMA ClosedDone ==
    ASSUME Types, Closed, NEW V, ReturnedDone(V), NEW self, self = Top.self,
           \A x \in Entry : Handled(x, V) => Handled(x, V)', Handled(self, V)'
    PROVE  ReturnedDone(V)'
<1>1. Len(stack) \in Nat /\ Len(stack) > 1 /\ self = stack[Len(stack)].self
  BY DEF Types, Closed, Top
<1>2. SUFFICES ASSUME NEW k \in 1..(Len(stack) - 1), NEW x \in Entry, x # self, Open(k, x)', ~Inside(k, x)'
               PROVE  Handled(x, V)
  BY DEF ReturnedDone, Closed
<1>3. stack'[k].dir = stack[k].dir /\ stack'[k].todo = stack[k].todo
  BY <1>1, <1>2 DEF Closed
<1>4. Open(k, x)
  BY <1>2, <1>3 DEF Open
<1>5. ~Inside(k, x)
  <2>1. CASE k = Len(stack) - 1
    BY <1>1, <1>2, <2>1 DEF Inside
  <2>2. CASE k < Len(stack) - 1
    <3>1. stack'[k + 1].self = stack[k + 1].self
      BY <1>1, <2>2 DEF Closed
    <3> QED
      BY <1>1, <1>2, <2>2, <3>1 DEF Inside, Closed
  <2> QED
    BY <1>1, <2>1, <2>2
<1> QED
  BY <1>1, <1>4, <1>5 DEF ReturnedDone

-----------------------------------------------------------------------------
(* The walk, action by action.                                             *)

\* Walked, for a walk that goes on.
Going == Untouched /\ \E V \in SUBSET Entry : Covered(V)

LEMMA WalkStarts ==
    ASSUME Types, NEW f, walk(f), Undisturbed'
    PROVE  Going' /\ ~done'
<1>1. place = Place /\ place' = Place /\ ~done'
  BY DEF walk, Types
<1>2. Started(Content(Path), 0)
  BY CallStarts DEF walk, Undisturbed
<1>3. Untouched'
  BY <1>1 DEF Untouched
<1>4. Through({})' /\ Emptied({})'
  BY <1>1, WalkAssumption DEF Through, Emptied
<1>5. ReturnedDone({})'
  <2>1. SUFFICES ASSUME NEW x \in Entry, Open(1, x)'
                 PROVE  FALSE
    BY <1>2 DEF ReturnedDone, Started
  <2>2. Place[x] = Path /\ x \notin Content(Path)
    BY <1>2, <2>1 DEF Open, Started
  <2> QED
    BY <1>1, <2>2 DEF Content
<1> QED
  BY <1>1, <1>3, <1>4, <1>5 DEF Going, Covered

\* A step that removes nothing and returns e, which is dealt with.
LEMMA PassesOver ==
    ASSUME Types, Going, NEW e \in Entry, stack # <<>>, stack' = Rest(e), UNCHANGED <<place, op>>,
           \A V \in SUBSET Entry : Covered(V) => Handled(e, V)
    PROVE  Going'
<1>1. PICK V \in SUBSET Entry : Covered(V)
  BY DEF Going
<1>2. Replaced(Top.todo \ {e}, Top.size)
  BY RestReplaces DEF Types
<1>3. \A x \in Entry : Handled(x, V) => Handled(x, V)'
  BY HandledKept
<1>4. Handled(e, V)'
  BY <1>1, <1>3
<1>5. ReturnedDone(V)'
  BY <1>1, <1>2, <1>3, <1>4, ReplacedDone DEF Covered
<1>6. Through(V)' /\ Emptied(V)'
  BY <1>1, <1>3 DEF Covered, Through, Emptied
<1>7. Untouched'
  BY DEF Going, Untouched
<1> QED
  BY <1>5, <1>6, <1>7 DEF Going, Covered

LEMMA SkipGoneGoes ==
    ASSUME Types, Going, NEW e \in Entry, SkipGone(e)
    PROVE  Going'
<1>1. stack # <<>> /\ stack' = Rest(e) /\ UNCHANGED <<place, op>> /\ place[e] = NULL
  BY DEF SkipGone, Returned
<1>2. \A V \in SUBSET Entry : Covered(V) => Handled(e, V)
  BY <1>1 DEF Covered, Emptied, Handled
<1> QED
  BY <1>1, <1>2, PassesOver

LEMMA SpareGoes ==
    ASSUME Types, FramesOK, Going, NEW e \in Entry, Spare(e)
    PROVE  Going'
<1>1. /\ stack # <<>> /\ stack' = Rest(e) /\ UNCHANGED <<place, op>>
      /\ place[e] = Top.dir /\ Leads[e] = NULL /\ op = "deleteFile" /\ e \notin Expired /\ ~(Len(stack) > 1)
  BY DEF Spare, StatSucceeds, Returned, Doomed
<1>2. Len(stack) \in Nat /\ Len(stack) >= 1
  BY <1>1, TopType DEF Types
<1>a. \A n \in Nat : n >= 1 /\ ~(n > 1) => n = 1
  OBVIOUS
<1>3. Len(stack) = 1
  BY ONLY <1>1, <1>2, <1>a, Zenon
<1>4. Top.dir = Path
  BY <1>3 DEF FramesOK, FrameOK, Top
<1>5. \A V \in SUBSET Entry : Covered(V) => Handled(e, V)
  BY <1>1, <1>4 DEF Handled, Explained
<1> QED
  BY <1>1, <1>5, PassesOver

LEMMA EnterGoes ==
    ASSUME Types, Going, NEW e \in Entry, Enter(e), ~failed'
    PROVE  Going'
<1>1. Leads[e] \in Entry /\ UNCHANGED <<place, op>> /\ stack # <<>>
  BY WalkAssumption DEF Enter, StatSucceeds, Returned
<1>2. Entered(e, Content(Leads[e]), 0)
  BY <1>1, CallEnters DEF Enter, Types
<1>3. PICK V \in SUBSET Entry : Covered(V)
  BY DEF Going
<1>4. ReturnedDone(V)'
  BY <1>1, <1>2, <1>3, EnteredDone DEF Covered
<1>5. \A x \in Entry : Handled(x, V) => Handled(x, V)'
  BY <1>1, HandledKept
<1>6. Through(V)' /\ Emptied(V)'
  BY <1>1, <1>3, <1>5 DEF Covered, Through, Emptied
<1>7. Untouched'
  BY <1>1 DEF Going, Untouched
<1> QED
  BY <1>4, <1>6, <1>7 DEF Going, Covered

\* Removing y, that is in a directory the walk comes to.
LEMMA RemovalKeepsUntouched ==
    ASSUME Types, Untouched, NEW y \in Entry, Place[y] \in Reached, place' = [place EXCEPT ![y] = NULL]
    PROVE  Untouched'
  BY PlaceRemoved DEF Untouched

LEMMA RemoveGoes ==
    ASSUME Types, FramesOK, Going, NEW y \in Entry, Remove(y), ~failed'
    PROVE  Going'
<1>1. /\ stack # <<>> /\ y \in Top.todo /\ stack' = Rest(y) /\ op' = op
      /\ place[y] = Top.dir /\ Leads[y] = NULL /\ Doomed(y)
      /\ place' = [place EXCEPT ![y] = NULL]
  BY DEF Remove, StatSucceeds, Returned
<1>2. /\ Len(stack) \in Nat /\ Len(stack) >= 1 /\ Top = stack[Len(stack)]
      /\ Top.dir \in Entry \cup {Path} /\ FrameOK(Len(stack))
  BY <1>1, TopType DEF Types, FramesOK, Frames
<1>3. place[y] # NULL /\ Place[y] = Top.dir /\ Top.dir \in Reached
  BY <1>1, <1>2, WalkAssumption DEF FrameOK
<1>4. ~Explained(y)
  <2>1. CASE Len(stack) > 1
    <3>1. Top.dir # Path
      BY <1>2, <2>1, UpperIsEntry, WalkAssumption
    <3> QED
      BY <1>1, <3>1 DEF Explained
  <2>2. CASE ~(Len(stack) > 1)
    BY <1>1, <2>2 DEF Explained, Doomed
  <2> QED
    BY <2>1, <2>2
<1>5. PICK V \in SUBSET Entry : Covered(V)
  BY DEF Going
<1>6. \A x \in Entry : Handled(x, V) => Handled(x, V)'
  BY <1>1, <1>3, <1>4, <1>5, RemovalKeepsHandled DEF Covered
<1>7. place'[y] = NULL /\ \A x \in Entry \ {y} : place'[x] = place[x]
  BY <1>1, PlaceRemoved
<1>8. Handled(y, V)'
  BY <1>1, <1>7 DEF Handled
<1>9. ReturnedDone(V)'
  <2>1. Replaced(Top.todo \ {y}, Top.size)
    BY <1>1, RestReplaces DEF Types
  <2> QED
    BY <1>5, <1>6, <1>8, <2>1, ReplacedDone DEF Covered
<1>10. Through(V)' /\ Emptied(V)'
  BY <1>1, <1>5, <1>6, <1>7 DEF Covered, Through, Emptied
<1>11. Untouched'
  BY <1>1, <1>3, RemovalKeepsUntouched DEF Going
<1> QED
  BY <1>9, <1>10, <1>11 DEF Going, Covered

LEMMA ReturnGoes ==
    ASSUME Types, FramesOK, Going, op \in Deletes, Return, ~failed'
    PROVE  Going'
<1>1. Closed /\ Top.todo = {} /\ UNCHANGED <<op, removed>>
  BY ReturnCloses DEF Return, Types
<1>2. PICK self : self = Top.self
  OBVIOUS
<1>3. PICK t : t = Top.dir
  OBVIOUS
<1>4. PICK V \in SUBSET Entry : Covered(V)
  BY DEF Going
<1> DEFINE W == V \cup {t}
<1>5. Len(stack) \in Nat /\ Len(stack) > 1 /\ Top = stack[Len(stack)]
  BY <1>1 DEF Closed, Types, Top
<1>6. FrameOK(Len(stack)) /\ FrameOK(Len(stack) - 1)
  BY <1>5 DEF FramesOK
<1>7. /\ t \in Entry /\ Leads[t] = t
      /\ self \in Entry /\ Leads[self] = t /\ Place[self] \in Reached
  BY <1>2, <1>3, <1>5, <1>6, UpperIsEntry DEF FrameOK
<1>8. t # NULL /\ Leads[self] # NULL
  BY <1>7, WalkAssumption
<1>9. W \in SUBSET Entry
  BY <1>7
<1>10. Through(W)
  <2>1. SUFFICES ASSUME NEW x \in Entry, Place[x] \in W
                 PROVE  Handled(x, W)
    BY DEF Through
  <2>2. CASE Place[x] \in V
    BY <1>4, <2>2, HandledMore DEF Covered, Through
  <2>3. CASE Place[x] = t
    <3>1. Open(Len(stack), x) /\ ~Inside(Len(stack), x)
      BY <1>1, <1>3, <1>5, <2>3 DEF Open, Inside
    <3>2. Handled(x, V)
      BY <1>4, <1>5, <3>1 DEF Covered, ReturnedDone
    <3> QED
      BY <3>2, HandledMore
  <2> QED
    BY <2>1, <2>2, <2>3
<1>11. Emptied(W) /\ ReturnedDone(W)
  BY <1>4, HandledMore DEF Covered, Emptied, ReturnedDone
<1> HIDE DEF W
<1>12. t \in W
  BY DEF W
<1>13. \/ /\ UNCHANGED place
          /\ Handled(self, W)
       \/ /\ place' = [place EXCEPT ![self] = NULL]
          /\ ~Explained(self) /\ place[self] # NULL
  <2>1. ReturnToRmdir(self)
    BY <1>2 DEF Return, Deletes
  <2>2. CASE IsLink(self) \/ Content(self) # {} \/ place[self] = NULL
    <3>1. UNCHANGED place
      BY <2>1, <2>2 DEF ReturnToRmdir
    <3>2. Handled(self, W)
      BY <1>7, <1>8, <1>12, <2>2 DEF Handled, Explained
    <3> QED
      BY <3>1, <3>2
  <2>3. CASE ~(IsLink(self) \/ Content(self) # {} \/ place[self] = NULL)
    <3>1. place' = [place EXCEPT ![self] = NULL]
      BY <2>1, <2>3 DEF ReturnToRmdir
    <3>2. ~Explained(self)
      BY <1>8, <2>3 DEF Explained
    <3> QED
      BY <2>3, <3>1, <3>2
  <2> QED
    BY <2>2, <2>3
<1>14. \A x \in Entry : Handled(x, W) => Handled(x, W)'
  <2>1. CASE UNCHANGED place
    BY <1>1, <2>1, HandledKept
  <2>2. CASE place' = [place EXCEPT ![self] = NULL] /\ ~Explained(self) /\ place[self] # NULL
    BY <1>1, <1>7, <1>9, <1>10, <2>2, RemovalKeepsHandled
  <2> QED
    BY <1>13, <2>1, <2>2
<1>15. Handled(self, W)' /\ Emptied(W)' /\ Untouched'
  <2>1. CASE UNCHANGED place /\ Handled(self, W)
    BY <1>7, <1>11, <1>14, <2>1 DEF Emptied, Untouched, Going
  <2>2. CASE place' = [place EXCEPT ![self] = NULL]
    <3>1. place'[self] = NULL /\ \A x \in Entry \ {self} : place'[x] = place[x]
      BY <1>7, <2>2, PlaceRemoved
    <3>2. Handled(self, W)'
      BY <1>7, <1>12, <3>1 DEF Handled
    <3>3. Emptied(W)'
      BY <1>7, <1>11, <1>12, <3>1 DEF Emptied
    <3>4. Untouched'
      BY <1>7, <2>2, RemovalKeepsUntouched DEF Going
    <3> QED
      BY <3>2, <3>3, <3>4
  <2> QED
    BY <1>13, <2>1, <2>2
<1>16. ReturnedDone(W)'
  BY <1>1, <1>2, <1>11, <1>14, <1>15, ClosedDone
<1>17. Through(W)'
  BY <1>10, <1>14 DEF Through
<1> QED
  BY <1>9, <1>15, <1>16, <1>17 DEF Going, Covered

\* At the end the walk has been through all the directories it comes to.
LEMMA FinishSettles ==
    ASSUME Types, FramesOK, Going, op \in Deletes, Finish
    PROVE  Untouched' /\ Settled'
<1>1. Len(stack) = 1 /\ Top.todo = {} /\ op' = op
  BY DEF Finish
<1>2. UNCHANGED place
  BY DEF Finish, RemoveCandidate, Deletes
<1>3. Top = stack[1] /\ 1 \in 1..Len(stack)
  BY <1>1 DEF Top
<1>4. Top.dir = Path
  BY <1>3 DEF FramesOK, FrameOK
<1>5. PICK V \in SUBSET Entry : Covered(V)
  BY DEF Going
<1>6. ASSUME NEW e \in Entry, Place[e] \in V \cup {Path}
      PROVE  Handled(e, V)
  <2>1. CASE Place[e] \in V
    BY <1>5, <2>1 DEF Covered, Through
  <2>2. CASE Place[e] = Path
    <3>1. Open(1, e) /\ ~Inside(1, e)
      BY <1>1, <1>3, <1>4, <2>2 DEF Open, Inside
    <3> QED
      BY <1>3, <1>5, <3>1 DEF Covered, ReturnedDone
  <2> QED
    BY <1>6, <2>1, <2>2
<1>7. Reached \subseteq V \cup {Path}
  BY <1>6, ReachedLeast DEF Handled
<1>8. Settled
  <2>1. SUFFICES ASSUME NEW e \in Entry, place[e] \in Reached
                 PROVE  Explained(e)
    BY DEF Settled
  <2>2. place[e] # NULL /\ Place[e] = place[e]
    BY <2>1, ReachedType, WalkAssumption DEF Types
  <2> QED
    BY <1>6, <1>7, <2>1, <2>2 DEF Handled
<1>9. Settled'
  BY <1>1, <1>2, <1>8 DEF Settled, Explained, IsLink, Content
<1> QED
  BY <1>2, <1>9 DEF Going, Untouched

\* A step of the walk but the first one finds a walk that was not disturbed.
LEMMA UndisturbedBefore ==
    ASSUME Types, Walked, Undisturbed', stack # <<>>, op' = op, failed => failed',
           removed' = removed \/ removed' = removed + 1
    PROVE  Going /\ op \in Deletes /\ ~failed' /\ ~done /\ removed' = removed
<1>1. ~done /\ op \in Deletes /\ ~failed' /\ ~failed
  BY DEF Types, Undisturbed
<1>2. removed = 0 /\ removed' = removed
  BY DEF Types, Undisturbed
<1> QED
  BY <1>1, <1>2 DEF Walked, Undisturbed, Going

LEMMA WalkedStep ==
    ASSUME Types, FramesOK, Walked, [WalkNext]_walkVars
    PROVE  Walked'
<1>1. CASE UNCHANGED walkVars
  <2>1. UNCHANGED <<op, done, place, stack, failed, removed>>
    BY <1>1 DEF walkVars
  <2>2. \A e \in Entry : \A V \in SUBSET Entry : Handled(e, V) => Handled(e, V)'
    BY <2>1, HandledKept
  <2>3. \A V \in SUBSET Entry : Covered(V) => Covered(V)'
    BY <2>1, <2>2 DEF Covered, Through, Emptied, ReturnedDone, Open, Inside
  <2>4. (Untouched => Untouched') /\ (Settled => Settled')
    BY <2>1 DEF Untouched, Settled, Explained, IsLink, Content
  <2>5. Undisturbed' => Undisturbed
    BY <2>1 DEF Undisturbed
  <2> QED
    BY <2>1, <2>3, <2>4, <2>5 DEF Walked
<1>2. ASSUME WalkNext, Undisturbed'
      PROVE  Untouched' /\ IF done' THEN Settled' ELSE Going'
  <2>1. ASSUME NEW f, walk(f)
        PROVE  Going' /\ ~done'
    BY <1>2, <2>1, WalkStarts
  <2>2. ASSUME NEW e \in Entry, StatFails(e) \/ AddSize(e) \/ Candidate(e) \/ OtherRemoves(e)
        PROVE  FALSE
    <3>1. stack # <<>> /\ op' = op /\ (failed => failed') /\ (removed' = removed \/ removed' = removed + 1)
      BY <2>2 DEF StatFails, AddSize, Candidate, OtherRemoves, StatSucceeds, Returned
    <3>2. op \in Deletes /\ ~failed' /\ removed' = removed /\ removed \in Nat
      BY <1>2, <3>1, UndisturbedBefore DEF Types
    <3> QED
      BY <2>2, <3>2 DEF StatFails, AddSize, Candidate, OtherRemoves, Deletes
  <2>3. ASSUME NEW e \in Entry, SkipGone(e) \/ Enter(e) \/ Remove(e) \/ Spare(e)
        PROVE  Going' /\ ~done'
    <3>1. /\ stack # <<>> /\ op' = op /\ (failed => failed') /\ removed' = removed
          /\ done' = done
      BY <2>3 DEF SkipGone, Enter, Remove, Spare, StatSucceeds, Returned, Call
    <3>2. Going /\ ~failed' /\ ~done
      BY <1>2, <3>1, UndisturbedBefore
    <3> QED
      BY <2>3, <3>1, <3>2, SkipGoneGoes, EnterGoes, RemoveGoes, SpareGoes
  <2>4. ASSUME Return \/ Finish
        PROVE  Going /\ ~failed' /\ op \in Deletes /\ ~done
    <3>1. op' = op /\ (failed => failed') /\ removed' = removed
      BY <2>4 DEF Return, Finish, ReturnToRmdir, RemoveCandidate
    <3>2. stack # <<>>
      <4>1. Len(stack) > 1 \/ Len(stack) = 1
        BY <2>4 DEF Return, Finish
      <4>2. Len(<<>>) = 0
        OBVIOUS
      <4> QED
        BY ONLY <4>1, <4>2
    <3> QED
      BY <1>2, <3>1, <3>2, UndisturbedBefore
  <2>5. CASE Return
    <3>1. done' = done
      BY <2>5 DEF Return
    <3> QED
      BY <2>4, <2>5, <3>1, ReturnGoes DEF Going
  <2>6. CASE Finish
    <3>1. done' = TRUE
      BY <2>6 DEF Finish
    <3> QED
      BY <2>4, <2>6, <3>1, FinishSettles
  <2> QED
    BY <1>2, <2>1, <2>2, <2>3, <2>5, <2>6 DEF WalkNext, Going
<1> QED
  BY <1>1, <1>2 DEF Walked, Going

WalkInv == Types /\ FramesOK /\ Walked

LEMMA WalkInvInit ==
    ASSUME WalkInit
    PROVE  WalkInv
<1>1. Len(stack) = 0 /\ stack \in Seq(Frames)
  BY DEF WalkInit
<1>2. Types
  <2>1. PlaceTypes
    BY WalkAssumption DEF WalkInit, PlaceTypes
  <2>2. OpTypes /\ last = NULL /\ result = 0
    BY DEF WalkInit, OpTypes, Programs
  <2> QED
    BY <1>1, <2>1, <2>2 DEF Types, PlaceTypes, OpTypes
<1>3. FramesOK
  BY <1>1 DEF FramesOK
<1>4. Walked
  BY DEF WalkInit, Walked, Undisturbed, Deletes
<1> QED
  BY <1>2, <1>3, <1>4 DEF WalkInv

LEMMA WalkInvStep ==
    ASSUME WalkInv, [WalkNext]_walkVars
    PROVE  WalkInv'
  BY TypesStep, FramesStep, WalkedStep DEF WalkInv

THEOREM WalkInvariant == WalkSpec => []WalkInv
  BY WalkInvInit, WalkInvStep, PTL DEF WalkSpec

\* What must stay is there, whatever failed.
Spared == op \in Deletes /\ removed = 0 => \A e \in Entry : MustStay(e) => place[e] = Place[e]

\* A step that removes y, which need not stay.
LEMMA SparedKept ==
    ASSUME Types, Spared, op' = op, removed' = removed,
           NEW y \in Entry, ~MustStay(y), place' = [place EXCEPT ![y] = NULL]
    PROVE  Spared'
  BY PlaceRemoved DEF Spared, MustStay

LEMMA SparedSame ==
    ASSUME Spared, op' = op, place' = place, removed' = removed
    PROVE  Spared'
  BY DEF Spared, MustStay

LEMMA RemoveSpares ==
    ASSUME Types, FramesOK, Spared, NEW y \in Entry, Remove(y)
    PROVE  Spared'
<1>1. /\ stack # <<>> /\ y \in Top.todo /\ op' = op /\ removed' = removed
      /\ place[y] = Top.dir /\ Leads[y] = NULL /\ Doomed(y)
      /\ place' = place \/ place' = [place EXCEPT ![y] = NULL]
  BY DEF Remove, StatSucceeds, Returned
<1>2. /\ Len(stack) \in Nat /\ Len(stack) >= 1 /\ Top = stack[Len(stack)]
      /\ Top.dir \in Entry \cup {Path} /\ FrameOK(Len(stack))
  BY <1>1, TopType DEF Types, FramesOK, Frames
<1>3. Place[y] = Top.dir /\ Top.dir \in Reached
  BY <1>1, <1>2, WalkAssumption DEF FrameOK
<1>4. ~MustStay(y)
  <2>1. CASE Len(stack) > 1
    <3>1. Top.dir # Path
      BY <1>2, <2>1, UpperIsEntry, WalkAssumption
    <3> QED
      BY <1>3, <3>1 DEF MustStay
  <2>2. CASE ~(Len(stack) > 1)
    BY <1>1, <1>3, <2>2 DEF MustStay, Doomed
  <2> QED
    BY <2>1, <2>2
<1> QED
  BY <1>1, <1>4, SparedKept, SparedSame

LEMMA ReturnSpares ==
    ASSUME Types, FramesOK, Spared, Return
    PROVE  Spared'
<1>1. Len(stack) \in Nat /\ Len(stack) > 1 /\ Top = stack[Len(stack)] /\ op' = op /\ removed' = removed
  BY DEF Return, Types, Top
<1>2. FrameOK(Len(stack)) /\ FrameOK(Len(stack) - 1) /\ Len(stack) \in 1..Len(stack)
  BY <1>1 DEF FramesOK
<1>3. Top.self \in Entry /\ Place[Top.self] \in Reached /\ Leads[Top.self] # NULL
  BY <1>1, <1>2, UpperIsEntry, WalkAssumption DEF FrameOK
<1>4. ~MustStay(Top.self)
  BY <1>3 DEF MustStay
<1>5. place' = place \/ place' = [place EXCEPT ![Top.self] = NULL]
  BY DEF Return, ReturnToRmdir
<1> QED
  BY <1>1, <1>3, <1>4, <1>5, SparedKept, SparedSame

LEMMA SparedStep ==
    ASSUME Types, FramesOK, Spared, [WalkNext]_walkVars
    PROVE  Spared'
<1>1. CASE UNCHANGED walkVars
  BY <1>1, SparedSame DEF walkVars
<1>2. ASSUME NEW f, walk(f)
      PROVE  Spared'
  BY <1>2 DEF walk, Types, Spared
<1>3. ASSUME NEW e \in Entry,
             StatFails(e) \/ SkipGone(e) \/ Enter(e) \/ AddSize(e) \/ Spare(e) \/ Candidate(e)
      PROVE  Spared'
  BY <1>3, SparedSame DEF StatFails, SkipGone, Enter, AddSize, Spare, Candidate
<1>4. ASSUME NEW e \in Entry, OtherRemoves(e)
      PROVE  Spared'
  <2>1. removed' # 0
    BY <1>4 DEF OtherRemoves, Types
  <2> QED
    BY <2>1 DEF Spared
<1>5. CASE Finish
  <2>1. op' = op /\ removed' = removed /\ (op \in Deletes => place' = place)
    BY <1>5 DEF Finish, RemoveCandidate, Deletes
  <2> QED
    BY <2>1 DEF Spared, MustStay
<1> QED
  BY <1>1, <1>2, <1>3, <1>4, <1>5, RemoveSpares, ReturnSpares DEF WalkNext

\* As long as nobody else removes anything, deleteFileAndDir and deleteFile leave
\* alone what is in no directory they come to and the files that deleteFile is to
\* keep, whichever of their calls fail.  When they returned and every call of
\* theirs succeeded, what is left in the directories they came to is a link to a
\* directory, a directory that is not empty, or, right in the directory
\* deleteFile was called for, a file that is not expired.
THEOREM LeftoversExplainedHolds == WalkSpec => []LeftoversExplained
<1>1. ASSUME WalkInit
      PROVE  Spared
  BY <1>1 DEF WalkInit, Spared, Deletes
<1>2. ASSUME WalkInv, Spared, [WalkNext]_walkVars
      PROVE  Spared'
  BY <1>2, SparedStep DEF WalkInv
<1>3. ASSUME WalkInv, Spared
      PROVE  LeftoversExplained
  BY <1>3 DEF WalkInv, Walked, Undisturbed, Deletes, Settled, Explained, LeftoversExplained, Spared
<1> QED
  BY <1>1, <1>2, <1>3, WalkInvariant, PTL DEF WalkSpec

-----------------------------------------------------------------------------
(* The ways down and their bytes: finitely many, and additive.             *)

LEMMA WaysType ==
    ASSUME NEW w \in Ways
    PROVE  /\ w \in Seq(Entry) /\ Len(w) \in 1..Depth
           /\ IsWay(w) /\ Leads[w[Len(w)]] = NULL
           /\ \A k \in 1..Len(w) : w[k] \in Entry
<1>1. PICK n \in 1..Depth : w \in [1..n -> Entry]
  BY DEF Ways
<1>2. n \in Nat
  BY <1>1, DepthAssumption
<1>3. w \in Seq(Entry) /\ Len(w) = n
  BY <1>1, <1>2
<1> QED
  BY <1>1, <1>3 DEF Ways

LEMMA WaysMember ==
    ASSUME NEW w \in Seq(Entry), Len(w) >= 1, IsWay(w), Leads[w[Len(w)]] = NULL
    PROVE  w \in Ways
<1>1. Len(w) \in Nat /\ Depth \in Nat
  BY DepthAssumption
<1>2. Len(w) <= Depth
  <2>1. SUFFICES ASSUME Depth + 1 <= Len(w)
                 PROVE  FALSE
    BY <1>1
  <2> DEFINE v == SubSeq(w, 1, Depth + 1)
  <2>2. v \in Seq(Entry) /\ Len(v) = Depth + 1 /\ \A k \in 1..(Depth + 1) : v[k] = w[k]
    BY <1>1, <2>1, SubSeqType
  <2> HIDE DEF v
  <2>3. v \in [1..(Depth + 1) -> Entry]
    BY <2>2
  <2>4. IsWay(v)
    BY <1>1, <2>1, <2>2 DEF IsWay
  <2> QED
    BY <2>3, <2>4, DepthAssumption
<1>3. w \in [1..Len(w) -> Entry] /\ Len(w) \in 1..Depth
  BY <1>1, <1>2
<1>4. w \in UNION {[1..n -> Entry] : n \in 1..Depth}
  BY ONLY <1>3, Zenon
<1> QED
  BY <1>4 DEF Ways

LEMMA WaysFinite == IsFiniteSet(Ways)
<1> DEFINE f == [w \in Ways |-> {<<k, w[k]>> : k \in 1..Len(w)}]
           T == SUBSET ((1..Depth) \X Entry)
<1>1. f \in [Ways -> T]
  <2>1. SUFFICES ASSUME NEW w \in Ways
                 PROVE  {<<k, w[k]>> : k \in 1..Len(w)} \in T
    OBVIOUS
  <2>2. \A k \in 1..Len(w) : k \in 1..Depth /\ w[k] \in Entry
    BY WaysType, DepthAssumption
  <2> QED
    BY <2>2
<1>2. ASSUME NEW v \in Ways, NEW w \in Ways, f[v] = f[w]
      PROVE  v = w
  <2>1. /\ v \in Seq(Entry) /\ Len(v) \in Nat /\ Len(v) >= 1
        /\ w \in Seq(Entry) /\ Len(w) \in Nat /\ Len(w) >= 1
    BY WaysType, DepthAssumption
  <2>2. \A k \in 1..Len(v) : \E j \in 1..Len(w) : <<k, v[k]>> = <<j, w[j]>>
    BY <1>2
  <2>3. \A k \in 1..Len(w) : \E j \in 1..Len(v) : <<k, w[k]>> = <<j, v[j]>>
    BY <1>2
  <2>4. \A k \in 1..Len(v) : k \in 1..Len(w) /\ v[k] = w[k]
    BY <2>2
  <2>5. \A k \in 1..Len(w) : k \in 1..Len(v)
    BY <2>3
  <2>6. Len(v) = Len(w)
    BY <2>1, <2>4, <2>5
  <2> QED
    BY <2>1, <2>4, <2>6, SeqEqual
<1>3. f \in Injection(Ways, T)
  BY <1>1, <1>2, Zenon DEF Injection, IsInjective
<1>4. IsFiniteSet(T)
  <2>1. IsFiniteSet(1..Depth)
    BY FS_Interval, DepthAssumption
  <2> QED
    BY <2>1, FS_Product, FS_SUBSET, DepthAssumption
<1> HIDE DEF f, T
<1> QED
  BY <1>3, <1>4, FS_Injection

LEMMA UpTo ==
    ASSUME NEW n \in Nat
    PROVE  IsFiniteSet(1..n) /\ Cardinality(1..n) = n
<1>1. 1 \in Int /\ n \in Int /\ (IF 1 > n THEN 0 ELSE n - 1 + 1) = n
  OBVIOUS
<1> QED
  BY ONLY <1>1, FS_Interval

Count(ways) == Cardinality(BytesOn(ways))

LEMMA BytesFinite ==
    ASSUME NEW W \in SUBSET Ways
    PROVE  IsFiniteSet(BytesOn(W)) /\ Count(W) \in Nat
<1> DEFINE g == [w \in W |-> {w} \X (1..Size[w[Len(w)]])]
           S == {g[w] : w \in W}
<1>1. IsFiniteSet(W)
  BY WaysFinite, FS_Subset
<1>2. g \in Surjection(W, S)
  BY DEF Surjection
<1>3. \A w \in W : IsFiniteSet(g[w])
  <2>1. SUFFICES ASSUME NEW w \in W
                 PROVE  IsFiniteSet({w} \X (1..Size[w[Len(w)]]))
    OBVIOUS
  <2>2. Size[w[Len(w)]] \in Nat
    BY WaysType, WalkAssumption
  <2>3. IsFiniteSet(1..Size[w[Len(w)]])
    BY ONLY <2>2, UpTo
  <2>4. IsFiniteSet({w})
    BY FS_Singleton
  <2> QED
    BY ONLY <2>3, <2>4, FS_Product
<1>4. BytesOn(W) = UNION S
  BY DEF BytesOn
<1>5. \A B \in S : IsFiniteSet(B)
  BY <1>3
<1> HIDE DEF g, S
<1>6. IsFiniteSet(S)
  BY <1>1, <1>2, FS_Surjection
<1> QED
  BY <1>4, <1>5, <1>6, FS_UNION, FS_CardinalityType DEF Count

LEMMA CountTwo ==
    ASSUME NEW W \in SUBSET Ways, NEW X \in SUBSET Ways, W \cap X = {}
    PROVE  Count(W \cup X) = Count(W) + Count(X)
<1>1. BytesOn(W \cup X) = BytesOn(W) \cup BytesOn(X)
  BY DEF BytesOn
<1>2. BytesOn(W) \cap BytesOn(X) = {}
  BY DEF BytesOn
<1>3. /\ IsFiniteSet(BytesOn(W)) /\ IsFiniteSet(BytesOn(X))
      /\ Count(W) \in Nat /\ Count(X) \in Nat
  BY BytesFinite
<1>4. Cardinality(BytesOn(W) \cup BytesOn(X))
          = Cardinality(BytesOn(W)) + Cardinality(BytesOn(X)) - Cardinality(BytesOn(W) \cap BytesOn(X))
  BY ONLY <1>3, FS_Union
<1>5. Cardinality(BytesOn(W) \cap BytesOn(X)) = 0
  BY ONLY <1>2, FS_EmptySet
<1>6. /\ Count(W \cup X) = Cardinality(BytesOn(W) \cup BytesOn(X))
      /\ Count(W) = Cardinality(BytesOn(W)) /\ Count(X) = Cardinality(BytesOn(X))
  BY <1>1, Zenon DEF Count
<1> QED
  BY ONLY <1>3, <1>4, <1>5, <1>6

LEMMA CountMore ==
    ASSUME NEW X \in SUBSET Ways, NEW W \in SUBSET X
    PROVE  Count(W) <= Count(X)
<1>1. BytesOn(W) \in SUBSET BytesOn(X)
  BY DEF BytesOn
<1> QED
  BY <1>1, BytesFinite, FS_Subset DEF Count

LEMMA CountNone == Count({}) = 0
<1>1. BytesOn({}) = {}
  BY DEF BytesOn
<1> QED
  BY <1>1, FS_EmptySet DEF Count

LEMMA CountOne ==
    ASSUME NEW w \in Ways
    PROVE  Count({w}) = Size[w[Len(w)]]
<1> DEFINE n == Size[w[Len(w)]]
<1>1. n \in Nat
  BY WaysType, WalkAssumption
<1>2. BytesOn({w}) = {w} \X (1..n)
  BY DEF BytesOn
<1> HIDE DEF n
<1>3. IsFiniteSet({w}) /\ Cardinality({w}) = 1
  BY ONLY FS_Singleton
<1>4. IsFiniteSet(1..n) /\ Cardinality(1..n) = n
  BY ONLY <1>1, UpTo
<1>5. Cardinality({w} \X (1..n)) = Cardinality({w}) * Cardinality(1..n)
  BY ONLY <1>3, <1>4, FS_Product
<1>6. Count({w}) = Cardinality({w} \X (1..n))
  BY <1>2, Zenon DEF Count
<1>7. Count({w}) = n
  BY ONLY <1>1, <1>3, <1>4, <1>5, <1>6
<1> QED
  BY <1>7 DEF n

-----------------------------------------------------------------------------
(* get_dir_size: a frame has the size of the ways it is done with.         *)

\* w goes down as the stack does, as far as the directory of frame k.
Follows(w, k) == \A j \in 1..(k - 1) : w[j] = stack[j + 1].self

\* The ways through what readdir returned in frame k, but for the entry that
\* is being walked.
Passed(k) == {w \in Ways : /\ Len(w) >= k
                           /\ Follows(w, k)
                           /\ w[k] \notin stack[k].todo
                           /\ ~Inside(k, w[k])}

Exact == ~failed /\ removed = 0

Agrees(size, count) == size <= count /\ (Exact => size = count)

Sized == \A k \in 1..Len(stack) : Agrees(stack[k].size, Count(Passed(k)))
SizesOK ==
    op = "get_dir_size" =>
        /\ Exact => place = Place
        /\ IF done THEN Agrees(result, Total) ELSE Sized

\* What is not about frame k leaves the ways it is done with.
LEMMA PassedSame ==
    ASSUME NEW k \in Nat \ {0}, \A j \in 1..k : stack'[j].self = stack[j].self,
           stack'[k].todo = stack[k].todo, \A e \in Entry : Inside(k, e)' <=> Inside(k, e)
    PROVE  Passed(k)' = Passed(k)
<1>1. SUFFICES ASSUME NEW w \in Ways, Len(w) >= k
               PROVE  (Follows(w, k)' /\ w[k] \notin stack'[k].todo /\ ~Inside(k, w[k])')
                          <=> (Follows(w, k) /\ w[k] \notin stack[k].todo /\ ~Inside(k, w[k]))
  BY DEF Passed
<1>2. w[k] \in Entry
  BY <1>1, WaysType, DepthAssumption
<1>3. Follows(w, k)' <=> Follows(w, k)
  BY DEF Follows
<1> QED
  BY <1>2, <1>3

LEMMA PassedWays ==
    ASSUME NEW k
    PROVE  Passed(k) \in SUBSET Ways /\ Passed(k)' \in SUBSET Ways
  BY DEF Passed

LEMMA AgreesKept ==
    ASSUME NEW size, NEW count, Agrees(size, count), Exact' => Exact
    PROVE  Agrees(size, count)'
  BY DEF Agrees

\* The frames below the top do not change with it.
LEMMA LowerAgree ==
    ASSUME Types, Sized, Exact' => Exact, stack # <<>>, Len(stack') >= Len(stack), Len(stack') \in Nat,
           \A j \in 1..(Len(stack) - 1) : stack'[j] = stack[j],
           stack'[Len(stack)].self = Top.self,
           NEW k \in 1..(Len(stack) - 1)
    PROVE  Agrees(stack[k].size, Count(Passed(k)))'
<1>1. Len(stack) \in Nat /\ Len(stack) >= 1 /\ Top = stack[Len(stack)]
  BY TopType DEF Types
<1>2. \A j \in 1..Len(stack) : stack'[j].self = stack[j].self
  BY <1>1
<1>3. stack'[k] = stack[k]
  OBVIOUS
<1>4. \A e \in Entry : Inside(k, e)' <=> Inside(k, e)
  <2>1. /\ k + 1 \in 1..Len(stack) /\ (k < Len(stack)) = TRUE /\ (k < Len(stack')) = TRUE
    BY <1>1
  <2>2. stack'[k + 1].self = stack[k + 1].self
    BY ONLY <1>2, <2>1
  <2> QED
    BY ONLY <2>1, <2>2 DEF Inside
<1>5. Passed(k)' = Passed(k)
  <2>1. /\ k \in Nat \ {0}
        /\ \A j \in 1..k : stack'[j].self = stack[j].self
        /\ stack'[k].todo = stack[k].todo
    BY <1>1, <1>2, <1>3
  <2> QED
    BY ONLY <1>4, <2>1, PassedSame
<1>6. Agrees(stack[k].size, Count(Passed(k)))
  BY <1>1 DEF Sized
<1> QED
  BY <1>3, <1>5, <1>6 DEF Agrees, Count

\* The top frame is done with what readdir returned.
LEMMA PassedTop ==
    ASSUME Types, stack # <<>>, NEW n, n = Len(stack)
    PROVE  Passed(n) = {w \in Ways : Len(w) >= n /\ Follows(w, n) /\ w[n] \notin Top.todo}
<1>1. n \in Nat /\ Top = stack[n]
  BY TopType DEF Types
<1>2. \A e : ~Inside(n, e)
  BY <1>1 DEF Inside
<1> QED
  BY <1>1, <1>2 DEF Passed

\* ... and after a step that replaces it, with what that step left.
LEMMA PassedReplaced ==
    ASSUME Types, NEW left, NEW size, Replaced(left, size), NEW n, n = Len(stack)
    PROVE  Passed(n)' = {w \in Ways : Len(w) >= n /\ Follows(w, n) /\ w[n] \notin left}
<1>1. n \in Nat /\ n >= 1 /\ Top = stack[n] /\ Len(stack') = n /\ stack'[n].todo = left
  BY TopType DEF Types, Replaced
<1>2. \A e : ~Inside(n, e)'
  BY <1>1 DEF Inside
<1>3. \A j \in 1..n : stack'[j].self = stack[j].self
  BY <1>1 DEF Replaced
<1>4. \A w : Follows(w, n)' <=> Follows(w, n)
  BY <1>1, <1>3 DEF Follows
<1> QED
  BY <1>1, <1>2, <1>4 DEF Passed

\* The one way that ends with the file e in the top frame.
LEMMA WayTo ==
    ASSUME Types, FramesOK, stack # <<>>, NEW n, n = Len(stack), NEW e \in Top.todo, Leads[e] = NULL
    PROVE  \E w \in Ways : /\ Len(w) = n /\ Follows(w, n) /\ w[n] = e
                           /\ \A v \in Ways : Len(v) >= n /\ Follows(v, n) /\ v[n] = e => v = w
<1>1. n \in Nat /\ n >= 1 /\ Top = stack[n] /\ Top \in Frames
  BY TopType DEF Types
<1>2. \A k \in 1..n : FrameOK(k)
  BY DEF FramesOK
<1>3. e \in Entry /\ Place[e] = stack[n].dir
  BY <1>1, <1>2 DEF FrameOK, Frames
<1> DEFINE w == [j \in 1..n |-> IF j = n THEN e ELSE stack[j + 1].self]
<1>4. \A j \in 1..(n - 1) : w[j] = stack[j + 1].self
  BY <1>1
<1>5. w[n] = e
  BY <1>1
<1>6. \A j \in 1..n : w[j] \in Entry /\ Place[w[j]] = stack[j].dir
  <2>1. SUFFICES ASSUME NEW j \in 1..n, j # n
                 PROVE  w[j] \in Entry /\ Place[w[j]] = stack[j].dir
    BY <1>3, <1>5
  <2>2. j + 1 \in 1..n /\ j + 1 > 1 /\ j + 1 - 1 = j /\ j \in 1..(n - 1)
    BY <1>1, <2>1
  <2> HIDE DEF w
  <2> QED
    BY <1>2, <1>4, <2>2 DEF FrameOK
<1>7. w \in Seq(Entry) /\ Len(w) = n
  <2>1. w \in [1..n -> Entry]
    BY <1>6
  <2> HIDE DEF w
  <2> QED
    BY <1>1, <2>1
<1> HIDE DEF w
<1>8. IsWay(w)
  <2>1. Place[w[1]] = Path
    BY <1>1, <1>2, <1>6 DEF FrameOK
  <2>2. ASSUME NEW j \in 1..(n - 1)
        PROVE  Place[w[j + 1]] = Leads[w[j]]
    <3>1. j + 1 \in 1..n /\ j + 1 > 1
      BY <1>1
    <3>2. Leads[stack[j + 1].self] = stack[j + 1].dir
      BY <1>2, <3>1 DEF FrameOK
    <3> QED
      BY <1>4, <1>6, <3>1, <3>2
  <2> QED
    BY <1>7, <2>1, <2>2 DEF IsWay
<1>9. w \in Ways
  BY <1>1, <1>5, <1>7, <1>8, WaysMember
<1>10. ASSUME NEW v \in Ways, Len(v) >= n, Follows(v, n), v[n] = e
       PROVE  v = w
  <2>1. v \in Seq(Entry) /\ Len(v) \in Nat /\ IsWay(v) /\ \A k \in 1..Len(v) : v[k] \in Entry
    BY WaysType, DepthAssumption
  <2>2. Len(v) = n
    <3>1. SUFFICES ASSUME n + 1 <= Len(v)
                   PROVE  FALSE
      BY <1>1, <1>10, <2>1
    <3>2. n \in 1..(Len(v) - 1) /\ n + 1 \in 1..Len(v)
      BY <1>1, <2>1, <3>1
    <3>3. Place[v[n + 1]] = NULL
      BY <1>10, <2>1, <3>2 DEF IsWay
    <3>4. v[n + 1] \in Entry
      BY <2>1, <3>2
    <3> QED
      BY <3>3, <3>4, WalkAssumption
  <2>3. \A j \in 1..n : v[j] = w[j]
    BY <1>1, <1>4, <1>5, <1>10 DEF Follows
  <2> QED
    BY <1>7, <2>1, <2>2, <2>3, SeqEqual
<1>11. Follows(w, n)
  BY <1>4 DEF Follows
<1> QED
  BY <1>5, <1>7, <1>9, <1>10, <1>11

-----------------------------------------------------------------------------

\* A replaced top frame whose size agrees again.
LEMMA ReplacedAgrees ==
    ASSUME Types, Sized, Exact' => Exact, NEW left, NEW size, Replaced(left, size), NEW n, n = Len(stack),
           Agrees(size, Count(Passed(n)))'
    PROVE  Sized'
<1>1. n \in Nat /\ n >= 1 /\ Len(stack') = n /\ stack'[n].size = size /\ stack # <<>>
  BY TopType DEF Types, Replaced
<1>2. SUFFICES ASSUME NEW k \in 1..n
               PROVE  Agrees(stack[k].size, Count(Passed(k)))'
  BY <1>1 DEF Sized
<1>3. CASE k = n
  BY <1>1, <1>3 DEF Agrees
<1>4. CASE k # n
  <2>1. k \in 1..(Len(stack) - 1)
    BY <1>1, <1>4
  <2> QED
    BY <1>1, <2>1, LowerAgree DEF Replaced
<1> QED
  BY <1>3, <1>4

LEMMA TopAgrees ==
    ASSUME Types, Sized, stack # <<>>, NEW n, n = Len(stack)
    PROVE  Agrees(Top.size, Count(Passed(n)))
<1>1. n \in Nat /\ n >= 1 /\ Top = stack[n]
  BY TopType DEF Types
<1>2. n \in 1..Len(stack)
  BY <1>1
<1> QED
  BY <1>1, <1>2 DEF Sized

\* One more than what the walk has passed is the way to e.
LEMMA PassedOneMore ==
    ASSUME Types, FramesOK, NEW e \in Top.todo, NEW size, Leads[e] = NULL,
           Replaced(Top.todo \ {e}, size), NEW n, n = Len(stack)
    PROVE  Count(Passed(n))' = Count(Passed(n)) + Size[e]
<1>1. stack # <<>>
  BY DEF Replaced
<1>2. PICK w \in Ways : /\ Len(w) = n /\ Follows(w, n) /\ w[n] = e
                        /\ \A v \in Ways : Len(v) >= n /\ Follows(v, n) /\ v[n] = e => v = w
  BY <1>1, WayTo
<1>3. n \in Nat
  BY <1>1, TopType DEF Types
<1>4. Passed(n) = {v \in Ways : Len(v) >= n /\ Follows(v, n) /\ v[n] \notin Top.todo}
  BY <1>1, PassedTop
<1>5. Passed(n)' = {v \in Ways : Len(v) >= n /\ Follows(v, n) /\ v[n] \notin Top.todo \ {e}}
  BY PassedReplaced
<1>6. Passed(n)' = Passed(n) \cup {w} /\ Passed(n) \cap {w} = {}
  BY <1>2, <1>3, <1>4, <1>5
<1>7. Count(Passed(n) \cup {w}) = Count(Passed(n)) + Count({w})
  BY <1>6, PassedWays, CountTwo
<1>8. Count({w}) = Size[e]
  BY <1>2, CountOne
<1>9. Count(Passed(n))' = Count(Passed(n) \cup {w})
  BY <1>6 DEF Count, BytesOn
<1> QED
  BY ONLY <1>7, <1>8, <1>9

LEMMA CountNat ==
    ASSUME NEW k
    PROVE  Count(Passed(k)) \in Nat /\ Count(Passed(k))' \in Nat
<1>1. Passed(k) \in SUBSET Ways /\ Passed(k)' \in SUBSET Ways
  BY PassedWays
<1>2. Count(Passed(k))' = Count(Passed(k)')
  BY DEF Count, BytesOn
<1>3. Count(Passed(k)) \in Nat /\ Count(Passed(k)') \in Nat
  BY ONLY <1>1, BytesFinite
<1> QED
  BY ONLY <1>2, <1>3

LEMMA WalkSizes ==
    ASSUME Types, NEW f, walk(f)
    PROVE  (Exact => place = Place)' /\ Sized'
<1>1. place' = Place /\ place = Place
  BY DEF walk, Types
<1>2. \/ Started(Content(Path), 0) /\ failed' = failed
      \/ Started({}, -1) /\ failed' = TRUE
  BY CallStarts DEF walk
<1>3. SUFFICES Agrees(stack[1].size, Count(Passed(1)))'
  BY <1>1, <1>2 DEF Sized, Started
<1>5. Count(Passed(1))' = Count(Passed(1)')
  BY DEF Count, BytesOn
<1>6. Count(Passed(1))' \in Nat
  BY CountNat
<1>7. CASE Started(Content(Path), 0)
  <2>1. Passed(1)' = {}
    <3>1. SUFFICES ASSUME NEW w \in Passed(1)'
                   PROVE  FALSE
      OBVIOUS
    <3>2. w \in Ways /\ w[1] \notin Content(Path)
      BY <1>7, <3>1 DEF Passed, Started
    <3>3. 1 \in 1..Len(w)
      BY <3>2, WaysType, DepthAssumption
    <3>4. w[1] \in Entry /\ Place[w[1]] = Path
      BY <3>2, <3>3, WaysType DEF IsWay
    <3> QED
      BY <1>1, <3>2, <3>4 DEF Content
  <2>2. Count(Passed(1))' = 0
    BY <1>5, <2>1, CountNone
  <2>3. stack'[1].size = 0
    BY <1>7 DEF Started
  <2> QED
    BY <2>2, <2>3 DEF Agrees
<1>8. CASE Started({}, -1) /\ failed' = TRUE
  <2>1. stack'[1].size = -1 /\ ~Exact'
    BY <1>8 DEF Started, Exact
  <2> QED
    BY <1>6, <2>1 DEF Agrees
<1> QED
  BY <1>2, <1>7, <1>8

LEMMA StatFailsSizes ==
    ASSUME Types, Sized, NEW e \in Entry, StatFails(e)
    PROVE  Sized'
<1>1. Replaced({}, -1)
  BY GivingUpReplaces DEF StatFails, Returned, Types
<1>2. ~Exact'
  BY DEF StatFails, Exact
<1>3. PICK n : n = Len(stack)
  OBVIOUS
<1>4. Count(Passed(n))' \in Nat
  BY CountNat
<1>5. Agrees(-1, Count(Passed(n)))'
  BY <1>2, <1>4 DEF Agrees
<1> QED
  BY <1>1, <1>2, <1>3, <1>5, ReplacedAgrees

\* What an entry that is gone holds cannot be counted any more.
LEMMA SkipGoneSizes ==
    ASSUME Types, Sized, Exact => place = Place, NEW e \in Entry, SkipGone(e)
    PROVE  Sized'
<1>1. Replaced(Top.todo \ {e}, Top.size) /\ stack # <<>>
  BY RestReplaces DEF SkipGone, Returned, Types
<1>2. Exact' <=> Exact
  BY DEF SkipGone, Exact
<1>3. ~Exact
  <2>1. place[e] = NULL /\ Place[e] # NULL
    BY WalkAssumption DEF SkipGone
  <2> QED
    BY <2>1
<1>4. PICK n : n = Len(stack)
  OBVIOUS
<1>5. Agrees(Top.size, Count(Passed(n)))
  BY <1>1, <1>4, TopAgrees
<1>6. Count(Passed(n)) <= Count(Passed(n))'
  <2>1. Passed(n)' \in SUBSET Ways /\ Passed(n) \in SUBSET Passed(n)'
    <3>1. Passed(n) = {v \in Ways : Len(v) >= n /\ Follows(v, n) /\ v[n] \notin Top.todo}
      BY <1>1, <1>4, PassedTop
    <3>2. Passed(n)' = {v \in Ways : Len(v) >= n /\ Follows(v, n) /\ v[n] \notin Top.todo \ {e}}
      BY <1>1, <1>4, PassedReplaced
    <3> QED
      BY <3>1, <3>2
  <2>2. Count(Passed(n)) <= Count(Passed(n)')
    BY ONLY <2>1, CountMore
  <2> QED
    BY <2>2 DEF Count, BytesOn
<1>7. Top.size \in Int
  BY <1>1, TopType DEF Types, Frames
<1>8. Count(Passed(n)) \in Nat /\ Count(Passed(n))' \in Nat
  BY CountNat
<1>9. Top.size <= Count(Passed(n))'
  BY <1>5, <1>6, <1>7, <1>8 DEF Agrees
<1>10. PICK size : size = Top.size
  OBVIOUS
<1>11. Agrees(size, Count(Passed(n)))'
  BY <1>2, <1>3, <1>9, <1>10 DEF Agrees
<1> QED
  BY <1>1, <1>2, <1>4, <1>10, <1>11, ReplacedAgrees

LEMMA AddSizeSizes ==
    ASSUME Types, FramesOK, Sized, NEW e \in Entry, AddSize(e)
    PROVE  Sized'
<1>1. stack # <<>> /\ e \in Top.todo /\ Leads[e] = NULL
  BY DEF AddSize, StatSucceeds, Returned
<1>2. Size[e] \in Nat /\ Size[e] \in Int
  BY WalkAssumption
<1>3. Replaced(Top.todo \ {e}, Top.size + Size[e])
  BY <1>1, <1>2, CountingReplaces DEF AddSize, Types
<1>4. Exact' <=> Exact
  BY DEF AddSize, Exact
<1>5. PICK n : n = Len(stack)
  OBVIOUS
<1>6. Agrees(Top.size, Count(Passed(n)))
  BY <1>1, <1>5, TopAgrees
<1>7. Top.size \in Int
  BY <1>1, TopType DEF Types, Frames
<1>8. Count(Passed(n)) \in Nat
  BY CountNat
<1>9. PICK size : size = Top.size + Size[e]
  OBVIOUS
<1>10. Count(Passed(n))' = Count(Passed(n)) + Size[e]
  BY <1>1, <1>3, <1>5, PassedOneMore
<1>11. Agrees(size, Count(Passed(n)))'
  BY <1>2, <1>4, <1>6, <1>7, <1>8, <1>9, <1>10 DEF Agrees
<1> QED
  BY <1>3, <1>4, <1>5, <1>9, <1>11, ReplacedAgrees

\* The entry that is walked is not passed before the walk of it returns.
LEMMA EnterSizes ==
    ASSUME Types, FramesOK, Sized, Exact => place = Place, NEW e \in Entry, Enter(e)
    PROVE  Sized'
<1>1. stack # <<>> /\ e \in Top.todo /\ Leads[e] \in Entry /\ place' = place /\ removed' = removed
  BY WalkAssumption DEF Enter, StatSucceeds, Returned
<1>2. \/ Entered(e, Content(Leads[e]), 0) /\ failed' = failed
      \/ Entered(e, {}, -1) /\ failed' = TRUE
  BY <1>1, CallEnters DEF Enter, Types
<1>3. Exact' => Exact
  BY <1>1, <1>2 DEF Exact
<1>4. PICK n : n = Len(stack)
  OBVIOUS
<1>5. n \in Nat /\ n >= 1 /\ Top = stack[n]
  BY <1>1, <1>4, TopType DEF Types
<1>6. /\ Len(stack') = n + 1
      /\ \A k \in 1..(n - 1) : stack'[k] = stack[k]
      /\ stack'[n].self = Top.self
      /\ stack'[n].todo = Top.todo \ {e}
      /\ stack'[n].size = Top.size
      /\ stack'[n + 1].self = e
  BY <1>2, <1>4 DEF Entered
<1>7. ASSUME NEW k \in 1..(n - 1)
      PROVE  Agrees(stack[k].size, Count(Passed(k)))'
  <2>1. Len(stack') >= Len(stack) /\ Len(stack') \in Nat
    BY <1>4, <1>5, <1>6
  <2> QED
    BY <1>1, <1>3, <1>4, <1>6, <2>1, LowerAgree
<1>8. Agrees(stack[n].size, Count(Passed(n)))'
  <2>1. Passed(n) = {v \in Ways : Len(v) >= n /\ Follows(v, n) /\ v[n] \notin Top.todo}
    BY <1>1, <1>4, PassedTop
  <2>2. \A v : Inside(n, v)' <=> v = e
    BY <1>5, <1>6 DEF Inside
  <2>3. \A v : Follows(v, n)' <=> Follows(v, n)
    <3>1. \A j \in 1..(n - 1) : stack'[j + 1].self = stack[j + 1].self
      <4>1. SUFFICES ASSUME NEW j \in 1..(n - 1)
                     PROVE  stack'[j + 1].self = stack[j + 1].self
        OBVIOUS
      <4>2. j + 1 \in 1..(n - 1) \/ j + 1 = n
        BY <1>5
      <4> QED
        BY <1>5, <1>6, <4>2
    <3> QED
      BY <3>1 DEF Follows
  <2>4. Passed(n)' = Passed(n)
    BY <1>1, <1>6, <2>1, <2>2, <2>3 DEF Passed
  <2>5. Agrees(Top.size, Count(Passed(n)))
    BY <1>1, <1>4, TopAgrees
  <2> QED
    BY <1>3, <1>6, <2>4, <2>5 DEF Agrees, Count
<1>9. PICK m : m = n + 1
  OBVIOUS
<1>10. Agrees(stack[m].size, Count(Passed(m)))'
  <2>1. Count(Passed(m))' \in Nat
    BY CountNat
  <2>2. CASE Entered(e, {}, -1) /\ failed' = TRUE
    <3>1. stack'[m].size = -1 /\ ~Exact'
      BY <1>4, <1>9, <2>2 DEF Entered, Exact
    <3> QED
      BY <2>1, <3>1 DEF Agrees
  <2>3. CASE Entered(e, Content(Leads[e]), 0) /\ failed' = failed
    <3>1. stack'[m].size = 0 /\ stack'[m].todo = Content(Leads[e])
      BY <1>4, <1>9, <2>3 DEF Entered
    <3>2. ASSUME Exact'
          PROVE  Passed(m)' = {}
      <4>1. SUFFICES ASSUME NEW w \in Passed(m)'
                     PROVE  FALSE
        OBVIOUS
      <4>2. w \in Ways /\ Len(w) >= m /\ Follows(w, m)' /\ w[m] \notin Content(Leads[e])
        BY <3>1, <4>1 DEF Passed
      <4>3. w[n] = e
        <5>1. n \in 1..(m - 1) /\ n + 1 = m
          BY <1>5, <1>9
        <5> QED
          BY <1>6, <1>9, <4>2, <5>1 DEF Follows
      <4>4. Len(w) \in Nat /\ n \in 1..(Len(w) - 1) /\ m \in 1..Len(w)
        BY <1>5, <1>9, <4>2, WaysType, DepthAssumption
      <4>5. w[m] \in Entry /\ Place[w[m]] = Leads[e]
        BY <1>9, <4>2, <4>3, <4>4, WaysType DEF IsWay
      <4>6. place = Place
        BY <1>3, <3>2
      <4> QED
        BY <4>2, <4>5, <4>6 DEF Content
    <3>3. Exact' => Count(Passed(m))' = 0
      <4>1. Count(Passed(m))' = Count(Passed(m)')
        BY DEF Count, BytesOn
      <4> QED
        BY <3>2, <4>1, CountNone
    <3> QED
      BY <2>1, <3>1, <3>3 DEF Agrees
  <2> QED
    BY <1>2, <2>2, <2>3
<1>11. SUFFICES ASSUME NEW k \in 1..m
                PROVE  Agrees(stack[k].size, Count(Passed(k)))'
  BY <1>6, <1>9 DEF Sized
<1>12. k \in 1..(n - 1) \/ k = n \/ k = m
  BY <1>5, <1>9
<1> QED
  BY <1>7, <1>8, <1>10, <1>12

\* What the subdirectory counted belongs to the ways through its entry.
LEMMA ReturnSizes ==
    ASSUME Types, FramesOK, Sized, Return, UNCHANGED failed
    PROVE  Sized'
<1>1. Closed /\ Top.todo = {} /\ removed' = removed
  BY ReturnCloses DEF Types, Return
<1>2. Exact' <=> Exact
  BY <1>1 DEF Exact
<1>3. PICK n : n = Len(stack)
  OBVIOUS
<1>4. PICK m : m = n - 1
  OBVIOUS
<1>5. n \in Nat /\ m \in Nat /\ m >= 1 /\ n = m + 1 /\ Top = stack[n] /\ stack # <<>>
  <2>1. n \in Nat /\ n > 1
    BY <1>1, <1>3 DEF Closed, Types
  <2>2. stack # <<>>
    <3>1. Len(<<>>) = 0
      OBVIOUS
    <3> QED
      BY ONLY <1>3, <2>1, <3>1
  <2> QED
    BY <1>3, <1>4, <2>1, <2>2 DEF Top
<1>6. /\ Len(stack') = m
      /\ \A k \in 1..(m - 1) : stack'[k] = stack[k]
      /\ stack'[m].self = stack[m].self
      /\ stack'[m].todo = stack[m].todo
      /\ stack'[m].size = stack[m].size + stack[n].size
  BY <1>1, <1>3, <1>4, <1>5 DEF Closed
<1>7. \A j \in 1..m : stack'[j].self = stack[j].self
  <2>1. \A j \in 1..m : j \in 1..(m - 1) \/ j = m
    BY <1>5
  <2> QED
    BY <1>6, <2>1
<1>8. ASSUME NEW k \in 1..(m - 1)
      PROVE  Agrees(stack[k].size, Count(Passed(k)))'
  <2>1. stack'[k] = stack[k]
    BY <1>6
  <2>2. \A e \in Entry : Inside(k, e)' <=> Inside(k, e)
    <3>1. k < Len(stack) /\ k < Len(stack') /\ stack'[k + 1].self = stack[k + 1].self
      BY <1>3, <1>5, <1>6, <1>7
    <3> QED
      BY <3>1 DEF Inside
  <2>3. Passed(k)' = Passed(k)
    BY <1>5, <1>7, <2>1, <2>2, PassedSame
  <2>4. Agrees(stack[k].size, Count(Passed(k)))
    BY <1>3, <1>5 DEF Sized
  <2> QED
    BY <1>2, <2>1, <2>3, <2>4 DEF Agrees, Count
<1>9. Agrees(stack[m].size, Count(Passed(m)))'
  <2>1. /\ Leads[stack[n].self] # NULL
        /\ stack[n].self \notin stack[m].todo
    <3>1. FrameOK(n)
      BY <1>3, <1>5 DEF FramesOK
    <3>2. stack[n].dir \in Entry \cup {Path}
      BY <3>1, ReachedType DEF FrameOK
    <3> QED
      BY <1>4, <1>5, <3>1, <3>2, WalkAssumption DEF FrameOK
  <2>2. Passed(n) = {w \in Ways : Len(w) >= n /\ Follows(w, n)}
    BY <1>1, <1>3, <1>5, PassedTop
  <2>3. Passed(m) = {w \in Ways : /\ Len(w) >= m /\ Follows(w, m)
                                  /\ w[m] \notin stack[m].todo /\ w[m] # stack[n].self}
    BY <1>3, <1>5 DEF Passed, Inside
  <2>4. Passed(m)' = {w \in Ways : Len(w) >= m /\ Follows(w, m) /\ w[m] \notin stack[m].todo}
    <3>1. \A w : Follows(w, m)' <=> Follows(w, m)
      <4>1. \A j \in 1..(m - 1) : stack'[j + 1].self = stack[j + 1].self
        BY <1>5, <1>7
      <4> QED
        BY <4>1 DEF Follows
    <3>2. \A e : ~Inside(m, e)'
      BY <1>5, <1>6 DEF Inside
    <3> QED
      BY <1>6, <3>1, <3>2 DEF Passed
  <2>5. \A w : Follows(w, n) <=> Follows(w, m) /\ w[m] = stack[n].self
    <3>1. \A j \in 1..(n - 1) : j \in 1..(m - 1) \/ j = m
      BY <1>5
    <3>2. m \in 1..(n - 1) /\ 1..(m - 1) \subseteq 1..(n - 1)
      BY <1>5
    <3> QED
      BY <1>5, <3>1, <3>2 DEF Follows
  <2>6. \A w \in Ways : Len(w) >= m /\ w[m] = stack[n].self => Len(w) >= n
    <3>1. SUFFICES ASSUME NEW w \in Ways, Len(w) >= m, w[m] = stack[n].self
                   PROVE  Len(w) # m
      BY <1>5, WaysType, DepthAssumption
    <3> QED
      BY <2>1, <3>1, WaysType
  <2>7. \A w \in Ways : Len(w) >= n => Len(w) >= m
    BY <1>5, WaysType, DepthAssumption
  <2>8. Passed(m)' = Passed(m) \cup Passed(n) /\ Passed(m) \cap Passed(n) = {}
    BY <2>1, <2>2, <2>3, <2>4, <2>5, <2>6, <2>7
  <2>9. Count(Passed(m) \cup Passed(n)) = Count(Passed(m)) + Count(Passed(n))
    BY <2>8, PassedWays, CountTwo
  <2>10. Count(Passed(m))' = Count(Passed(m)) + Count(Passed(n))
    <3>1. Count(Passed(m))' = Count(Passed(m) \cup Passed(n))
      BY <2>8 DEF Count, BytesOn
    <3> QED
      BY ONLY <2>9, <3>1
  <2>11. /\ Agrees(stack[m].size, Count(Passed(m)))
         /\ Agrees(stack[n].size, Count(Passed(n)))
    BY <1>3, <1>5 DEF Sized
  <2>12. stack[m].size \in Int /\ stack[n].size \in Int
    <3>1. stack \in Seq(Frames)
      BY DEF Types
    <3>2. m \in 1..Len(stack) /\ n \in 1..Len(stack)
      BY <1>3, <1>5
    <3>3. stack[m] \in Frames /\ stack[n] \in Frames
      BY ONLY <3>1, <3>2
    <3> QED
      BY <3>3 DEF Frames
  <2>13. Count(Passed(m)) \in Nat /\ Count(Passed(n)) \in Nat
    BY CountNat
  <2> QED
    BY <1>2, <1>6, <2>10, <2>11, <2>12, <2>13 DEF Agrees
<1>10. SUFFICES ASSUME NEW k \in 1..m
                PROVE  Agrees(stack[k].size, Count(Passed(k)))'
  BY <1>6 DEF Sized
<1>11. k \in 1..(m - 1) \/ k = m
  BY <1>5
<1> QED
  BY <1>8, <1>9, <1>11

\* Every way starts in Path.
LEMMA FinishSizes ==
    ASSUME Types, Sized, Finish, UNCHANGED failed
    PROVE  Agrees(result, Total)'
<1>1. Len(stack) = 1 /\ Top.todo = {} /\ result' = Top.size /\ removed' = removed
  BY DEF Finish
<1>2. stack # <<>>
  <2>1. Len(<<>>) = 0
    OBVIOUS
  <2> QED
    BY ONLY <1>1, <2>1
<1>3. PICK n : n = Len(stack)
  OBVIOUS
<1>4. Passed(n) = Ways
  <2>1. Passed(n) = {w \in Ways : Len(w) >= n /\ Follows(w, n) /\ w[n] \notin Top.todo}
    BY <1>2, <1>3, PassedTop
  <2>2. \A w \in Ways : Len(w) >= 1
    BY WaysType, DepthAssumption
  <2>3. \A w : Follows(w, 1)
    BY DEF Follows
  <2> QED
    BY <1>1, <1>3, <2>1, <2>2, <2>3
<1>5. Agrees(Top.size, Count(Passed(n)))
  BY <1>2, <1>3, TopAgrees
<1>6. Agrees(Top.size, Total)
  BY <1>4, <1>5 DEF Count, Total
<1> QED
  BY <1>1, <1>6 DEF Agrees, Exact, Total, Ways, BytesOn, IsWay

LEMMA OtherSizes ==
    ASSUME Types, Sized, NEW e \in Entry, OtherRemoves(e)
    PROVE  Sized'
<1>1. ~Exact' /\ UNCHANGED stack
  <2>1. removed' = removed + 1 /\ removed \in Nat
    BY DEF OtherRemoves, Types
  <2> QED
    BY <2>1 DEF OtherRemoves, Exact
<1> QED
  BY <1>1 DEF Sized, Agrees, Count, Passed, Follows, Inside

LEMMA SizesStep ==
    ASSUME Types, FramesOK, SizesOK, [WalkNext]_walkVars
    PROVE  SizesOK'
<1>1. SUFFICES ASSUME op' = "get_dir_size"
               PROVE  /\ (Exact => place = Place)'
                      /\ IF done' THEN Agrees(result, Total)' ELSE Sized'
  BY DEF SizesOK
<1>2. CASE UNCHANGED walkVars
  BY <1>1, <1>2 DEF walkVars, SizesOK, Exact, Sized, Agrees, Count, Passed, Follows, Inside
<1>3. ASSUME NEW f, walk(f)
      PROVE  /\ (Exact => place = Place)'
             /\ IF done' THEN Agrees(result, Total)' ELSE Sized'
  <2>1. ~done'
    BY <1>3 DEF walk, Types
  <2> QED
    BY <1>3, <2>1, WalkSizes
<1>4. ASSUME stack # <<>>, op = "get_dir_size"
      PROVE  ~done /\ Sized /\ (Exact => place = Place)
  BY <1>4 DEF Types, SizesOK
<1>5. ASSUME NEW e \in Entry,
             StatFails(e) \/ SkipGone(e) \/ Enter(e) \/ AddSize(e) \/ OtherRemoves(e)
      PROVE  /\ (Exact => place = Place)'
             /\ IF done' THEN Agrees(result, Total)' ELSE Sized'
  <2>1. stack # <<>> /\ op' = op /\ done' = done
    BY <1>5 DEF StatFails, SkipGone, Enter, AddSize, OtherRemoves, StatSucceeds, Returned
  <2>2. ~done /\ Sized /\ (Exact => place = Place)
    BY <1>1, <1>4, <2>1
  <2>3. (Exact => place = Place)'
    <3>1. CASE OtherRemoves(e)
      BY <3>1 DEF OtherRemoves, Exact, Types
    <3>2. CASE StatFails(e)
      BY <3>2 DEF StatFails, Exact
    <3>3. ASSUME SkipGone(e) \/ Enter(e) \/ AddSize(e)
          PROVE  (Exact => place = Place)'
      <4>1. place' = place /\ removed' = removed /\ (failed' = failed \/ failed' = TRUE)
        BY <3>3 DEF SkipGone, Enter, AddSize, Call
      <4> QED
        BY <2>2, <4>1 DEF Exact
    <3> QED
      BY <1>5, <3>1, <3>2, <3>3
  <2> QED
    BY <1>5, <2>1, <2>2, <2>3, StatFailsSizes, SkipGoneSizes, EnterSizes, AddSizeSizes, OtherSizes
<1>6. ASSUME NEW e \in Entry, Remove(e) \/ Spare(e) \/ Candidate(e)
      PROVE  FALSE
  BY <1>1, <1>6 DEF Remove, Spare, Candidate, Doomed
<1>7. ASSUME Return \/ Finish
      PROVE  /\ UNCHANGED <<place, failed, removed>>
             /\ Sized /\ (Exact => place = Place)
  <2>1. op = "get_dir_size" /\ removed' = removed
    BY <1>1, <1>7 DEF Return, Finish
  <2>2. UNCHANGED <<place, failed>>
    BY <1>7, <2>1 DEF Return, Finish, RemoveCandidate
  <2>3. stack # <<>>
    <3>1. Len(stack) > 1 \/ Len(stack) = 1
      BY <1>7 DEF Return, Finish
    <3>2. Len(<<>>) = 0
      OBVIOUS
    <3> QED
      BY ONLY <3>1, <3>2
  <2> QED
    BY <1>4, <2>1, <2>2, <2>3
<1>8. CASE Return
  <2>1. ~done'
    <3>1. done' = done /\ stack # <<>>
      <4>1. Len(stack) > 1 /\ done' = done
        BY <1>8 DEF Return
      <4>2. Len(<<>>) = 0
        OBVIOUS
      <4>3. stack # <<>>
        BY ONLY <4>1, <4>2
      <4> QED
        BY <4>1, <4>3
    <3> QED
      BY <3>1 DEF Types
  <2> QED
    BY <1>7, <1>8, <2>1, ReturnSizes DEF Exact
<1>9. CASE Finish
  <2>1. done'
    BY <1>9 DEF Finish
  <2> QED
    BY <1>7, <1>9, <2>1, FinishSizes DEF Exact
<1> QED
  BY <1>2, <1>3, <1>5, <1>6, <1>8, <1>9 DEF WalkNext

THEOREM SizesInvariant == WalkSpec => []SizesOK
<1>1. ASSUME WalkInit
      PROVE  SizesOK
  BY <1>1 DEF WalkInit, SizesOK
<1>2. ASSUME WalkInv, SizesOK, [WalkNext]_walkVars
      PROVE  SizesOK'
  BY <1>2, SizesStep DEF WalkInv
<1> QED
  BY <1>1, <1>2, WalkInvariant, PTL DEF WalkSpec

\* When get_dir_size returned, it reports no more bytes than the files that were
\* there have, each counted once for every way down to it; and all of them when
\* every call succeeded and nobody removed anything meanwhile.
THEOREM SizeExplainedHolds == WalkSpec => []SizeExplained
<1>1. ASSUME SizesOK
      PROVE  SizeExplained
  BY <1>1 DEF SizesOK, Agrees, Exact, SizeExplained
<1> QED
  BY <1>1, SizesInvariant, PTL
=============================================================================
