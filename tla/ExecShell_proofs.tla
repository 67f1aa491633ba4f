--------------------------- MODULE ExecShell_proofs ---------------------------
(***************************************************************************)
(* The signals of the caller and of the command are right for any number   *)
(* of calls of exec_shell, whatever the application does with signals.     *)
(*                                                                         *)
(* None of the four properties is inductive: what is given back was saved  *)
(* several calls earlier.  The invariant says for every point of exec_shell *)
(* which of the signals are set aside there, that what was saved is what   *)
(* was found, and which child there can be.                                *)
(***************************************************************************)
EXTENDS ExecShell, TLAPS

\* The signals are what was found, but those of S are ignored.
SetAside(S) == \A s \in Sig : action[s] = IF s \in S THEN "SIG_IGN" ELSE before.action[s]

\* What was saved is what was found.
SavedActions == saved.sig_int = before.action["SIGINT"] /\ saved.sig_quit = before.action["SIGQUIT"]

\* There is no child of this call that could still do something, or waitpid was
\* interrupted and the command is left to itself.
Over ==
    \/ child.st = "none"
    \/ child.st = "reaped"
    \/ eintr /\ child.st \in {"runs", "zombie"}

CallerInv ==
    /\ pc \in {"app", "int"} => SetAside({}) /\ mask = before.mask
    /\ pc = "app" => Over
    /\ pc = "int" => child.st = "none"
    /\ pc = "quit" =>
           /\ SetAside({"SIGINT"}) /\ mask = before.mask /\ child.st = "none"
           /\ saved.sig_int = before.action["SIGINT"]
    /\ pc = "block" =>
           SetAside(Keyboard) /\ mask = before.mask /\ child.st = "none" /\ SavedActions
    /\ pc \in {"vfork", "child", "wait", "restore int"} => SetAside(Keyboard)
    /\ pc = "restore quit" => SetAside({"SIGQUIT"})
    /\ pc = "restore mask" => SetAside({})
    /\ pc \in {"vfork", "child", "wait", "restore int", "restore quit", "restore mask"} =>
           SavedActions /\ saved.omask = before.mask /\ mask = "blocked"
    /\ pc = "vfork" => child.st = "none"
    /\ pc = "child" => child.st \in {"int", "quit", "mask", "exec"}
    /\ pc = "wait" => child.st \in {"runs", "zombie", "reaped"}
    /\ pc \in {"restore int", "restore quit", "restore mask", "killed"} => Over
    /\ pc \in {"int", "quit", "block", "vfork", "child", "wait"} => eintr = FALSE

ChildInv ==
    /\ child.st \in {"quit", "mask", "exec"} =>
           child.action["SIGINT"] = before.action["SIGINT"]
    /\ child.st \in {"mask", "exec"} =>
           child.action["SIGQUIT"] = before.action["SIGQUIT"]
    /\ child.st = "exec" => child.mask = before.mask

\* A child that is gone before waitpid, a failure without one, or EINTR.
StatusInv ==
    /\ pc = "wait" /\ child.st = "reaped" => before.action["SIGCHLD"] = "SIG_IGN"
    /\ pc # "int" /\ ret = "-1" =>
           child.st = "none" \/ before.action["SIGCHLD"] = "SIG_IGN" \/ eintr
    /\ pc \in {"int", "quit", "block", "vfork", "child", "wait"} => ret = "none"

IInv == TypeOK /\ CallerInv /\ ChildInv /\ StatusInv /\ CommandSignals

-----------------------------------------------------------------------------

\* What the sets of values contain.
LEMMA Values ==
    /\ "SIG_DFL" \in Action /\ "SIG_IGN" \in Action /\ "handler" \in Action
    /\ "SIGINT" \in Keyboard /\ "SIGQUIT" \in Keyboard
    /\ "SIGINT" \in Sig /\ "SIGQUIT" \in Sig /\ "SIGCHLD" \in Sig
    /\ \A s \in Sig : s = "SIGCHLD" \/ s \in Keyboard
    /\ \A s \in Keyboard : s \in Sig /\ (s = "SIGINT" \/ s = "SIGQUIT")
    /\ "blocked" \in Mask /\ "open" \in Mask
BY DEF Action, Keyboard, Sig, Mask

\* Every point of exec_shell is one.
LEMMA Points ==
    /\ {"app", "int", "quit", "block", "vfork", "child", "wait"} \subseteq Point
    /\ {"restore int", "restore quit", "restore mask", "killed"} \subseteq Point
    /\ {"none", "int", "quit", "mask", "exec", "runs", "zombie", "reaped"} \subseteq ChildState
BY DEF Point, ChildState

\* A child whose state or signals change is still a child.
LEMMA ChildType ==
    ASSUME NEW c \in Child, NEW st \in ChildState
    PROVE  /\ [c EXCEPT !.st = st] \in Child
           /\ \A m \in Mask : [c EXCEPT !.mask = m, !.st = st] \in Child
           /\ \A s \in Keyboard, a \in Action : [c EXCEPT !.action[s] = a, !.st = st] \in Child
           /\ \A f \in [Keyboard -> Action] : [c EXCEPT !.st = st, !.action = f] \in Child
BY DEF Child

\* So is what was saved.
LEMMA SavedType ==
    ASSUME NEW v \in Saved
    PROVE  /\ \A a \in Action : [v EXCEPT !.sig_int = a] \in Saved
           /\ \A a \in Action : [v EXCEPT !.sig_quit = a] \in Saved
           /\ \A m \in Mask : [v EXCEPT !.omask = m] \in Saved
BY DEF Saved

LEMMA InitIInv == Init => IInv
<1> SUFFICES ASSUME Init PROVE IInv
  OBVIOUS
<1>1. action \in [Sig -> Action] /\ before = [action |-> action, mask |-> mask]
  BY ExecShellAssumption DEF Init
<1>2. TypeOK
  <2>1. child \in Child
    BY Values, Points DEF Init, NoChild, Child
  <2>2. before \in [action: [Sig -> Action], mask: Mask]
    BY <1>1 DEF Init
  <2>3. saved \in Saved
    BY Values DEF Init, Saved
  <2>4. calls \in 0 .. MaxCalls
    BY ExecShellAssumption DEF Init
  <2>5. pc \in Point /\ mask \in Mask /\ pending \in BOOLEAN /\ ret = "none" /\ eintr = FALSE
    BY Points DEF Init
  <2> QED
    BY ONLY <1>1, <2>1, <2>2, <2>3, <2>4, <2>5 DEF TypeOK
<1>3. CallerInv
  BY <1>1 DEF Init, CallerInv, SetAside, Over, NoChild
<1>4. ChildInv /\ StatusInv /\ CommandSignals
  BY <1>1 DEF Init, ChildInv, StatusInv, CommandSignals, NoChild
<1> QED
  BY <1>2, <1>3, <1>4 DEF IInv

\* A step that changes nothing.
LEMMA Unchanged == IInv /\ UNCHANGED vars => IInv'
<1> SUFFICES ASSUME IInv, UNCHANGED vars PROVE IInv'
  OBVIOUS
<1>1. UNCHANGED <<pc, action, mask, pending, saved, child, ret, eintr, before, calls>>
  BY DEF vars
<1>2. TypeOK'
  BY ONLY <1>1, IInv DEF IInv, TypeOK
<1>3. CallerInv'
  BY ONLY <1>1, IInv DEF IInv, CallerInv, SetAside, SavedActions, Over
<1>4. (ChildInv /\ StatusInv /\ CommandSignals)'
  BY ONLY <1>1, IInv DEF IInv, ChildInv, StatusInv, CommandSignals
<1> QED
  BY <1>2, <1>3, <1>4 DEF IInv

\* A step of the caller that changes no action: CallerInv is about the rest.
LEMMA SameActions ==
    ASSUME UNCHANGED <<action, before>>, NEW S
    PROVE  SetAside(S)' <=> SetAside(S)
BY DEF SetAside

\* The caller ignores one more signal.
LEMMA OneMoreAside ==
    ASSUME TypeOK, NEW S, NEW s \in Sig, SetAside(S), before' = before,
           action' = [action EXCEPT ![s] = "SIG_IGN"]
    PROVE  SetAside(S \cup {s})' /\ action' \in [Sig -> Action]
BY Values DEF SetAside, TypeOK

\* The caller gives one back.
LEMMA OneLessAside ==
    ASSUME TypeOK, NEW S, NEW s \in Sig, SetAside(S), before' = before,
           action' = [action EXCEPT ![s] = before.action[s]]
    PROVE  SetAside(S \ {s})' /\ action' \in [Sig -> Action]
BY Values DEF SetAside, TypeOK

-----------------------------------------------------------------------------

\* The steps of the caller itself.
LEMMA CallKeeps == IInv /\ Call => IInv'
<1> SUFFICES ASSUME IInv, Call PROVE IInv'
  OBVIOUS
<1>1. /\ pc = "app" /\ pc' = "int" /\ child' = NoChild /\ ret' = "none" /\ eintr' = FALSE
      /\ before' = [action |-> action, mask |-> mask]
      /\ calls' = calls + 1 /\ calls < MaxCalls
      /\ UNCHANGED <<action, mask, pending, saved>>
  BY DEF Call
<1>2. TypeOK
  BY DEF IInv
<1>3. before' \in [action: [Sig -> Action], mask: Mask]
  BY ONLY <1>1, <1>2 DEF TypeOK
<1>4. NoChild \in Child
  BY Values, Points DEF NoChild, Child
<1>5. TypeOK'
  <2>1. calls' \in 0 .. MaxCalls
    <3>1. calls \in 0 .. MaxCalls
      BY <1>2 DEF TypeOK
    <3> QED
      BY ONLY <1>1, <3>1, ExecShellAssumption
  <2>2. pc' \in Point /\ ret' \in {"none", "-1", "status"}
    BY ONLY <1>1, Points
  <2> QED
    BY ONLY <1>1, <1>2, <1>3, <1>4, <2>1, <2>2 DEF TypeOK
<1>6. CallerInv'
  <2>1. SetAside({})' /\ (mask = before.mask)'
    BY ONLY <1>1 DEF SetAside
  <2> QED
    BY ONLY <1>1, <2>1 DEF CallerInv, NoChild
<1>7. (ChildInv /\ StatusInv /\ CommandSignals)'
  BY ONLY <1>1 DEF ChildInv, StatusInv, CommandSignals, NoChild
<1> QED
  BY <1>5, <1>6, <1>7 DEF IInv

\* No child runs before vfork.
LEMMA NoChildSteps ==
    ASSUME child.st = "none", child' = child
    PROVE  (ChildInv /\ CommandSignals)'
BY DEF ChildInv, CommandSignals

LEMMA PrepareKeeps == IInv /\ (IgnoreInt \/ IgnoreQuit \/ BlockChld) => IInv'
<1> SUFFICES ASSUME IInv, IgnoreInt \/ IgnoreQuit \/ BlockChld PROVE IInv'
  OBVIOUS
<1>0. eintr' = FALSE
  BY DEF IInv, CallerInv, IgnoreInt, IgnoreQuit, BlockChld, Block
<1>1. TypeOK
  BY DEF IInv
<1>2. CASE IgnoreInt
  <2>1. /\ pc = "int" /\ pc' = "quit"
        /\ action' = [action EXCEPT !["SIGINT"] = "SIG_IGN"]
        /\ saved' = [saved EXCEPT !.sig_int = action["SIGINT"]]
        /\ UNCHANGED <<mask, pending, child, ret, eintr, before, calls>>
    BY <1>2 DEF IgnoreInt
  <2>2. SetAside({}) /\ mask = before.mask /\ child.st = "none"
    BY <2>1 DEF IInv, CallerInv
  <2>3. action["SIGINT"] = before.action["SIGINT"] /\ action["SIGINT"] \in Action
    BY ONLY <1>1, <2>2, Values DEF SetAside, TypeOK
  <2>4. SetAside({"SIGINT"})' /\ action' \in [Sig -> Action]
    <3>1. SetAside({} \cup {"SIGINT"})' /\ action' \in [Sig -> Action]
      BY ONLY <1>1, <2>1, <2>2, Values, OneMoreAside
    <3> QED
      BY <3>1
  <2>5. saved' \in Saved /\ saved'.sig_int = before.action["SIGINT"]
    <3>1. saved \in Saved
      BY <1>1 DEF TypeOK
    <3>2. saved' \in Saved
      BY ONLY <2>1, <2>3, <3>1, SavedType
    <3> QED
      BY ONLY <2>1, <2>3, <3>1, <3>2 DEF Saved
  <2>6. TypeOK'
    BY ONLY <1>1, <2>1, <2>4, <2>5, Points DEF TypeOK
  <2>7. CallerInv'
    BY ONLY <1>0, <2>1, <2>2, <2>4, <2>5 DEF CallerInv
  <2>8. StatusInv'
    BY ONLY <2>1, IInv DEF IInv, StatusInv
  <2> QED
    BY <2>1, <2>2, <2>6, <2>7, <2>8, NoChildSteps DEF IInv
<1>3. CASE IgnoreQuit
  <2>1. /\ pc = "quit" /\ pc' = "block"
        /\ action' = [action EXCEPT !["SIGQUIT"] = "SIG_IGN"]
        /\ saved' = [saved EXCEPT !.sig_quit = action["SIGQUIT"]]
        /\ UNCHANGED <<mask, pending, child, ret, eintr, before, calls>>
    BY <1>3 DEF IgnoreQuit
  <2>2. /\ SetAside({"SIGINT"}) /\ mask = before.mask /\ child.st = "none"
        /\ saved.sig_int = before.action["SIGINT"]
    BY <2>1 DEF IInv, CallerInv
  <2>3. action["SIGQUIT"] = before.action["SIGQUIT"] /\ action["SIGQUIT"] \in Action
    BY ONLY <1>1, <2>2, Values DEF SetAside, TypeOK
  <2>4. SetAside(Keyboard)' /\ action' \in [Sig -> Action]
    <3>1. SetAside({"SIGINT"} \cup {"SIGQUIT"})' /\ action' \in [Sig -> Action]
      BY ONLY <1>1, <2>1, <2>2, Values, OneMoreAside
    <3>2. {"SIGINT"} \cup {"SIGQUIT"} = Keyboard
      BY DEF Keyboard
    <3> QED
      BY <3>1, <3>2
  <2>5. saved' \in Saved /\ SavedActions'
    <3>1. saved \in Saved
      BY <1>1 DEF TypeOK
    <3>2. saved' \in Saved
      BY ONLY <2>1, <2>3, <3>1, SavedType
    <3> QED
      BY ONLY <2>1, <2>2, <2>3, <3>1, <3>2 DEF Saved, SavedActions
  <2>6. TypeOK'
    BY ONLY <1>1, <2>1, <2>4, <2>5, Points DEF TypeOK
  <2>7. CallerInv'
    BY ONLY <1>0, <2>1, <2>2, <2>4, <2>5 DEF CallerInv
  <2>8. StatusInv'
    BY ONLY <2>1, IInv DEF IInv, StatusInv
  <2> QED
    BY <2>1, <2>2, <2>6, <2>7, <2>8, NoChildSteps DEF IInv
<1>4. CASE BlockChld
  <2>1. /\ pc = "block" /\ pc' = "vfork" /\ mask' = "blocked"
        /\ saved' = [saved EXCEPT !.omask = mask]
        /\ UNCHANGED <<action, pending, child, ret, eintr, before, calls>>
    BY <1>4 DEF BlockChld, Block
  <2>2. SetAside(Keyboard) /\ mask = before.mask /\ child.st = "none" /\ SavedActions
    BY <2>1 DEF IInv, CallerInv
  <2>3. SetAside(Keyboard)'
    BY ONLY <2>1, <2>2, SameActions
  <2>4. saved' \in Saved /\ SavedActions' /\ saved'.omask = before.mask
    <3>1. saved \in Saved /\ mask \in Mask
      BY <1>1 DEF TypeOK
    <3>2. saved' \in Saved
      BY ONLY <2>1, <3>1, SavedType
    <3> QED
      BY ONLY <2>1, <2>2, <3>1, <3>2 DEF Saved, SavedActions
  <2>5. TypeOK'
    BY ONLY <1>1, <2>1, <2>4, Points, Values DEF TypeOK
  <2>6. CallerInv'
    BY ONLY <1>0, <2>1, <2>2, <2>3, <2>4 DEF CallerInv
  <2>7. StatusInv'
    BY ONLY <2>1, IInv DEF IInv, StatusInv
  <2> QED
    BY <2>1, <2>2, <2>5, <2>6, <2>7, NoChildSteps DEF IInv
<1> QED
  BY <1>2, <1>3, <1>4

\* vfork, with or without a child.
LEMMA VforkKeeps == IInv /\ (Vfork \/ VforkFails) => IInv'
<1> SUFFICES ASSUME IInv, Vfork \/ VforkFails PROVE IInv'
  OBVIOUS
<1>0. eintr' = FALSE
  BY DEF IInv, CallerInv, Vfork, VforkFails
<1>1. TypeOK /\ pc = "vfork"
  BY DEF IInv, Vfork, VforkFails
<1>2. /\ SetAside(Keyboard) /\ SavedActions /\ saved.omask = before.mask
      /\ mask = "blocked" /\ child.st = "none"
  BY <1>1 DEF IInv, CallerInv
<1>3. UNCHANGED <<action, mask, pending, saved, eintr, before, calls>>
  BY DEF Vfork, VforkFails
<1>4. (SetAside(Keyboard) /\ SavedActions /\ saved.omask = before.mask /\ mask = "blocked")'
  BY ONLY <1>2, <1>3, SameActions DEF SavedActions
<1>5. CASE Vfork
  <2>1. /\ child' = [st |-> "int", action |-> [s \in Keyboard |-> action[s]], mask |-> mask]
        /\ pc' = "child" /\ ret' = ret
    BY <1>5 DEF Vfork
  <2>2. child' \in Child /\ child'.st = "int"
    <3>1. \A s \in Keyboard : action[s] \in Action
      BY ONLY <1>1, Values DEF TypeOK
    <3> QED
      BY ONLY <1>1, <2>1, <3>1, Points DEF TypeOK, Child
  <2>3. TypeOK'
    BY ONLY <1>1, <1>3, <2>1, <2>2, Points DEF TypeOK
  <2>4. CallerInv'
    BY ONLY <1>0, <1>4, <2>1, <2>2 DEF CallerInv
  <2>5. (ChildInv /\ CommandSignals)'
    BY ONLY <2>2 DEF ChildInv, CommandSignals
  <2>6. StatusInv'
    BY ONLY <1>1, <2>1, <2>2, IInv DEF IInv, StatusInv
  <2> QED
    BY <2>3, <2>4, <2>5, <2>6 DEF IInv
<1>6. CASE VforkFails
  <2>1. ret' = "-1" /\ pc' = "restore int" /\ child' = child
    BY <1>6 DEF VforkFails
  <2>2. TypeOK'
    BY ONLY <1>1, <1>3, <2>1, Points DEF TypeOK
  <2>3. CallerInv'
    BY ONLY <1>2, <1>4, <2>1 DEF CallerInv, Over
  <2>4. StatusInv'
    BY ONLY <1>2, <2>1 DEF StatusInv
  <2> QED
    BY <1>2, <2>1, <2>2, <2>3, <2>4, NoChildSteps DEF IInv
<1> QED
  BY <1>5, <1>6

\* waitpid, with or without a status.
LEMMA WaitKeeps == IInv /\ (Waitpid \/ WaitpidFails \/ WaitpidInterrupted) => IInv'
<1> SUFFICES ASSUME IInv, Waitpid \/ WaitpidFails \/ WaitpidInterrupted PROVE IInv'
  OBVIOUS
<1>1. TypeOK /\ pc = "wait"
  BY DEF IInv, Waitpid, WaitpidFails, WaitpidInterrupted
<1>2. /\ pc' = "restore int"
      /\ UNCHANGED <<action, mask, pending, saved, before, calls>>
  BY DEF Waitpid, WaitpidFails, WaitpidInterrupted
<1>3. (SetAside(Keyboard) /\ SavedActions /\ saved.omask = before.mask /\ mask = "blocked")'
  <2>1. SetAside(Keyboard) /\ SavedActions /\ saved.omask = before.mask /\ mask = "blocked"
    BY <1>1 DEF IInv, CallerInv
  <2> QED
    BY ONLY <1>2, <2>1, SameActions DEF SavedActions
<1>4. child' \in Child /\ eintr' \in BOOLEAN /\ Over' /\ (ChildInv /\ CommandSignals)'
  <2>1. child \in Child /\ eintr \in BOOLEAN
    BY <1>1 DEF TypeOK
  <2>2. CASE Waitpid
    <3>1. child' = [child EXCEPT !.st = "reaped"] /\ eintr' = eintr
      BY <2>2 DEF Waitpid
    <3>2. child' \in Child
      BY ONLY <2>1, <3>1, ChildType, Points
    <3>3. child'.st = "reaped"
      BY ONLY <2>1, <3>1, <3>2 DEF Child
    <3> QED
      BY ONLY <2>1, <3>1, <3>2, <3>3 DEF Over, ChildInv, CommandSignals
  <2>3. CASE WaitpidFails
    <3>1. child' = child /\ child.st = "reaped" /\ eintr' = eintr
      BY <2>3 DEF WaitpidFails
    <3> QED
      BY ONLY <2>1, <3>1 DEF Over, ChildInv, CommandSignals
  <2>4. CASE WaitpidInterrupted
    <3>1. child' = child /\ child.st = "runs" /\ eintr' = TRUE /\ before' = before
      BY <2>4 DEF WaitpidInterrupted
    <3>2. CommandSignals
      BY DEF IInv
    <3> QED
      BY ONLY <2>1, <3>1, <3>2 DEF Over, ChildInv, CommandSignals
  <2> QED
    BY <2>2, <2>3, <2>4
<1>5. ret' \in {"-1", "status"}
      /\ (ret' = "-1" => before.action["SIGCHLD"] = "SIG_IGN" \/ eintr')
  BY <1>1 DEF Waitpid, WaitpidFails, WaitpidInterrupted, IInv, StatusInv
<1>6. TypeOK'
  BY ONLY <1>1, <1>2, <1>4, <1>5, Points DEF TypeOK
<1>7. CallerInv'
  BY ONLY <1>2, <1>3, <1>4 DEF CallerInv
<1>9. StatusInv'
  BY ONLY <1>2, <1>5 DEF StatusInv
<1> QED
  BY <1>4, <1>6, <1>7, <1>9 DEF IInv

\* Nothing about the child changes when the caller gives the signals back.
LEMMA OverSteps ==
    ASSUME Over, CommandSignals, UNCHANGED <<child, eintr, before>>
    PROVE  (Over /\ ChildInv /\ CommandSignals)'
BY DEF Over, ChildInv, CommandSignals

LEMMA RestoreKeeps == IInv /\ (RestoreInt \/ RestoreQuit \/ RestoreMask) => IInv'
<1> SUFFICES ASSUME IInv, RestoreInt \/ RestoreQuit \/ RestoreMask PROVE IInv'
  OBVIOUS
<1>1. TypeOK
  BY DEF IInv
<1>2. /\ SavedActions /\ saved.omask = before.mask /\ mask = "blocked" /\ Over
      /\ UNCHANGED <<saved, ret, eintr, before, calls>>
  BY DEF IInv, CallerInv, RestoreInt, RestoreQuit, RestoreMask
<1>8. /\ child' \in Child /\ (child.st = "none" => child'.st = "none")
      /\ (Over /\ ChildInv /\ CommandSignals)'
  <2>1. child \in Child
    BY <1>1 DEF TypeOK
  <2>2. CASE child' = child
    BY <1>2, <2>1, <2>2, OverSteps DEF IInv
  <2>3. CASE child.st = "zombie" /\ child' = [child EXCEPT !.st = "reaped"]
    <3>1. child' \in Child /\ child'.st = "reaped"
      BY ONLY <2>1, <2>3, ChildType, Points DEF Child
    <3> QED
      BY ONLY <2>3, <3>1 DEF Over, ChildInv, CommandSignals
  <2> QED
    BY <2>2, <2>3 DEF RestoreInt, RestoreQuit, RestoreMask
<1>3. (SavedActions /\ saved.omask = before.mask /\ Over /\ ChildInv /\ CommandSignals)'
  BY ONLY <1>2, <1>8 DEF SavedActions
<1>4. StatusInv'
  <2>1. pc' \in {"restore quit", "restore mask", "app"} /\ pc \notin {"int", "wait"}
    BY DEF RestoreInt, RestoreQuit, RestoreMask
  <2> QED
    BY ONLY <1>2, <1>8, <2>1, IInv DEF IInv, StatusInv
<1>5. CASE RestoreInt
  <2>1. /\ pc = "restore int" /\ pc' = "restore quit"
        /\ action' = [action EXCEPT !["SIGINT"] = before.action["SIGINT"]]
        /\ UNCHANGED <<mask, pending>>
    BY <1>2, <1>5 DEF RestoreInt, SavedActions
  <2>2. SetAside(Keyboard)
    BY <2>1 DEF IInv, CallerInv
  <2>3. SetAside(Keyboard \ {"SIGINT"})' /\ action' \in [Sig -> Action]
    BY ONLY <1>1, <1>2, <2>1, <2>2, Values, OneLessAside
  <2>4. Keyboard \ {"SIGINT"} = {"SIGQUIT"}
    BY DEF Keyboard
  <2>5. TypeOK'
    BY ONLY <1>1, <1>2, <1>8, <2>1, <2>3, Points DEF TypeOK
  <2>6. CallerInv'
    BY ONLY <1>2, <1>3, <2>1, <2>3, <2>4 DEF CallerInv
  <2> QED
    BY <1>3, <1>4, <2>5, <2>6 DEF IInv
<1>6. CASE RestoreQuit
  <2>1. /\ pc = "restore quit" /\ pc' = "restore mask"
        /\ action' = [action EXCEPT !["SIGQUIT"] = before.action["SIGQUIT"]]
        /\ UNCHANGED <<mask, pending>>
    BY <1>2, <1>6 DEF RestoreQuit, SavedActions
  <2>2. SetAside({"SIGQUIT"})
    BY <2>1 DEF IInv, CallerInv
  <2>3. SetAside({"SIGQUIT"} \ {"SIGQUIT"})' /\ action' \in [Sig -> Action]
    BY ONLY <1>1, <1>2, <2>1, <2>2, Values, OneLessAside
  <2>4. {"SIGQUIT"} \ {"SIGQUIT"} = {}
    OBVIOUS
  <2>5. TypeOK'
    BY ONLY <1>1, <1>2, <1>8, <2>1, <2>3, Points DEF TypeOK
  <2>6. CallerInv'
    BY ONLY <1>2, <1>3, <2>1, <2>3, <2>4 DEF CallerInv
  <2> QED
    BY <1>3, <1>4, <2>5, <2>6 DEF IInv
<1>7. CASE RestoreMask
  <2>1. /\ pc = "restore mask" /\ pc' = "app" /\ mask' = before.mask
        /\ pending' \in BOOLEAN /\ action' = action
    BY <1>1, <1>2, <1>7 DEF RestoreMask, TypeOK
  <2>2. SetAside({})
    BY <2>1 DEF IInv, CallerInv
  <2>3. SetAside({})'
    BY ONLY <1>2, <2>1, <2>2, SameActions
  <2>4. mask' \in Mask
    BY ONLY <1>1, <2>1 DEF TypeOK
  <2>5. TypeOK'
    BY ONLY <1>1, <1>2, <1>8, <2>1, <2>4, Points DEF TypeOK
  <2>6. CallerInv'
    BY ONLY <1>2, <1>3, <2>1, <2>3 DEF CallerInv
  <2> QED
    BY <1>3, <1>4, <2>5, <2>6 DEF IInv
<1> QED
  BY <1>5, <1>6, <1>7

LEMMA CallerKeeps == IInv /\ Caller => IInv'
BY CallKeeps, PrepareKeeps, VforkKeeps, WaitKeeps, RestoreKeeps DEF Caller

-----------------------------------------------------------------------------

\* A child that has not ended, and was not left to itself.
Awaited ==
    \/ child.st \in {"int", "quit", "mask", "exec"}
    \/ child.st = "runs" /\ ~eintr

\* While there is one, the caller is in vfork or in waitpid, and has set the
\* keyboard's signals aside.
LEMMA ChildThere ==
    ASSUME IInv, Awaited
    PROVE  /\ TypeOK /\ pc \in {"child", "wait"} /\ eintr = FALSE
           /\ SetAside(Keyboard) /\ SavedActions
           /\ saved.omask = before.mask /\ mask = "blocked" /\ ret = "none"
<1>1. TypeOK /\ CallerInv /\ StatusInv
  BY DEF IInv
<1>2. pc \in {"child", "wait"}
  BY ONLY <1>1, Awaited DEF Awaited, TypeOK, Point, CallerInv, Over
<1> QED
  BY ONLY <1>1, <1>2 DEF CallerInv, StatusInv

\* CallerInv and StatusInv after a step of the child.
LEMMA ChildStepCaller ==
    ASSUME IInv, Awaited,
           pc' \in {"child", "wait"},
           pc' = "child" => child'.st \in {"int", "quit", "mask", "exec"},
           pc' = "wait" => child'.st \in {"runs", "zombie", "reaped"},
           child'.st = "reaped" => action["SIGCHLD"] = "SIG_IGN",
           UNCHANGED <<action, mask, saved, ret, eintr, before, calls>>
    PROVE  (CallerInv /\ StatusInv)'
<1>1. /\ SetAside(Keyboard) /\ SavedActions /\ TypeOK /\ eintr = FALSE
      /\ saved.omask = before.mask /\ mask = "blocked" /\ ret = "none"
  BY ChildThere
<1>2. (/\ SetAside(Keyboard) /\ SavedActions /\ saved.omask = before.mask /\ mask = "blocked"
       /\ eintr = FALSE)'
  BY <1>1, SameActions DEF SavedActions
<1>3. action["SIGCHLD"] = before.action["SIGCHLD"]
  BY <1>1 DEF SetAside, Sig, Keyboard
<1>4. CallerInv'
  BY ONLY <1>2, pc' \in {"child", "wait"},
     pc' = "child" => child'.st \in {"int", "quit", "mask", "exec"},
     pc' = "wait" => child'.st \in {"runs", "zombie", "reaped"} DEF CallerInv
<1>5. ret' = "none" /\ (child'.st = "reaped" => before'.action["SIGCHLD"] = "SIG_IGN")
  BY <1>1, <1>3
<1>6. StatusInv'
  BY ONLY <1>5 DEF StatusInv
<1> QED
  BY <1>4, <1>6

\* The child gives back an action or the mask.
LEMMA ChildRestoreKeeps ==
    IInv /\ (ChildRestoresInt \/ ChildRestoresQuit \/ ChildRestoresMask) => IInv'
<1> SUFFICES ASSUME IInv, ChildRestoresInt \/ ChildRestoresQuit \/ ChildRestoresMask
             PROVE  IInv'
  OBVIOUS
<1>1. /\ child.st \in {"int", "quit", "mask"} /\ child'.st \in {"quit", "mask", "exec"}
      /\ child \in Child
      /\ UNCHANGED <<pc, action, mask, pending, saved, ret, eintr, before, calls>>
  <2>1. child \in Child
    BY DEF IInv, TypeOK
  <2> QED
    BY <2>1 DEF ChildRestoresInt, ChildRestoresQuit, ChildRestoresMask, ChildRestores, Child
<1>2. /\ TypeOK /\ pc \in {"child", "wait"} /\ SavedActions /\ saved.omask = before.mask
      /\ Awaited
  BY <1>1, ChildThere DEF Awaited
<1>3. pc = "child"
  BY <1>1, <1>2 DEF IInv, CallerInv
<1>4. (CallerInv /\ StatusInv)'
  BY <1>1, <1>2, <1>3, ChildStepCaller
<1>5. before.action["SIGINT"] \in Action /\ before.action["SIGQUIT"] \in Action
      /\ before.mask \in Mask
  BY <1>2, Values DEF TypeOK
<1>6. CASE ChildRestoresInt
  <2>1. child' = [child EXCEPT !.action["SIGINT"] = before.action["SIGINT"], !.st = "quit"]
    BY <1>2, <1>6 DEF ChildRestoresInt, ChildRestores, SavedActions
  <2>2. child' \in Child
    BY ONLY <1>1, <1>5, <2>1, Values, Points, ChildType
  <2>3. TypeOK'
    BY ONLY <1>1, <1>2, <2>2 DEF TypeOK
  <2>4. child'.st = "quit" /\ child'.action["SIGINT"] = before.action["SIGINT"]
    BY ONLY <1>1, <2>1, Values DEF Child
  <2>5. (ChildInv /\ CommandSignals)'
    BY ONLY <1>1, <2>4 DEF ChildInv, CommandSignals
  <2> QED
    BY <1>4, <2>3, <2>5 DEF IInv
<1>7. CASE ChildRestoresQuit
  <2>1. /\ child.st = "quit"
        /\ child' = [child EXCEPT !.action["SIGQUIT"] = before.action["SIGQUIT"], !.st = "mask"]
    BY <1>2, <1>7 DEF ChildRestoresQuit, ChildRestores, SavedActions
  <2>2. child' \in Child
    BY ONLY <1>1, <1>5, <2>1, Values, Points, ChildType
  <2>3. TypeOK'
    BY ONLY <1>1, <1>2, <2>2 DEF TypeOK
  <2>4. child.action["SIGINT"] = before.action["SIGINT"]
    BY <2>1 DEF IInv, ChildInv
  <2>5. /\ child'.st = "mask" /\ child'.action["SIGINT"] = before.action["SIGINT"]
        /\ child'.action["SIGQUIT"] = before.action["SIGQUIT"]
    BY ONLY <1>1, <2>1, <2>4, Values DEF Child
  <2>6. (ChildInv /\ CommandSignals)'
    BY ONLY <1>1, <2>5 DEF ChildInv, CommandSignals
  <2> QED
    BY <1>4, <2>3, <2>6 DEF IInv
<1>8. CASE ChildRestoresMask
  <2>1. child.st = "mask" /\ child' = [child EXCEPT !.mask = before.mask, !.st = "exec"]
    BY <1>2, <1>8 DEF ChildRestoresMask
  <2>2. child' \in Child
    BY ONLY <1>1, <1>5, <2>1, Points, ChildType
  <2>3. TypeOK'
    BY ONLY <1>1, <1>2, <2>2 DEF TypeOK
  <2>4. /\ child.action["SIGINT"] = before.action["SIGINT"]
        /\ child.action["SIGQUIT"] = before.action["SIGQUIT"]
    BY <2>1 DEF IInv, ChildInv
  <2>5. child'.st = "exec" /\ child'.action = child.action /\ child'.mask = before.mask
    BY ONLY <1>1, <2>1 DEF Child
  <2>6. (ChildInv /\ CommandSignals)'
    BY ONLY <1>1, <2>4, <2>5 DEF ChildInv, CommandSignals
  <2> QED
    BY <1>4, <2>3, <2>6 DEF IInv
<1> QED
  BY <1>6, <1>7, <1>8

\* The command starts with what the child was given back.
LEMMA ChildExecsKeeps == IInv /\ ChildExecs => IInv'
<1> SUFFICES ASSUME IInv, ChildExecs PROVE IInv'
  OBVIOUS
<1> DEFINE given == [s \in Keyboard |->
                       IF child.action[s] = "handler" THEN "SIG_DFL" ELSE child.action[s]]
<1>1. /\ child.st = "exec" /\ child' = [child EXCEPT !.st = "runs", !.action = given]
      /\ pc' = (IF pc = "child" THEN "wait" ELSE pc)
      /\ UNCHANGED <<action, mask, pending, saved, ret, eintr, before, calls>>
  BY DEF ChildExecs
<1>2. TypeOK /\ pc \in {"child", "wait"} /\ child \in Child /\ Awaited
  BY <1>1, ChildThere DEF TypeOK, Awaited
<1>3. given \in [Keyboard -> Action]
  BY <1>2, Values DEF Child
<1>4. \A s \in Keyboard : (given[s] = "SIG_IGN") <=> (before.action[s] = "SIG_IGN")
  <2>1. \A s \in Keyboard : child.action[s] = before.action[s]
    BY <1>1, Values DEF IInv, ChildInv
  <2> QED
    BY <2>1
<1>5. child.mask = before.mask
  BY <1>1 DEF IInv, ChildInv
<1> HIDE DEF given
<1>6. child' \in Child
  BY ONLY <1>1, <1>2, <1>3, ChildType, Points
<1>7. child'.st = "runs" /\ child'.action = given /\ child'.mask = before.mask
  BY ONLY <1>1, <1>2, <1>5 DEF Child
<1>8. pc' = "wait"
  BY <1>1, <1>2
<1>9. TypeOK'
  BY ONLY <1>1, <1>2, <1>6, <1>8, Points DEF TypeOK
<1>10. (CallerInv /\ StatusInv)'
  BY <1>1, <1>2, <1>7, <1>8, ChildStepCaller
<1>11. (ChildInv /\ CommandSignals)'
  BY ONLY <1>1, <1>4, <1>7 DEF ChildInv, CommandSignals
<1> QED
  BY <1>9, <1>10, <1>11 DEF IInv

\* The child ends, by itself or by a key, while the caller waits for it.
LEMMA EndedKeeps ==
    ASSUME IInv, Awaited, Ended(child),
           pc' = (IF pc = "child" THEN "wait" ELSE pc),
           UNCHANGED <<action, mask, saved, ret, eintr, before, calls>>
    PROVE  IInv'
<1>1. TypeOK /\ pc \in {"child", "wait"} /\ mask = "blocked" /\ child \in Child
  BY ChildThere DEF TypeOK
<1>2. PICK st \in {"zombie", "reaped"} :
          /\ child' = [child EXCEPT !.st = st]
          /\ st = "reaped" => action["SIGCHLD"] = "SIG_IGN"
  BY <1>1 DEF Ended
<1>3. pending' \in BOOLEAN
  BY <1>1 DEF Ended, TypeOK
<1>4. child' \in Child
  BY ONLY <1>1, <1>2, Points, ChildType
<1>5. child'.st = st
  BY ONLY <1>1, <1>2 DEF Child
<1>6. pc' = "wait"
  BY <1>1
<1>7. TypeOK'
  BY ONLY <1>1, <1>3, <1>4, <1>6, Points,
     UNCHANGED <<action, mask, saved, ret, eintr, before, calls>> DEF TypeOK
<1>8. (CallerInv /\ StatusInv)'
  BY <1>2, <1>5, <1>6, ChildStepCaller
<1>9. (ChildInv /\ CommandSignals)'
  BY ONLY <1>2, <1>5 DEF ChildInv, CommandSignals
<1> QED
  BY <1>7, <1>8, <1>9 DEF IInv

\* A command that was left to itself ends, and a key may end the caller too.
LEMMA LeftEndsKeeps ==
    ASSUME IInv, child.st = "runs", eintr, Ended(child), pc' \in {pc, "killed"},
           UNCHANGED <<action, mask, saved, ret, eintr, before, calls>>
    PROVE  IInv'
<1>1. TypeOK /\ CallerInv /\ StatusInv /\ child \in Child /\ eintr = TRUE
  BY DEF IInv, TypeOK
<1>2. PICK st \in {"zombie", "reaped"} : child' = [child EXCEPT !.st = st]
  BY <1>1 DEF Ended
<1>3. pending' \in BOOLEAN
  BY <1>1 DEF Ended, TypeOK
<1>4. child' \in Child
  BY ONLY <1>1, <1>2, Points, ChildType
<1>5. child'.st = st
  BY ONLY <1>1, <1>2 DEF Child
<1>6. pc \in {"app", "restore int", "restore quit", "restore mask", "killed"}
  BY ONLY <1>1 DEF TypeOK, Point, CallerInv
<1>7. TypeOK'
  BY ONLY <1>1, <1>3, <1>4, Points, pc' \in {pc, "killed"},
     UNCHANGED <<action, mask, saved, ret, eintr, before, calls>> DEF TypeOK
<1>8. Over'
  BY ONLY <1>1, <1>2, <1>5, UNCHANGED eintr DEF Over
<1>9. CallerInv'
  <2>1. \A S : SetAside(S)' <=> SetAside(S)
    BY SameActions
  <2>2. SavedActions' <=> SavedActions
    BY DEF SavedActions
  <2> QED
    BY ONLY <1>1, <1>6, <1>8, <2>1, <2>2, pc' \in {pc, "killed"},
       UNCHANGED <<action, mask, saved, ret, eintr, before, calls>> DEF CallerInv
<1>10. StatusInv'
  BY ONLY <1>1, <1>6, pc' \in {pc, "killed"}, UNCHANGED <<ret, eintr, before>> DEF StatusInv
<1>11. (ChildInv /\ CommandSignals)'
  BY ONLY <1>2, <1>5 DEF ChildInv, CommandSignals
<1> QED
  BY <1>7, <1>9, <1>10, <1>11 DEF IInv

LEMMA ChildKeeps == IInv /\ ChildStep => IInv'
<1> SUFFICES ASSUME IInv, ChildStep PROVE IInv'
  OBVIOUS
<1>1. CASE ChildExits
  <2>1. /\ child.st \in {"exec", "runs"} /\ Ended(child)
        /\ pc' = (IF pc = "child" THEN "wait" ELSE pc)
        /\ UNCHANGED <<action, mask, saved, ret, eintr, before, calls>>
    BY <1>1 DEF ChildExits
  <2>2. CASE Awaited
    BY <2>1, <2>2, EndedKeeps
  <2>3. CASE child.st = "runs" /\ eintr
    <3>1. pc # "child"
      BY <2>3 DEF IInv, CallerInv
    <3> QED
      BY <2>1, <2>3, <3>1, LeftEndsKeeps
  <2> QED
    BY <2>1, <2>2, <2>3 DEF Awaited
<1> QED
  BY <1>1, ChildRestoreKeeps, ChildExecsKeeps DEF ChildStep

-----------------------------------------------------------------------------

\* A key is pressed.
LEMMA TerminalKeeps == ASSUME NEW s \in Keyboard PROVE IInv /\ TerminalSignal(s) => IInv'
<1> SUFFICES ASSUME IInv, TerminalSignal(s) PROVE IInv'
  OBVIOUS
<1> DEFINE dies == child.st \in {"int", "quit", "mask", "exec", "runs"}
                   /\ child.action[s] = "SIG_DFL"
<1>1. pc # "killed" /\ UNCHANGED <<action, mask, saved, ret, eintr, before, calls>>
  BY DEF TerminalSignal
<1>2. CASE dies /\ Awaited
  <2>1. action[s] = "SIG_IGN"
    <3>1. SetAside(Keyboard)
      BY <1>2, ChildThere
    <3> QED
      BY <3>1, Values DEF SetAside
  <2>2. Ended(child) /\ pc' = (IF pc = "child" THEN "wait" ELSE pc)
    BY <1>2, <2>1 DEF TerminalSignal
  <2> QED
    BY <1>1, <1>2, <2>2, EndedKeeps
<1>4. CASE dies /\ child.st = "runs" /\ eintr
  <2>1. pc # "child"
    BY <1>4 DEF IInv, CallerInv
  <2>2. Ended(child) /\ pc' \in {pc, "killed"}
    BY <1>4, <2>1 DEF TerminalSignal
  <2> QED
    BY <1>1, <1>4, <2>2, LeftEndsKeeps
<1>3. CASE ~dies
  <2>1. UNCHANGED <<child, pending>> /\ pc' \in {pc, "killed"}
        /\ (pc' = "killed" => action[s] = "SIG_DFL")
    BY <1>1, <1>3 DEF TerminalSignal
  <2>2. CASE pc' = pc
    BY <1>1, <2>1, <2>2, Unchanged DEF vars
  <2>3. CASE pc' = "killed"
    <3>1. Over
      <4>1. TypeOK /\ CallerInv /\ child.st \in ChildState
        BY DEF IInv, TypeOK, Child
      <4>2. child.st \in {"none", "int", "quit", "mask", "exec", "runs", "zombie", "reaped"}
        BY <4>1 DEF ChildState
      <4>3. ~SetAside(Keyboard)
        BY <2>1, <2>3, Values DEF SetAside
      <4> QED
        BY ONLY <1>1, <4>1, <4>2, <4>3 DEF CallerInv, TypeOK, Point, Over
    <3>2. TypeOK'
      BY ONLY <1>1, <2>1, <2>3, IInv, Points DEF IInv, TypeOK
    <3>3. (Over /\ ChildInv /\ CommandSignals)'
      BY ONLY <1>1, <2>1, <3>1, IInv, OverSteps DEF IInv
    <3>4. CallerInv'
      BY ONLY <2>3, <3>3 DEF CallerInv
    <3>5. StatusInv'
      <4>1. ret' = "-1" => \/ child'.st = "none" \/ before'.action["SIGCHLD"] = "SIG_IGN"
                           \/ eintr'
        BY ONLY <1>1, <2>1, IInv DEF IInv, StatusInv
      <4> QED
        BY ONLY <2>3, <4>1 DEF StatusInv
    <3> QED
      BY <3>2, <3>3, <3>4, <3>5 DEF IInv
  <2> QED
    BY <2>1, <2>2, <2>3
<1> QED
  BY <1>2, <1>3, <1>4 DEF Awaited

LEMMA NextIInv == IInv /\ [Next]_vars => IInv'
BY CallerKeeps, ChildKeeps, TerminalKeeps, Unchanged DEF Next

-----------------------------------------------------------------------------

\* Every variable keeps its type, whatever the application does with signals.
THEOREM TypeCorrect == Spec => []TypeOK
<1>1. IInv => TypeOK
  BY DEF IInv
<1> QED
  BY InitIInv, NextIInv, <1>1, PTL DEF Spec

\* However exec_shell returns, action and mask are what it found.
THEOREM RestoredOnReturnHolds == Spec => []RestoredOnReturn
<1>1. IInv => RestoredOnReturn
  BY DEF IInv, TypeOK, CallerInv, SetAside, RestoredOnReturn
<1> QED
  BY InitIInv, NextIInv, <1>1, PTL DEF Spec

\* No key ends the caller while the command is there, unless a handler of
\* another signal interrupted waitpid.
THEOREM CallerSurvivesHolds == Spec => []CallerSurvives
<1>1. IInv => CallerSurvives
  BY DEF IInv, CallerInv, Over, CallerSurvives
<1> QED
  BY InitIInv, NextIInv, <1>1, PTL DEF Spec

\* The command finds the signals as the application had them.
THEOREM CommandSignalsHolds == Spec => []CommandSignals
<1>1. IInv => CommandSignals
  BY DEF IInv
<1> QED
  BY InitIInv, NextIInv, <1>1, PTL DEF Spec

\* Unless waitpid was interrupted, the command is over when exec_shell returns,
\* and the application's handler of SIGCHLD never took the status it waits for:
\* "-1" means that nothing was run, or that SIGCHLD is ignored.
THEOREM StatusIsTheCommandsHolds == Spec => []StatusIsTheCommands
<1>1. IInv => StatusIsTheCommands
  BY DEF IInv, CallerInv, Over, StatusInv, StatusIsTheCommands
<1> QED
  BY InitIInv, NextIInv, <1>1, PTL DEF Spec
=============================================================================
