------------------------------ MODULE MCTools ------------------------------
(***************************************************************************)
(* Instances of three small programs that share nothing.  A behaviour runs *)
(* one of them.                                                            *)
(***************************************************************************)
EXTENDS CurlPool, WalkPath, MyPopen

VARIABLE program

\* Below Path two files, one of them expired, a directory with a large file and a subdirectory, and a
\* link to a directory elsewhere that holds a file.
MCEntry == {"f", "k", "d", "g", "s", "l", "o", "h", "x"}
MCPlace == [e \in MCEntry |-> CASE e \in {"f", "k", "d", "l"} -> "path" [] e \in {"g", "s"} -> "d"
                                [] e = "h" -> "o" [] OTHER -> "elsewhere"]
MCLeads == [e \in MCEntry |-> CASE e \in {"d", "s", "o"} -> e [] e = "l" -> "o" [] OTHER -> NULL]
MCSize  == [e \in MCEntry |-> CASE e \in {"f", "k"} -> 1 [] e = "g" -> 2 [] e = "h" -> 4 [] OTHER -> 8]

Init == /\ PoolInit /\ WalkInit /\ MyPopenInit
        /\ program \in {"curl", "walk", "mypopen"}
        /\ program # "mypopen" => other = "reaped"
Next ==
    /\ UNCHANGED program
    /\ \/ program = "curl" /\ PoolNext /\ UNCHANGED <<walkVars, mypopenVars>>
       \/ program = "walk" /\ WalkNext /\ UNCHANGED <<poolVars, mypopenVars>>
       \/ program = "mypopen" /\ MyPopenNext /\ UNCHANGED <<poolVars, walkVars>>
vars == <<poolVars, walkVars, mypopenVars, program>>
Spec == Init /\ [][Next]_vars /\ (program = "mypopen" => MyPopenFairness)
=============================================================================
