------------------------------ MODULE ItemLists ------------------------------
(***************************************************************************)
(* What jsonRead/cJSON.c promises of its items, without pointers: every     *)
(* item has a sequence of children, an item is in at most one of them, and *)
(* a call inserts, removes or replaces one element and disturbs no other.  *)
(***************************************************************************)
EXTENDS Integers, SequencesExt

CONSTANT Item

VARIABLES
    items,  \* the items that exist
    kids    \* kids[p]: the children of p, in order
listVars == <<items, kids>>

ListsInit == items = {} /\ kids = [p \in Item |-> <<>>]

IsRoot(i) == i \in items /\ \A p \in items : i \notin Range(kids[p])

\* i and what is below it.
Family(i) ==
    LET closed == {S \in SUBSET Item : i \in S /\ \A y \in S : Range(kids[y]) \subseteq S}
    IN  {x \in Item : \A S \in closed : x \in S}

Without(f, gone) == [p \in Item |-> IF p \in gone THEN <<>> ELSE f[p]]

\* One new root with new items below it, each in one place.
Grow ==
    /\ items \subseteq items' /\ items' # items
    /\ \E root \in items' \ items :
          LET new == items' \ items IN
          /\ \A p \in Item \ new : kids'[p] = kids[p]
          /\ \A p \in new : Range(kids'[p]) \subseteq new \ {root} /\ IsInjective(kids'[p])
          /\ \A i \in new \ {root} : \E p \in new :
                /\ i \in Range(kids'[p])
                /\ \A q \in new \ {p} : i \notin Range(kids'[q])

Insert(p, n, i) ==
    /\ UNCHANGED items
    /\ kids' = [kids EXCEPT ![p] = InsertAt(@, n, i)]
    /\ IsRoot(i) /\ p \in items \ Family(i)

AppendNew(p, i) ==
    /\ i \notin items /\ p \in items
    /\ items' = items \cup {i}
    /\ kids' = [kids EXCEPT ![p] = Append(@, i)]

TakeOut(p, n, gone) ==
    /\ items' = items \ gone
    /\ kids' = Without([kids EXCEPT ![p] = RemoveAt(@, n)], gone)

Replace(p, n, i) ==
    /\ IsRoot(i)
    /\ LET gone == Family(kids[p][n]) IN
          /\ items' = items \ gone
          /\ kids' = Without([kids EXCEPT ![p] = ReplaceAt(@, n, i)], gone)
    /\ p \notin Family(i)

Discard(i) ==
    /\ IsRoot(i)
    /\ items' = items \ Family(i)
    /\ kids' = Without(kids, Family(i))

ListsNext ==
    \/ \E p, i \in Item : AppendNew(p, i) \/ \E n \in 1 .. Len(kids[p]) + 1 : Insert(p, n, i)
    \/ Grow
    \/ \E p \in items : \E n \in DOMAIN kids[p] :
          \/ \E gone \in {{}, Family(kids[p][n])} : TakeOut(p, n, gone)
          \/ \E i \in Item : Replace(p, n, i)
    \/ \E i \in items : Discard(i)

ListsSpec == ListsInit /\ [][ListsNext]_listVars
=============================================================================
