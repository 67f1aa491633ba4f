-------------------------- MODULE JsonItems_proofs --------------------------
(*****************************************************************************)
(* The pointers of cJSON's items match after every call, every item has one  *)
(* place and every buffer one owner, and every call is one step on the       *)
(* sequences of children, for every number of items, names and labels.       *)
(*                                                                           *)
(* An arc leads from an item to the next one of its list and, unless it is a *)
(* reference, to its first child.  The lemmas about arcs come first, then    *)
(* those about what a walk reaches, then one lemma per kind of call and the  *)
(* theorems, then the numbers of buffers.  The last part reads the links as  *)
(* sequences: every walk along next ends, the sequences have each item in    *)
(* one place, and each call is a step of ItemLists.                          *)
(*****************************************************************************)
EXTENDS JsonItems, WellFoundedInduction, FiniteSetTheorems, SequenceTheorems, TLAPS

-----------------------------------------------------------------------------
(* Relations.                                                              *)

\* Every set of items of V has one that no arc of R enters from the set.
NoCycle(V, R) == \A S \in (SUBSET V) \ {{}} : \E y \in S : \A x \in S : <<x, y>> \notin R

\* Fewer items or fewer arcs make no cycle.
LEMMA Fewer ==
    ASSUME NEW V, NEW R, NEW W, NEW Q, NoCycle(V, R), W \subseteq V,
           \A x, y \in W : <<x, y>> \in Q => <<x, y>> \in R
    PROVE  NoCycle(W, Q)
BY DEF NoCycle

\* Items that have no arcs to or from the others.
LEMMA Beside ==
    ASSUME NEW V, NEW R, NEW N, NEW P, NEW Q, NoCycle(V, R), NoCycle(N, P),
           \A x, y \in V : <<x, y>> \in Q => <<x, y>> \in R,
           \A x, y \in N : <<x, y>> \in Q => <<x, y>> \in P,
           \A x \in N, y \in V \ N : <<x, y>> \notin Q
    PROVE  NoCycle(V \cup N, Q)
<1> SUFFICES ASSUME NEW S \in (SUBSET (V \cup N)) \ {{}}
             PROVE  \E y \in S : \A x \in S : <<x, y>> \notin Q
    BY DEF NoCycle
<1>1. CASE S \ N # {}
    <2>1. PICK y \in S \ N : \A x \in S \ N : <<x, y>> \notin R
        <3>1. S \ N \in (SUBSET V) \ {{}}
            BY <1>1
        <3> QED BY <3>1 DEF NoCycle
    <2>2. \A x \in S : <<x, y>> \notin Q
        BY <2>1
    <2> QED BY <2>2
<1>2. CASE S \ N = {}
    <2>1. S \in (SUBSET N) \ {{}}
        BY <1>2
    <2>2. PICK y \in S : \A x \in S : <<x, y>> \notin P
        BY <2>1 DEF NoCycle
    <2> QED BY <2>1, <2>2
<1> QED BY <1>1, <1>2

\* An item that joins without arcs.
LEMMA Fresh ==
    ASSUME NEW V, NEW R, NEW i, NoCycle(V, R), \A y \in V \cup {i} : <<i, y>> \notin R
    PROVE  NoCycle(V \cup {i}, R)
<1>1. NoCycle({i}, {})
    BY DEF NoCycle
<1> QED BY <1>1, Beside

\* New arcs lead from outside D, which no arc leaves, to a member of D.
LEMMA Graft ==
    ASSUME NEW V, NEW R, NEW Q, NEW D, NEW i \in D, NoCycle(V, R),
           \A x \in D, y \in V : <<x, y>> \in R => y \in D,
           \A x, y \in V : <<x, y>> \in Q => <<x, y>> \in R \/ (x \notin D /\ y = i)
    PROVE  NoCycle(V, Q)
<1> SUFFICES ASSUME NEW S \in (SUBSET V) \ {{}}
             PROVE  \E y \in S : \A x \in S : <<x, y>> \notin Q
    BY DEF NoCycle
<1>1. CASE S \ D # {}
    <2>1. PICK y \in S \ D : \A x \in S \ D : <<x, y>> \notin R
        <3>1. S \ D \in (SUBSET V) \ {{}}
            BY <1>1
        <3> QED BY <3>1 DEF NoCycle
    <2>2. \A x \in S : <<x, y>> \notin Q
        BY <2>1
    <2> QED BY <2>2
<1>2. CASE S \ D = {}
    <2>1. PICK y \in S : \A x \in S : <<x, y>> \notin R
        BY DEF NoCycle
    <2>2. \A x \in S : <<x, y>> \notin Q
        BY <1>2, <2>1
    <2> QED BY <2>2
<1> QED BY <1>1, <1>2

\* As Graft, but i also gets an arc to the item after, which all new arcs to i
\* led to before.
LEMMA Subdivide ==
    ASSUME NEW V, NEW R, NEW Q, NEW D, NEW i \in D, NEW after, after # i, NoCycle(V, R),
           \A x \in D, y \in V : <<x, y>> \in R => y \in D,
           \A x \in V : <<x, i>> \notin R,
           \A x, y \in V : <<x, y>> \in Q =>
               \/ <<x, y>> \in R
               \/ x \notin D /\ y = i /\ <<x, after>> \in R
               \/ x = i /\ y = after
    PROVE  NoCycle(V, Q)
<1> SUFFICES ASSUME NEW S \in (SUBSET V) \ {{}}
             PROVE  \E y \in S : \A x \in S : <<x, y>> \notin Q
    BY DEF NoCycle
<1> DEFINE E == IF S \ D # {} THEN S \ D ELSE S
<1>1. PICK y \in E : \A x \in E : <<x, y>> \notin R
    <2>1. E \in (SUBSET V) \ {{}}
        OBVIOUS
    <2> HIDE DEF E
    <2> QED BY <2>1 DEF NoCycle
<1>2. y \in S /\ \A x \in S : <<x, y>> \notin R
    BY <1>1
<1>3. CASE y = after /\ i \in S
    <2>1. ASSUME NEW x \in S, <<x, i>> \in Q PROVE FALSE
        <3>1. <<x, i>> \notin R /\ <<x, after>> \notin R
            BY <1>2, <1>3
        <3> QED BY <1>3, <2>1, <3>1
    <2> QED BY <1>3, <2>1
<1>4. CASE i \notin S
    <2>1. ASSUME NEW x \in S, <<x, y>> \in Q PROVE FALSE
        BY <1>2, <1>4, <2>1
    <2> QED BY <1>2, <2>1
<1>5. CASE y # after /\ i \in S
    <2>1. ASSUME NEW x \in S, <<x, y>> \in Q PROVE FALSE
        <3>1. x \notin D /\ y = i
            BY <1>2, <1>5, <2>1
        <3>2. S \ D = {}
            BY <1>1, <3>1
        <3> QED BY <3>1, <3>2
    <2> QED BY <1>2, <2>1
<1> QED BY <1>3, <1>4, <1>5

\* i takes the place of old, which leaves with others.
LEMMA TakeOver ==
    ASSUME NEW V, NEW R, NEW W, NEW Q, NEW D, NEW i \in D, NEW old \in V \ D, NoCycle(V, R), W \subseteq V,
           \A x \in D, y \in V : <<x, y>> \in R => y \in D,
           \A x \in V : <<x, i>> \notin R,
           \A x, y \in W : <<x, y>> \in Q =>
               \/ <<x, y>> \in R
               \/ y = i /\ <<x, old>> \in R
               \/ x = i /\ <<old, y>> \in R
    PROVE  NoCycle(W, Q)
<1> SUFFICES ASSUME NEW S \in (SUBSET W) \ {{}}
             PROVE  \E y \in S : \A x \in S : <<x, y>> \notin Q
    BY DEF NoCycle
<1>1. CASE i \notin S
    <2>1. PICK y \in S : \A x \in S : <<x, y>> \notin R
        BY DEF NoCycle
    <2>2. \A x \in S : <<x, y>> \notin Q
        BY <1>1, <2>1
    <2> QED BY <2>2
<1>2. CASE i \in S
    <2> DEFINE E == (S \cup {old}) \ D
    <2>1. PICK y \in E : \A x \in E : <<x, y>> \notin R
        <3>1. E \in (SUBSET V) \ {{}}
            OBVIOUS
        <3> HIDE DEF E
        <3> QED BY <3>1 DEF NoCycle
    <2>2. CASE y = old
        <3>1. \A x \in S : <<x, old>> \notin R
            BY <2>1, <2>2
        <3>2. ASSUME NEW x \in S, <<x, i>> \in Q
              PROVE  FALSE
            <4>1. <<x, i>> \notin R /\ <<old, i>> \notin R /\ i \in W /\ x \in W
                BY <1>2
            <4> QED BY <3>1, <3>2, <4>1
        <3> QED BY <1>2, <3>2
    <2>3. CASE y # old
        <3>1. y \in S /\ y \notin D /\ y # i /\ <<old, y>> \notin R
            BY <2>1, <2>3
        <3>2. \A x \in S : <<x, y>> \notin R
            BY <2>1, <3>1
        <3>3. \A x \in S : <<x, y>> \notin Q
            BY <3>1, <3>2
        <3> QED BY <3>1, <3>3
    <2> QED BY <2>2, <2>3
<1> QED BY <1>1, <1>2

\* i leaves its place, and what it led to is led to by what led to it.
LEMMA Contract ==
    ASSUME NEW V, NEW R, NEW W, NEW Q, NEW i \in V, NoCycle(V, R), W \subseteq V,
           \A x, y \in W : <<x, y>> \in Q =>
               <<x, y>> \in R \/ (<<x, i>> \in R /\ <<i, y>> \in R)
    PROVE  NoCycle(W, Q)
<1> SUFFICES ASSUME NEW S \in (SUBSET W) \ {{}}
             PROVE  \E y \in S : \A x \in S : <<x, y>> \notin Q
    BY DEF NoCycle
<1>1. PICK y \in S \cup {i} : \A x \in S \cup {i} : <<x, y>> \notin R
    <2>1. S \cup {i} \in (SUBSET V) \ {{}}
        OBVIOUS
    <2> QED BY <2>1 DEF NoCycle
<1>2. CASE y \in S
    BY <1>1, <1>2
<1>3. CASE y = i
    <2>1. PICK z \in S : \A x \in S : <<x, z>> \notin R
        BY DEF NoCycle
    <2> QED BY <1>1, <1>3, <2>1
<1> QED BY <1>2, <1>3

-----------------------------------------------------------------------------
(* The inductive invariant.                                                *)

\* No list and no parent holds i.
Root(i) == next[i] = NULL /\ prev[i] = NULL /\ \A p \in items : label[p].ref \/ child[p] # i

Unallocated  == \A i \in Item \ items :
                    next[i] = NULL /\ prev[i] = NULL /\ child[i] = NULL /\ label[i] = Blank
OneParent    == \A p, q \in items :
                    ~label[p].ref /\ ~label[q].ref /\ child[p] = child[q] /\ child[p] # NULL => p = q
HeldAreRoots == \A i \in held : Root(i)

\* A list or a parent holds i; nobody does, and i is a reference without a name.
Entered(i) == prev[i] # NULL \/ \E p \in items : ~label[p].ref /\ child[p] = i
Lost(i)    == next[i] = NULL /\ label[i].ref /\ label[i].string = NULL

OthersEntered == \A i \in items \ held : Entered(i) \/ Lost(i)

IInv == ItemsTypeOK /\ LinksMatch /\ Unallocated /\ OneParent /\ HeldAreRoots /\ OthersEntered

Arcs == {a \in items \X items : prev[a[2]] = a[1] \/ (~label[a[1]].ref /\ child[a[1]] = a[2])}

\* No cycle of the links is no cycle of arcs.
LEMMA AcyclicArcs ==
    /\ Acyclic <=> NoCycle(items, Arcs)
    /\ Acyclic' <=> NoCycle(items', Arcs')
<1>1. \A S \in SUBSET items : \A x, y \in S :
          <<x, y>> \notin Arcs <=> prev[y] # x /\ (label[x].ref \/ child[x] # y)
    BY DEF Arcs
<1>2. \A S \in SUBSET items' : \A x, y \in S :
          <<x, y>> \notin Arcs' <=> prev'[y] # x /\ (label'[x].ref \/ child'[x] # y)
    BY DEF Arcs
<1>3. ASSUME NEW S \in SUBSET items
      PROVE  (\E y \in S : prev[y] \notin S /\ \A p \in S : label[p].ref \/ child[p] # y)
                 <=> \E y \in S : \A x \in S : <<x, y>> \notin Arcs
    <2>1. ASSUME NEW y \in S
          PROVE  (prev[y] \notin S /\ \A p \in S : label[p].ref \/ child[p] # y)
                     <=> \A x \in S : <<x, y>> \notin Arcs
        BY <1>1
    <2> QED BY <2>1
<1>4. ASSUME NEW S \in SUBSET items'
      PROVE  (\E y \in S : prev'[y] \notin S /\ \A p \in S : label'[p].ref \/ child'[p] # y)
                 <=> \E y \in S : \A x \in S : <<x, y>> \notin Arcs'
    <2>1. ASSUME NEW y \in S
          PROVE  (prev'[y] \notin S /\ \A p \in S : label'[p].ref \/ child'[p] # y)
                     <=> \A x \in S : <<x, y>> \notin Arcs'
        BY <1>2
    <2> QED BY <2>1
<1>5. Acyclic <=> NoCycle(items, Arcs)
    BY <1>3, Zenon DEF Acyclic, NoCycle
<1>6. Acyclic' <=> NoCycle(items', Arcs')
    BY <1>4, Zenon DEF Acyclic, NoCycle
<1> QED BY <1>5, <1>6

\* What the parts of the invariant say of single items.
LEMMA LinkFacts ==
    ASSUME IInv
    PROVE  /\ items \subseteq Item /\ NULL \notin Item /\ NULL \notin items
           /\ \A i \in Item : next[i] \in items \cup {NULL} /\ prev[i] \in items \cup {NULL}
                              /\ child[i] \in items \cup {NULL}
           /\ \A i, j \in Item : next[i] = j <=> prev[j] = i
           /\ \A p \in Item : ~label[p].ref /\ child[p] # NULL => prev[child[p]] = NULL
           /\ \A p, q \in Item : ~label[p].ref /\ ~label[q].ref /\ child[p] = child[q]
                                     /\ child[p] # NULL => p = q
           /\ NoCycle(items, Arcs)
           /\ \A i \in Item \ items : Root(i) /\ child[i] = NULL /\ ~label[i].ref
<1>1. items \subseteq Item /\ NULL \notin Item
    BY ItemAssumption DEF IInv, ItemsTypeOK
<1>2. \A i \in Item : next[i] \in items \cup {NULL} /\ prev[i] \in items \cup {NULL}
                      /\ child[i] \in items \cup {NULL}
    BY DEF IInv, LinksMatch, Unallocated
<1>3. \A i \in Item \ items : next[i] = NULL /\ prev[i] = NULL /\ child[i] = NULL /\ ~label[i].ref
    BY DEF IInv, Unallocated, Blank
<1>4. \A i, j \in Item : next[i] = j <=> prev[j] = i
    BY <1>1, <1>2, <1>3 DEF IInv, LinksMatch
<1>5. \A p \in Item : ~label[p].ref /\ child[p] # NULL => prev[child[p]] = NULL
    BY <1>3 DEF IInv, LinksMatch
<1>6. \A p, q \in Item : ~label[p].ref /\ ~label[q].ref /\ child[p] = child[q] /\ child[p] # NULL => p = q
    BY <1>3 DEF IInv, OneParent
<1>7. NoCycle(items, Arcs)
    BY AcyclicArcs DEF IInv, LinksMatch
<1>8. \A i \in Item \ items : Root(i)
    BY <1>1, <1>2, <1>3 DEF Root
<1> QED BY <1>1, <1>2, <1>3, <1>4, <1>5, <1>6, <1>7, <1>8

-----------------------------------------------------------------------------
(* What a walk reaches.                                                    *)

\* A set that the walk along a list does not leave holds the list.
LEMMA ChildrenLeast ==
    ASSUME NEW p, NEW S \in SUBSET Item, child[p] \in S \cup {NULL},
           \A y \in S : next[y] \in S \cup {NULL}
    PROVE  Children(p) \subseteq S
BY DEF Children, Closure

\* A member of a list is its first or the next of another.
LEMMA ChildrenEntered ==
    ASSUME IInv, NEW p \in items, NEW z \in Children(p)
    PROVE  z \in items /\ (z = child[p] \/ \E y \in Children(p) : next[y] = z)
<1>1. Children(p) \subseteq items
    BY ChildrenLeast, LinkFacts
<1>2. child[p] \in Children(p) \cup {NULL} /\ \A y \in Children(p) : next[y] \in Children(p) \cup {NULL}
    BY <1>1, LinkFacts DEF Children, Closure
<1>3. SUFFICES ASSUME z # child[p], \A y \in Children(p) : next[y] # z
               PROVE  FALSE
    BY <1>1
<1> DEFINE S == Children(p) \ {z}
<1>4. S \in SUBSET Item /\ child[p] \in S \cup {NULL} /\ \A y \in S : next[y] \in S \cup {NULL}
    BY <1>1, <1>2, <1>3, LinkFacts
<1>5. Children(p) \subseteq S
    <2> HIDE DEF S
    <2> QED BY <1>4, ChildrenLeast
<1> QED BY <1>5

\* A member of a list is no root.
LEMMA Listed ==
    ASSUME IInv, NEW p \in items, ~label[p].ref, NEW z \in Children(p)
    PROVE  z \in items /\ ~Root(z)
<1>1. z \in items
    BY ChildrenEntered
<1>2. CASE z = child[p]
    BY <1>1, <1>2 DEF Root
<1>3. ASSUME NEW y \in Children(p), next[y] = z
      PROVE  ~Root(z)
    <2>1. y \in items
        BY ChildrenEntered
    <2>2. prev[z] = y /\ y # NULL
        BY <1>1, <1>3, <2>1, LinkFacts
    <2> QED BY <2>2 DEF Root
<1> QED BY <1>1, <1>2, <1>3, ChildrenEntered

\* The walk along a list meets its first and, with an item, the next one.
LEMMA ChildrenClosed ==
    ASSUME IInv, NEW p \in items
    PROVE  /\ child[p] \in Children(p) \cup {NULL}
           /\ \A y \in Children(p) : next[y] \in Children(p) \cup {NULL}
<1>1. Children(p) \subseteq items
    BY ChildrenLeast, LinkFacts
<1> QED BY <1>1, LinkFacts DEF Children, Closure

Parents(i) == {p \in items : ~label[p].ref /\ i \in Children(p)}

\* No item is in two lists.
LEMMA AtMostOneParent ==
    ASSUME IInv, NEW p \in items, NEW q \in items, ~label[p].ref, ~label[q].ref,
           Children(p) \cap Children(q) # {}
    PROVE  p = q
<1> DEFINE S == Children(p) \cap Children(q)
<1>1. S \in (SUBSET items) \ {{}}
    BY ChildrenEntered
<1>2. PICK y \in S : \A x \in S : <<x, y>> \notin Arcs
    <2> HIDE DEF S
    <2> QED BY <1>1, LinkFacts DEF NoCycle
<1>3. y \in items /\ y \in Item /\ y # NULL
    BY <1>1, LinkFacts
<1>4. ASSUME NEW r \in {p, q}
      PROVE  \/ y = child[r] /\ prev[y] = NULL
             \/ prev[y] \in Children(r) /\ prev[y] \in items
    <2>1. r \in items /\ ~label[r].ref /\ r \in Item
        BY LinkFacts
    <2>2. CASE y = child[r]
        BY <1>3, <2>1, <2>2, LinkFacts
    <2>3. ASSUME NEW z \in Children(r), next[z] = y
          PROVE  prev[y] \in Children(r) /\ prev[y] \in items
        <3>1. z \in items
            BY <2>1, ChildrenEntered
        <3>2. prev[y] = z
            BY <1>3, <2>3, <3>1, LinkFacts
        <3> QED BY <3>1, <3>2
    <2> QED BY <2>1, <2>2, <2>3, ChildrenEntered
<1>5. CASE prev[y] = NULL
    <2>1. NULL \notin items
        BY LinkFacts
    <2>2. y = child[p] /\ y = child[q]
        BY <1>4, <1>5, <2>1
    <2> QED BY <1>3, <2>2 DEF IInv, OneParent
<1>6. CASE prev[y] # NULL
    <2>1. prev[y] \in S /\ prev[y] \in items
        BY <1>4, <1>6
    <2>2. <<prev[y], y>> \in Arcs
        BY <1>3, <2>1 DEF Arcs
    <2> QED BY <1>2, <2>1, <2>2
<1> QED BY <1>5, <1>6

\* What a list or a parent holds is in the list of a parent.
LEMMA SomeParent ==
    ASSUME IInv, NEW i \in items, Entered(i)
    PROVE  Parents(i) # {}
<1> DEFINE U == {j \in items : Entered(j) /\ Parents(j) = {}}
<1> SUFFICES ASSUME U # {} PROVE FALSE
    OBVIOUS
<1>1. PICK y \in U : \A x \in U : <<x, y>> \notin Arcs
    <2>1. U \in (SUBSET items) \ {{}}
        OBVIOUS
    <2> HIDE DEF U
    <2> QED BY <2>1, LinkFacts DEF NoCycle
<1>2. y \in items /\ y \in Item /\ y # NULL /\ Entered(y) /\ Parents(y) = {}
    BY LinkFacts
<1>3. \A p \in items : ~label[p].ref => child[p] # y
    BY <1>2, ChildrenClosed DEF Parents
<1>4. prev[y] \in items /\ prev[y] \in Item /\ next[prev[y]] = y
    BY <1>2, <1>3, LinkFacts DEF Entered
<1>5. prev[y] \notin U
    BY <1>1, <1>2, <1>4 DEF Arcs
<1>6. Entered(prev[y])
    BY <1>2, <1>4 DEF IInv, OthersEntered, HeldAreRoots, Root, Lost
<1>7. PICK p \in items : ~label[p].ref /\ prev[y] \in Children(p)
    BY <1>4, <1>5, <1>6 DEF Parents
<1>8. y \in Children(p)
    BY <1>2, <1>4, <1>7, ChildrenClosed
<1> QED BY <1>2, <1>7, <1>8 DEF Parents

\* A set that cJSON_Delete does not leave holds all that it frees.
LEMMA TreeLeast ==
    ASSUME NEW i \in Item, NEW S \in SUBSET Item, i \in S,
           \A y \in S : ~label[y].ref => child[y] \in S \cup {NULL},
           \A y \in S \ {i} : next[y] \in S \cup {NULL}
    PROVE  Tree(i) \subseteq S
BY DEF Tree, Closure, Owned

\* cJSON_Delete follows child, except of references, and next, except of i.
LEMMA TreeClosed ==
    ASSUME IInv, NEW i \in Item
    PROVE  /\ i \in Tree(i)
           /\ Tree(i) \subseteq items \cup {i}
           /\ \A y \in Tree(i) : ~label[y].ref => child[y] \in Tree(i) \cup {NULL}
           /\ \A y \in Tree(i) \ {i} : next[y] \in Tree(i) \cup {NULL}
<1>1. i \in Tree(i)
    BY DEF Tree, Closure
<1>2. Tree(i) \subseteq items \cup {i}
    <2>1. items \cup {i} \in SUBSET Item
        BY LinkFacts
    <2> QED BY <2>1, TreeLeast, LinkFacts
<1>3. \A y \in Tree(i) : ~label[y].ref => child[y] \in Tree(i) \cup {NULL}
    BY <1>2, LinkFacts DEF Tree, Closure, Owned
<1>4. \A y \in Tree(i) \ {i} : next[y] \in Tree(i) \cup {NULL}
    BY <1>2, LinkFacts DEF Tree, Closure, Owned
<1> QED BY <1>1, <1>2, <1>3, <1>4

\* What cJSON_Delete(i) frees besides i it comes to from an item that it frees.
LEMMA TreeEntered ==
    ASSUME IInv, NEW i \in Item, NEW z \in Tree(i), z # i
    PROVE  \E y \in Tree(i) : (~label[y].ref /\ child[y] = z) \/ (y # i /\ next[y] = z)
<1> SUFFICES ASSUME \A y \in Tree(i) : (label[y].ref \/ child[y] # z) /\ (y = i \/ next[y] # z)
             PROVE  FALSE
    OBVIOUS
<1> DEFINE S == Tree(i) \ {z}
<1>1. S \in SUBSET Item /\ i \in S
    BY TreeClosed, LinkFacts
<1>2. \A y \in S : ~label[y].ref => child[y] \in S \cup {NULL}
    BY TreeClosed
<1>3. \A y \in S \ {i} : next[y] \in S \cup {NULL}
    BY TreeClosed
<1>4. Tree(i) \subseteq S
    <2> HIDE DEF S
    <2> QED BY <1>1, <1>2, <1>3, TreeLeast
<1> QED BY <1>4

\* No list or parent outside leads into it, but to i.
LEMMA TreeApart ==
    ASSUME IInv, NEW i \in Item, NEW z \in Tree(i), z # i, NEW x \in Item
    PROVE  /\ next[x] = z => x \in Tree(i) \ {i}
           /\ ~label[x].ref /\ child[x] = z => x \in Tree(i)
<1>1. PICK y \in Tree(i) : (~label[y].ref /\ child[y] = z) \/ (y # i /\ next[y] = z)
    BY TreeEntered
<1>2. y \in Item /\ z \in Item /\ z # NULL
    BY TreeClosed, LinkFacts
<1>3. CASE next[x] = z
    <2>1. prev[z] = x /\ x # NULL
        BY <1>2, <1>3, LinkFacts
    <2>2. y # i /\ next[y] = z
        BY <1>1, <1>2, <2>1, LinkFacts
    <2>3. x = y
        BY <1>2, <2>1, <2>2, LinkFacts
    <2>4. label[x].ref \/ child[x] # z
        BY <1>2, <2>1, LinkFacts
    <2> QED BY <2>2, <2>3, <2>4
<1>4. CASE ~label[x].ref /\ child[x] = z
    <2>1. prev[z] = NULL
        BY <1>2, <1>4, LinkFacts
    <2>2. next[y] # z /\ next[x] # z
        BY <1>2, <2>1, LinkFacts
    <2>3. x = y
        BY <1>1, <1>2, <1>4, <2>2, LinkFacts
    <2> QED BY <2>2, <2>3
<1> QED BY <1>3, <1>4

\* A list outside the tree of a root shares no item with it.
LEMMA ChildrenApart ==
    ASSUME IInv, NEW i \in Item, Root(i), NEW p \in items, ~label[p].ref, p \notin Tree(i)
    PROVE  Children(p) \cap Tree(i) = {}
<1>1. child[p] \in (Item \ Tree(i)) \cup {NULL}
    BY TreeApart, LinkFacts DEF Root
<1>2. ASSUME NEW y \in Item \ Tree(i)
      PROVE  next[y] \in (Item \ Tree(i)) \cup {NULL}
    <2>1. next[y] # i
        BY LinkFacts DEF Root
    <2> QED BY <2>1, TreeApart, LinkFacts
<1>3. Children(p) \subseteq Item \ Tree(i)
    BY <1>1, <1>2, ChildrenLeast
<1> QED BY <1>3

\* No arc leaves the tree of a root, or enters it.
LEMMA TreeArcs ==
    ASSUME IInv, NEW i \in Item, Root(i)
    PROVE  /\ \A x \in Tree(i), y \in items : <<x, y>> \in Arcs => y \in Tree(i)
           /\ \A x \in items : <<x, i>> \notin Arcs
<1>1. ASSUME NEW x \in Tree(i), NEW y \in items, <<x, y>> \in Arcs
      PROVE  y \in Tree(i)
    <2>1. CASE prev[y] = x
        <3>1. next[x] = y /\ x # i
            BY <1>1, <2>1, TreeClosed, LinkFacts DEF Root
        <3> QED BY <3>1, TreeClosed, LinkFacts
    <2>2. CASE ~label[x].ref /\ child[x] = y
        BY <2>2, TreeClosed, LinkFacts
    <2> QED BY <1>1, <2>1, <2>2 DEF Arcs
<1>2. \A x \in items : <<x, i>> \notin Arcs
    BY LinkFacts DEF Arcs, Root
<1> QED BY <1>1, <1>2

-----------------------------------------------------------------------------
(* Each kind of call keeps the links.                                      *)

\* A call leaves j where it is.
Stays(j) ==
    /\ j \in items \ held
    /\ label'[j] = label[j]
    /\ prev[j] # NULL => prev'[j] # NULL
    /\ next[j] = NULL => next'[j] = NULL
    /\ \A q \in items : ~label[q].ref /\ child[q] = j => q \in items' /\ ~label'[q].ref /\ child'[q] = j

\* All but the items of X stay where they are.
LEMMA EnteredStay ==
    ASSUME IInv, NEW X, \A j \in (items' \ held') \ X : Stays(j),
           \A j \in X : j \in items' \ held' => Entered(j)' \/ Lost(j)'
    PROVE  OthersEntered'
<1> SUFFICES ASSUME NEW j \in (items' \ held') \ X
             PROVE  Entered(j)' \/ Lost(j)'
    BY DEF OthersEntered
<1>1. j \in items \ held /\ (Entered(j) \/ Lost(j))
    BY DEF IInv, OthersEntered, Stays
<1>2. CASE Entered(j)
    BY <1>2 DEF Entered, Stays
<1>3. CASE Lost(j)
    BY <1>3 DEF Lost, Stays
<1> QED BY <1>1, <1>2, <1>3

\* An item that stands alone; what it borrows is no arc.
LEMMA NewRootKeeps ==
    ASSUME IInv, ItemsTypeOK', NEW i \in Item \ items, items' = items \cup {i},
           next' = next, prev' = prev, \A j \in Item \ {i} : child'[j] = child[j],
           child'[i] \in items \cup {NULL}, child'[i] = NULL \/ label'[i].ref,
           \A j \in Item \ {i} : label'[j] = label[j],
           held \subseteq held', held' \subseteq held \cup {i},
           i \in held' \/ (label'[i].ref /\ label'[i].string = NULL)
    PROVE  IInv'
<1>1. \A x, y \in items' : <<x, y>> \in Arcs' => <<x, y>> \in Arcs
    <2>1. ASSUME NEW x \in items', NEW y \in items', <<x, y>> \in Arcs'
          PROVE  <<x, y>> \in Arcs
        <3>1. prev[y] = x \/ (~label'[x].ref /\ child'[x] = y)
            BY <2>1 DEF Arcs
        <3>2. x # i /\ y # i
            BY <2>1, <3>1, LinkFacts DEF Root
        <3>3. x \in Item /\ x \in items /\ y \in items
            BY <3>2, LinkFacts
        <3> QED BY <3>1, <3>2, <3>3 DEF Arcs
    <2> QED BY <2>1
<1>2. Acyclic'
    <2>1. \A y \in items \cup {i} : <<i, y>> \notin Arcs
        BY DEF Arcs
    <2>2. NoCycle(items \cup {i}, Arcs)
        BY <2>1, Fresh, LinkFacts
    <2>3. NoCycle(items', Arcs')
        BY <1>1, <2>2, Fewer
    <2> QED BY <2>3, AcyclicArcs
<1>3. LinksMatch'
    BY <1>2, LinkFacts DEF LinksMatch, Root
<1>4. Unallocated'
    BY DEF IInv, Unallocated
<1>5. OneParent'
    BY LinkFacts DEF OneParent
<1>6. HeldAreRoots'
    <2>1. \A p \in items' : label'[p].ref \/ child'[p] # i
        BY LinkFacts
    <2>2. Root(i)'
        BY <2>1, LinkFacts DEF Root
    <2>3. ASSUME NEW h \in held PROVE Root(h)'
        <3>1. h \in items /\ Root(h)
            BY DEF IInv, ItemsTypeOK, HeldAreRoots
        <3> QED BY <3>1, LinkFacts DEF Root
    <2> QED BY <2>2, <2>3 DEF HeldAreRoots
<1>7. OthersEntered'
    <2>1. i \in items' \ held' => Lost(i)'
        BY LinkFacts DEF Lost, Root
    <2>2. ASSUME NEW j \in (items' \ held') \ {i}
          PROVE  Stays(j)
        <3>1. j \in items \ held /\ j \in Item /\ \A q \in items : q \in Item \ {i}
            BY LinkFacts
        <3> QED BY <3>1 DEF Stays
    <2>3. \A k \in {i} : k \in items' \ held' => Entered(k)' \/ Lost(k)'
        BY <2>1
    <2> QED BY ONLY IInv, <2>2, <2>3, EnteredStay
<1> QED BY <1>3, <1>4, <1>5, <1>6, <1>7 DEF IInv

\* add_item_to_array of an item i that is no list's and no parent's, and not
\* above p; i may be new, and a reference then.
LEMMA AddKeeps ==
    ASSUME IInv, ItemsTypeOK', NEW i \in Item, NEW p \in items, ~label[p].ref, p \notin Tree(i), Root(i),
           NEW first \in items \cup {NULL}, add_item_to_array(p, i, first),
           items' = items \cup {i}, held' = held \ {i},
           \A j \in Item \ {i} : label'[j] = label[j],
           \A j \in Item \ items' : label'[j] = Blank,
           \/ first = child[i] /\ label'[i].ref = label[i].ref
           \/ i \notin items /\ (first = NULL \/ label'[i].ref)
    PROVE  IInv'
<1>1. p # i /\ i # NULL /\ p # NULL
    BY TreeClosed, LinkFacts
<1>2. child \in [Item -> Pointer] /\ next \in [Item -> Pointer] /\ prev \in [Item -> Pointer]
    BY DEF IInv, ItemsTypeOK
<1>3. PICK last \in items \cup {NULL} :
          /\ IF last = NULL THEN child[p] = NULL ELSE child[p] # NULL
          /\ last # NULL => next[last] = NULL /\ last \notin Tree(i) /\ ~Root(last)
          /\ \A j \in Item : next'[j] = IF j = last THEN i ELSE next[j]
          /\ \A j \in Item : prev'[j] = IF last # NULL /\ j = i THEN last ELSE prev[j]
          /\ \A j \in Item : child'[j] = IF j = i THEN first
                                         ELSE IF last = NULL /\ j = p THEN i ELSE child[j]
    <2>1. CASE child[p] = NULL
        <3>1. next' = next /\ prev' = prev /\ child' = [child EXCEPT ![p] = i, ![i] = first]
            BY <2>1 DEF add_item_to_array
        <3>2. \A j \in Item : child'[j] = IF j = i THEN first ELSE IF j = p THEN i ELSE child[j]
            BY <1>1, <1>2, <3>1
        <3>3. \A j \in Item : /\ next'[j] = IF j = NULL THEN i ELSE next[j]
                              /\ prev'[j] = IF NULL # NULL /\ j = i THEN NULL ELSE prev[j]
                              /\ child'[j] = IF j = i THEN first
                                            ELSE IF NULL = NULL /\ j = p THEN i ELSE child[j]
            <4>1. NULL \notin Item
                BY LinkFacts
            <4> QED BY <3>1, <3>2, <4>1
        <3> WITNESS NULL \in items \cup {NULL}
        <3> QED BY <2>1, <3>3
    <2>2. CASE child[p] # NULL
        <3>1. PICK last \in Children(p) : next[last] = NULL /\ next' = [next EXCEPT ![last] = i]
                                          /\ prev' = [prev EXCEPT ![i] = last]
            BY <2>2 DEF add_item_to_array
        <3>2. child' = [child EXCEPT ![i] = first]
            BY <2>2 DEF add_item_to_array
        <3>3. last \in items /\ last \notin Tree(i) /\ ~Root(last)
            BY Listed, ChildrenApart
        <3>4. last # NULL /\ last \in Item
            BY <3>3, LinkFacts
        <3>5. \A j \in Item : /\ next'[j] = IF j = last THEN i ELSE next[j]
                              /\ prev'[j] = IF last # NULL /\ j = i THEN last ELSE prev[j]
                              /\ child'[j] = IF j = i THEN first
                                            ELSE IF last = NULL /\ j = p THEN i ELSE child[j]
            BY <1>2, <3>1, <3>2, <3>4
        <3> last \in items \cup {NULL}
            BY <3>3
        <3> WITNESS last \in items \cup {NULL}
        <3> QED BY <2>2, <3>1, <3>3, <3>4, <3>5
    <2> QED BY <2>1, <2>2
<1>4. last # i /\ (last = NULL \/ last \in Item)
    BY <1>1, <1>3, TreeClosed, LinkFacts
<1>5. \A x \in items : label'[x].ref = label[x].ref
    BY LinkFacts
<1>6. Acyclic'
    <2>1. NoCycle(items \cup {i}, Arcs)
        <3>1. CASE i \in items
            <4>1. items \cup {i} = items
                BY <3>1
            <4> QED BY <4>1, LinkFacts
        <3>2. CASE i \notin items
            BY <3>2, Fresh, LinkFacts DEF Arcs
        <3> QED BY <3>1, <3>2
    <2>2. \A x \in Tree(i), y \in items \cup {i} : <<x, y>> \in Arcs => y \in Tree(i)
        BY TreeArcs, TreeClosed DEF Arcs
    <2>3. ASSUME NEW x \in items', NEW y \in items', <<x, y>> \in Arcs'
          PROVE  <<x, y>> \in Arcs \/ (x \notin Tree(i) /\ y = i)
        <3>1. x \in Item /\ y \in Item
            BY LinkFacts
        <3>2. CASE prev'[y] = x
            <4>1. CASE last # NULL /\ y = i
                BY <1>3, <3>1, <3>2, <4>1
            <4>2. CASE ~(last # NULL /\ y = i)
                <5>1. prev[y] = x /\ next[x] = y
                    BY <1>3, <3>1, <3>2, <4>2, LinkFacts
                <5>2. x \in items /\ y \in items
                    BY <3>1, <5>1, LinkFacts DEF Root
                <5> QED BY <5>1, <5>2 DEF Arcs
            <4> QED BY <4>1, <4>2
        <3>3. CASE ~label'[x].ref /\ child'[x] = y
            <4>1. CASE x = i
                <5>1. first = child[i] /\ label'[i].ref = label[i].ref /\ first = y
                    BY <1>3, <3>1, <3>3, <4>1, LinkFacts
                <5>2. y \in items /\ child[i] # NULL
                    BY <3>1, <5>1, LinkFacts
                <5>3. i \in items
                    BY <5>2, LinkFacts
                <5> QED BY <3>3, <4>1, <5>1, <5>2, <5>3 DEF Arcs
            <4>2. CASE x # i /\ last = NULL /\ x = p
                BY <1>3, <3>1, <3>3, <4>2
            <4>3. CASE x # i /\ ~(last = NULL /\ x = p)
                <5>1. child[x] = y /\ x \in items /\ ~label[x].ref
                    BY <1>3, <1>5, <3>1, <3>3, <4>3
                <5>2. y \in items
                    BY <3>1, <5>1, LinkFacts
                <5> QED BY <5>1, <5>2 DEF Arcs
            <4> QED BY <4>1, <4>2, <4>3
        <3> QED BY <2>3, <3>2, <3>3 DEF Arcs
    <2>4. i \in Tree(i)
        BY TreeClosed
    <2>5. NoCycle(items', Arcs')
        BY <2>1, <2>2, <2>3, <2>4, Graft
    <2> QED BY <2>5, AcyclicArcs
<1>7. \A j \in items' : {next'[j], prev'[j], child'[j]} \subseteq items' \cup {NULL}
    BY <1>3, LinkFacts
<1>8. ASSUME NEW j \in items', NEW k \in items'
      PROVE  next'[j] = k <=> prev'[k] = j
    BY <1>1, <1>3, <1>4, LinkFacts DEF Root
<1>9. ASSUME NEW q \in items', ~label'[q].ref, child'[q] # NULL
      PROVE  prev'[child'[q]] = NULL
    <2>1. q \in Item
        BY LinkFacts
    <2>2. CASE q = i
        <3>1. child'[q] = child[i] /\ ~label[i].ref /\ child[i] # NULL
            BY <1>3, <1>9, <2>1, <2>2, LinkFacts
        <3>2. child[i] # i
            BY <3>1, LinkFacts DEF Root
        <3> QED BY <1>3, <2>1, <2>2, <3>1, <3>2, LinkFacts
    <2>3. CASE q # i /\ last = NULL /\ q = p
        BY <1>3, <1>1, <2>1, <2>3 DEF Root
    <2>4. CASE q # i /\ ~(last = NULL /\ q = p)
        <3>1. child'[q] = child[q] /\ ~label[q].ref /\ q \in items
            BY <1>3, <1>5, <1>9, <2>1, <2>4
        <3>2. child[q] # i
            BY <3>1 DEF Root
        <3> QED BY <1>3, <1>9, <3>1, <3>2, LinkFacts
    <2> QED BY <2>2, <2>3, <2>4
<1>10. LinksMatch'
    BY <1>6, <1>7, <1>8, <1>9 DEF LinksMatch
<1>11. Unallocated'
    BY <1>3, LinkFacts DEF Unallocated, Root
<1>12. OneParent'
    <2>1. ASSUME NEW q \in items', ~label'[q].ref, child'[q] # NULL
          PROVE  \/ ~label[q].ref /\ child'[q] = child[q] /\ child[q] # i
                 \/ q = p /\ child'[q] = i /\ last = NULL
        <3>1. q \in Item
            BY LinkFacts
        <3>2. CASE q = i
            <4>1. first = child[i] /\ ~label[i].ref /\ child'[q] = child[i]
                BY <1>3, <2>1, <3>1, <3>2, LinkFacts
            <4> QED BY <2>1, <3>2, <4>1, LinkFacts DEF Root
        <3>3. CASE q # i /\ ~(last = NULL /\ q = p)
            BY <1>3, <1>5, <2>1, <3>1, <3>3, LinkFacts DEF Root
        <3>4. CASE last = NULL /\ q = p
            BY <1>1, <1>3, <3>1, <3>4
        <3> QED BY <3>2, <3>3, <3>4
    <2> QED BY <2>1, LinkFacts DEF OneParent
<1>13. HeldAreRoots'
    <2> SUFFICES ASSUME NEW h \in held' PROVE Root(h)'
        BY DEF HeldAreRoots
    <2>1. h \in items /\ h # i /\ Root(h) /\ h \in Item
        BY LinkFacts DEF IInv, ItemsTypeOK, HeldAreRoots
    <2>2. h # last
        BY <1>3, <2>1, LinkFacts
    <2>3. next'[h] = NULL /\ prev'[h] = NULL
        BY <1>3, <2>1, <2>2 DEF Root
    <2>4. ASSUME NEW q \in items', ~label'[q].ref, child'[q] = h
          PROVE  FALSE
        <3>1. q \in Item /\ child'[q] # NULL
            BY <2>1, <2>4, LinkFacts
        <3>2. CASE q = i
            <4>1. first = child[i] /\ ~label[i].ref /\ child[i] = h /\ i \in items
                BY <1>3, <2>1, <2>4, <3>1, <3>2, LinkFacts
            <4> QED BY <2>1, <4>1 DEF Root
        <3>3. CASE q # i
            <4>1. child[q] = h /\ ~label[q].ref /\ q \in items
                BY <1>3, <1>5, <2>1, <2>4, <3>1, <3>3
            <4> QED BY <2>1, <4>1 DEF Root
        <3> QED BY <3>2, <3>3
    <2> QED BY <2>3, <2>4 DEF Root
<1>14. \A q \in items : child[q] # NULL /\ ~label[q].ref => child'[q] = child[q] /\ ~label'[q].ref
    <2>1. ASSUME NEW q \in items, child[q] # NULL, ~label[q].ref
          PROVE  child'[q] = child[q]
        <3>1. q \in Item /\ (q = i => first = child[i])
            BY LinkFacts
        <3> QED BY <1>3, <2>1, <3>1
    <2> QED BY <1>5, <2>1
<1>15. OthersEntered'
    <2>1. Entered(i)'
        <3>1. CASE last # NULL
            BY <1>3, <3>1 DEF Entered
        <3>2. CASE last = NULL
            <4>1. child'[p] = i /\ ~label'[p].ref /\ p \in items'
                BY <1>1, <1>3, <1>5, <3>2, LinkFacts
            <4> QED BY <4>1 DEF Entered
        <3> QED BY <3>1, <3>2
    <2>2. last \in items' => Entered(last)'
        <3> SUFFICES ASSUME last \in items' PROVE Entered(last)'
            OBVIOUS
        <3>1. last \in Item /\ last # NULL /\ last # i /\ next[last] = NULL /\ ~Root(last)
            BY <1>3, <1>4, LinkFacts
        <3>2. prev'[last] = prev[last]
            BY <1>3, <3>1
        <3>3. ASSUME NEW q \in items, ~label[q].ref, child[q] = last
              PROVE  Entered(last)'
            <4>1. q \in items' /\ ~label'[q].ref /\ child'[q] = last
                BY <1>14, <3>1, <3>3
            <4> QED BY <4>1 DEF Entered
        <3> QED BY <3>1, <3>2, <3>3 DEF Root, Entered
    <2>3. ASSUME NEW j \in (items' \ held') \ {i, last}
          PROVE  Stays(j)
        <3>1. j \in items \ held /\ j \in Item /\ j # NULL
            BY LinkFacts
        <3>2. prev'[j] = prev[j] /\ next'[j] = next[j] /\ label'[j] = label[j]
            BY <1>3, <3>1
        <3>3. \A q \in items : ~label[q].ref /\ child[q] = j => q \in items' /\ ~label'[q].ref /\ child'[q] = j
            BY <1>14, <3>1
        <3> QED BY <3>1, <3>2, <3>3 DEF Stays
    <2>4. \A k \in {i, last} : k \in items' \ held' => Entered(k)' \/ Lost(k)'
        BY <2>1, <2>2
    <2> QED BY ONLY IInv, <2>3, <2>4, EnteredStay
<1> QED BY <1>10, <1>11, <1>12, <1>13, <1>15 DEF IInv

\* cJSON_InsertItemInArray before an element of the list of p.
LEMMA InsertKeeps ==
    ASSUME IInv, NEW i \in held, NEW p \in items, ~label[p].ref, p \notin Tree(i),
           NEW after \in Children(p), InsertBefore(p, after, i),
           held' = held \ {i}, UNCHANGED <<items, label, buffers>>
    PROVE  IInv'
<1>1. i \in Item /\ i \in items /\ Root(i) /\ p \in Item /\ p # i
    BY TreeClosed, LinkFacts DEF IInv, ItemsTypeOK, HeldAreRoots
<1>2. after \in items /\ after \in Item /\ after # i /\ after \notin Tree(i) /\ ~Root(after)
    BY <1>1, Listed, ChildrenApart, TreeClosed, LinkFacts
<1>3. child \in [Item -> Pointer] /\ next \in [Item -> Pointer] /\ prev \in [Item -> Pointer]
    BY DEF IInv, ItemsTypeOK
<1>4. \/ after = child[p] /\ prev[after] = NULL
      \/ after # child[p] /\ prev[after] \in items \ Tree(i) /\ next[prev[after]] = after
    <2>1. CASE after = child[p]
        BY <1>1, <1>2, <2>1, LinkFacts
    <2>2. CASE after # child[p]
        <3>1. PICK y \in Children(p) : next[y] = after
            BY <2>2, ChildrenEntered
        <3>2. y \in items \ Tree(i)
            BY <1>1, ChildrenEntered, ChildrenApart
        <3> QED BY <1>2, <2>2, <3>1, <3>2, LinkFacts
    <2> QED BY <2>1, <2>2
<1>6. /\ \A j \in Item : next'[j] = IF j = i THEN after ELSE IF j = prev[after] THEN i ELSE next[j]
      /\ \A j \in Item : prev'[j] = IF j = i THEN prev[after] ELSE IF j = after THEN i ELSE prev[j]
      /\ \A j \in Item : child'[j] = IF j = p /\ after = child[p] THEN i ELSE child[j]
    <2>1. i # NULL /\ prev[after] # i /\ \A j \in Item : j # NULL
        BY <1>1, <1>4, TreeClosed, LinkFacts
    <2>2. \A j \in Item : prev'[j] = IF j = i THEN prev[after] ELSE IF j = after THEN i ELSE prev[j]
        BY <1>1, <1>2, <1>3 DEF InsertBefore
    <2>3. \A j \in Item : child'[j] = IF j = p /\ after = child[p] THEN i ELSE child[j]
        BY <1>1, <1>2, <1>3 DEF InsertBefore
    <2>4. CASE after = child[p]
        <3>1. next' = [next EXCEPT ![i] = after]
            BY <2>4 DEF InsertBefore, Store
        <3> QED BY <1>1, <1>3, <1>4, <2>1, <2>2, <2>3, <2>4, <3>1
    <2>5. CASE after # child[p]
        <3>1. prev[after] \in Item /\ prev[after] # NULL
            BY <1>4, <2>5, LinkFacts
        <3>2. next' = [[next EXCEPT ![i] = after] EXCEPT ![prev[after]] = i]
            BY <2>5, <3>1 DEF InsertBefore, Store
        <3> QED BY <1>1, <1>3, <2>1, <2>2, <2>3, <3>1, <3>2
    <2> QED BY <2>4, <2>5
<1>7. Acyclic'
    <2>1. ASSUME NEW x \in items, NEW y \in items, <<x, y>> \in Arcs'
          PROVE  \/ <<x, y>> \in Arcs
                 \/ x \notin Tree(i) /\ y = i /\ <<x, after>> \in Arcs
                 \/ x = i /\ y = after
        <3>1. x \in Item /\ y \in Item /\ x # NULL
            BY LinkFacts
        <3>2. CASE prev'[y] = x
            <4>1. CASE y = i
                BY <1>2, <1>4, <1>6, <3>1, <3>2, <4>1 DEF Arcs
            <4>2. CASE y = after
                BY <1>2, <1>6, <3>1, <3>2, <4>2
            <4>3. CASE y # i /\ y # after
                BY <1>6, <3>1, <3>2, <4>3 DEF Arcs
            <4> QED BY <4>1, <4>2, <4>3
        <3>3. CASE ~label'[x].ref /\ child'[x] = y
            <4>1. CASE x = p /\ after = child[p]
                BY <1>2, <1>6, <3>1, <3>3, <4>1 DEF Arcs
            <4>2. CASE ~(x = p /\ after = child[p])
                BY <1>6, <3>1, <3>3, <4>2 DEF Arcs
            <4> QED BY <4>1, <4>2
        <3> QED BY <2>1, <3>2, <3>3 DEF Arcs
    <2>2. i \in Tree(i) /\ \A x \in Tree(i), y \in items : <<x, y>> \in Arcs => y \in Tree(i)
        BY <1>1, TreeArcs, TreeClosed
    <2>3. \A x \in items : <<x, i>> \notin Arcs
        BY <1>1, TreeArcs
    <2>4. NoCycle(items, Arcs)
        BY LinkFacts
    <2>5. NoCycle(items, Arcs')
        BY <1>2, <2>1, <2>2, <2>3, <2>4, Subdivide
    <2> QED BY <2>5, AcyclicArcs
<1>8. \A j \in items' : {next'[j], prev'[j], child'[j]} \subseteq items' \cup {NULL}
    BY <1>1, <1>2, <1>6, LinkFacts
<1>9. ASSUME NEW j \in items, NEW k \in items
      PROVE  next'[j] = k <=> prev'[k] = j
    <2>1. j \in Item /\ k \in Item /\ j # NULL /\ k # NULL
        BY LinkFacts
    <2>2. CASE j = i
        BY <1>1, <1>2, <1>4, <1>6, <2>1, <2>2, LinkFacts DEF Root
    <2>3. CASE j = prev[after]
        BY <1>1, <1>2, <1>4, <1>6, <2>1, <2>3, TreeClosed, LinkFacts DEF Root
    <2>4. CASE j # i /\ j # prev[after]
        BY <1>1, <1>2, <1>6, <2>1, <2>4, LinkFacts DEF Root
    <2> QED BY <2>2, <2>3, <2>4
<1>10. ASSUME NEW q \in items, ~label[q].ref, child'[q] # NULL
       PROVE  prev'[child'[q]] = NULL
    <2>1. q \in Item
        BY LinkFacts
    <2>2. CASE q = p /\ after = child[p]
        BY <1>1, <1>4, <1>6, <2>1, <2>2
    <2>3. CASE ~(q = p /\ after = child[p])
        <3>1. child'[q] = child[q] /\ child[q] # i /\ child[q] \in Item
            BY <1>1, <1>6, <1>10, <2>1, <2>3, LinkFacts DEF Root
        <3>2. child[q] # after
            <4>1. SUFFICES ASSUME child[q] = after PROVE FALSE
                OBVIOUS
            <4>2. prev[after] = NULL /\ child[p] = after
                BY <1>2, <1>4, <1>10, <2>1, <4>1, LinkFacts
            <4> QED BY <1>1, <1>2, <1>10, <2>1, <2>3, <4>1, <4>2, LinkFacts
        <3> QED BY <1>6, <1>10, <2>1, <3>1, <3>2, LinkFacts
    <2> QED BY <2>2, <2>3
<1>11. LinksMatch'
    BY <1>7, <1>8, <1>9, <1>10 DEF LinksMatch
<1>12. ItemsTypeOK'
    <2>1. /\ next' = [j \in Item |-> next'[j]] /\ prev' = [j \in Item |-> prev'[j]]
          /\ child' = [j \in Item |-> child'[j]]
        BY <1>3 DEF InsertBefore, Store
    <2>2. \A j \in Item : next'[j] \in Pointer /\ prev'[j] \in Pointer /\ child'[j] \in Pointer
        BY <1>1, <1>2, <1>3, <1>6 DEF Pointer
    <2> QED BY <2>1, <2>2 DEF IInv, ItemsTypeOK
<1>13. Unallocated'
    BY <1>1, <1>2, <1>4, <1>6, LinkFacts DEF IInv, Unallocated
<1>14. OneParent'
    <2>1. \A q \in items : ~label[q].ref /\ child'[q] # NULL =>
              \/ child'[q] = child[q] /\ child[q] # i
              \/ q = p /\ child'[q] = i
        BY <1>1, <1>6, LinkFacts DEF Root
    <2> QED BY <2>1, LinkFacts DEF OneParent
<1>15. HeldAreRoots'
    <2> SUFFICES ASSUME NEW h \in held' PROVE Root(h)'
        BY DEF HeldAreRoots
    <2>1. h \in items /\ h # i /\ Root(h) /\ h \in Item
        BY LinkFacts DEF IInv, ItemsTypeOK, HeldAreRoots
    <2>2. h # after /\ h # prev[after]
        BY <1>2, <1>4, <2>1, LinkFacts DEF Root
    <2>3. \A q \in items : label[q].ref \/ child'[q] # h
        BY <1>6, <2>1, LinkFacts DEF Root
    <2> QED BY <1>6, <2>1, <2>2, <2>3 DEF Root
<1>16. OthersEntered'
    <2>1. Entered(i)'
        <3>1. CASE after = child[p]
            <4>1. child'[p] = i /\ ~label'[p].ref /\ p \in items'
                BY <1>1, <1>6, <3>1
            <4> QED BY <4>1 DEF Entered
        <3>2. CASE after # child[p]
            <4>1. prev'[i] # NULL
                BY <1>1, <1>4, <1>6, <3>2, LinkFacts
            <4> QED BY <4>1 DEF Entered
        <3> QED BY <3>1, <3>2
    <2>2. Entered(after)'
        <3>1. prev'[after] # NULL
            BY <1>1, <1>2, <1>6, LinkFacts
        <3> QED BY <3>1 DEF Entered
    <2>3. ASSUME NEW j \in (items' \ held') \ {i, after}
          PROVE  Stays(j)
        <3>1. j \in items \ held /\ j \in Item /\ j # NULL
            BY LinkFacts
        <3>2. next[j] = NULL => next'[j] = NULL
            BY <1>2, <1>6, <3>1, LinkFacts
        <3>3. \A q \in items : ~label[q].ref /\ child[q] = j => q \in items' /\ ~label'[q].ref /\ child'[q] = j
            BY <1>6, LinkFacts
        <3>4. prev'[j] = prev[j] /\ label'[j] = label[j]
            BY <1>6, <3>1
        <3> QED BY <3>1, <3>2, <3>3, <3>4 DEF Stays
    <2>4. \A k \in {i, after} : k \in items' \ held' => Entered(k)' \/ Lost(k)'
        BY <2>1, <2>2
    <2> QED BY ONLY IInv, <2>3, <2>4, EnteredStay
<1> QED BY <1>11, <1>12, <1>13, <1>14, <1>15, <1>16 DEF IInv

\* The neighbours of an item and its parent are not in its tree.
LEMMA NeighboursApart ==
    ASSUME IInv, NEW i \in items
    PROVE  /\ next[i] \notin Tree(i) /\ prev[i] \notin Tree(i)
           /\ \A p \in items : ~label[p].ref /\ child[p] = i => p \notin Tree(i)
<1>1. Tree(i) \subseteq items /\ i \in Tree(i) /\ i \in Item /\ NULL \notin items
    BY TreeClosed, LinkFacts
<1>2. PICK y \in Tree(i) : \A x \in Tree(i) : <<x, y>> \notin Arcs
    BY <1>1, LinkFacts DEF NoCycle
<1>3. y = i
    <2>1. SUFFICES ASSUME y # i PROVE FALSE
        OBVIOUS
    <2>2. PICK x \in Tree(i) : (~label[x].ref /\ child[x] = y) \/ (x # i /\ next[x] = y)
        BY <1>1, <2>1, TreeEntered
    <2>3. <<x, y>> \in Arcs
        BY <1>1, <2>2, LinkFacts DEF Arcs
    <2> QED BY <1>2, <2>3
<1>4. prev[i] \notin Tree(i)
    BY <1>1, <1>2, <1>3, LinkFacts DEF Arcs
<1>5. \A p \in items : ~label[p].ref /\ child[p] = i => p \notin Tree(i)
    BY <1>1, <1>2, <1>3 DEF Arcs
<1>6. next[i] \notin Tree(i)
    <2>1. CASE next[i] = i
        BY <1>1, <1>4, <2>1, LinkFacts
    <2>2. CASE next[i] # i
        BY <1>1, <2>2, TreeApart
    <2> QED BY <2>1, <2>2
<1> QED BY <1>4, <1>5, <1>6

\* i leaves its list, if it is in one, and what is freed loses its links.
Unlinks(i, gone) ==
    /\ next' \in [Item -> Pointer] /\ prev' \in [Item -> Pointer] /\ child' \in [Item -> Pointer]
    /\ \A j \in Item : next'[j] = IF j \in gone \cup {i} THEN NULL
                                  ELSE IF j = prev[i] THEN next[i] ELSE next[j]
    /\ \A j \in Item : prev'[j] = IF j \in gone \cup {i} THEN NULL
                                  ELSE IF j = next[i] THEN prev[i] ELSE prev[j]
    /\ \A j \in Item : child'[j] = IF j \in gone THEN NULL
                                   ELSE IF ~label[j].ref /\ child[j] = i THEN next[i] ELSE child[j]

\* An item leaves its list, if it is in one, and perhaps it is deleted with all
\* below it, which no reference borrows.
LEMMA UnlinkKeeps ==
    ASSUME IInv, NEW i \in items, NEW gone \in {{}, Tree(i)}, NotBorrowed(gone), Unlinks(i, gone),
           items' = items \ gone, label' \in [Item -> Label],
           \A j \in Item : label'[j] = IF j \in gone THEN Blank ELSE label[j],
           held \ {i} \subseteq held', held' \subseteq held \cup {i}, i \in held' <=> gone = {}, buffers' \in Int
    PROVE  IInv'
<1> USE DEF Unlinks
<1>1. i \in Item /\ i # NULL /\ gone \subseteq items /\ items \subseteq Item /\ NULL \notin items
    BY TreeClosed, LinkFacts
<1>2. /\ next[i] # i /\ prev[i] # i /\ next[i] \notin gone /\ prev[i] \notin gone
      /\ \A p \in items : ~label[p].ref /\ child[p] = i => p \notin gone
    BY NeighboursApart, TreeClosed, <1>1
<1>3. ASSUME NEW x \in Item \ gone
      PROVE  /\ next[x] \in gone => next[x] = i
             /\ prev[x] \in gone => prev[x] = i
             /\ ~label[x].ref /\ child[x] \in gone => child[x] = i
    <2>1. gone = {} \/ gone = Tree(i)
        OBVIOUS
    <2>2. next[x] \in gone => next[x] = i
        BY <1>1, <2>1, TreeApart
    <2>3. ~label[x].ref /\ child[x] \in gone => child[x] = i
        BY <1>1, <2>1, TreeApart
    <2>4. ASSUME prev[x] \in gone, prev[x] # i PROVE FALSE
        <3>1. next[prev[x]] = x /\ prev[x] \in Tree(i) \ {i} /\ x # NULL
            BY <1>1, <2>1, <2>4, LinkFacts
        <3>2. next[prev[x]] \in Tree(i) \cup {NULL}
            BY <1>1, <3>1, TreeClosed
        <3> QED BY <2>1, <2>4, <3>1, <3>2
    <2> QED BY <2>2, <2>3, <2>4
<1>4. \A h \in held : h \in Item /\ Root(h) /\ (h # i => h \notin gone)
    <2>1. \A h \in held : h \in items /\ Root(h)
        BY DEF IInv, ItemsTypeOK, HeldAreRoots
    <2>2. ASSUME NEW h \in held, h # i, h \in Tree(i) PROVE FALSE
        <3>1. PICK y \in Tree(i) : (~label[y].ref /\ child[y] = h) \/ (y # i /\ next[y] = h)
            BY <1>1, <2>2, TreeEntered
        <3>2. y \in items /\ h \in Item
            BY <1>1, <2>1, TreeClosed
        <3> QED BY <2>1, <3>1, <3>2, LinkFacts DEF Root
    <2> QED BY <1>1, <2>1, <2>2
<1>5. ASSUME NEW x \in items', NEW y \in items', <<x, y>> \in Arcs'
      PROVE  <<x, y>> \in Arcs \/ (<<x, i>> \in Arcs /\ <<i, y>> \in Arcs)
    <2>1. x \in Item /\ y \in Item /\ x \in items /\ y \in items /\ x \notin gone /\ y \notin gone
          /\ x # NULL /\ y # NULL
        BY <1>1
    <2>2. CASE prev'[y] = x
        <3>1. y # i
            BY <2>1, <2>2
        <3>2. CASE y = next[i]
            <4>1. prev[i] = x /\ prev[y] = i
                BY <1>1, <2>1, <2>2, <3>1, <3>2, LinkFacts
            <4> QED BY <2>1, <4>1 DEF Arcs
        <3>3. CASE y # next[i]
            BY <2>1, <2>2, <3>1, <3>3 DEF Arcs
        <3> QED BY <3>2, <3>3
    <2>3. CASE ~label'[x].ref /\ child'[x] = y
        <3>1. ~label[x].ref
            BY <2>1, <2>3
        <3>2. CASE child[x] = i
            <4>1. next[i] = y /\ prev[y] = i
                BY <1>1, <2>1, <2>3, <3>1, <3>2, LinkFacts
            <4> QED BY <2>1, <3>1, <3>2, <4>1 DEF Arcs
        <3>3. CASE child[x] # i
            BY <2>1, <2>3, <3>1, <3>3 DEF Arcs
        <3> QED BY <3>2, <3>3
    <2> QED BY <1>5, <2>2, <2>3 DEF Arcs
<1>6. Acyclic'
    <2>1. NoCycle(items, Arcs) /\ items' \subseteq items
        BY LinkFacts
    <2>2. NoCycle(items', Arcs')
        BY <1>5, <2>1, Contract
    <2> QED BY <2>2, AcyclicArcs
<1>7. ASSUME NEW j \in items'
      PROVE  {next'[j], prev'[j], child'[j]} \subseteq items' \cup {NULL}
    <2>1. j \in Item \ gone /\ j \in items
        BY <1>1
    <2>2. next'[j] \in items' \cup {NULL}
        <3>1. j # prev[i] => next[j] # i
            BY <1>1, <2>1, LinkFacts
        <3> QED BY <1>1, <1>2, <1>3, <2>1, <3>1, LinkFacts
    <2>3. prev'[j] \in items' \cup {NULL}
        <3>1. j # next[i] => prev[j] # i
            BY <1>1, <2>1, LinkFacts
        <3> QED BY <1>1, <1>2, <1>3, <2>1, <3>1, LinkFacts
    <2>4. child'[j] \in items' \cup {NULL}
        <3>1. label[j].ref => child[j] \notin gone
            BY <2>1 DEF NotBorrowed
        <3> QED BY <1>1, <1>2, <1>3, <2>1, <3>1, LinkFacts
    <2> QED BY <2>2, <2>3, <2>4
<1>8. ASSUME NEW j \in items', NEW k \in items'
      PROVE  next'[j] = k <=> prev'[k] = j
    <2>1. j \in Item \ gone /\ k \in Item \ gone /\ j # NULL /\ k # NULL
        BY <1>1
    <2>2. (next[i] = k <=> prev[k] = i) /\ (next[j] = i <=> prev[i] = j) /\ (next[j] = k <=> prev[k] = j)
        BY <1>1, <2>1, LinkFacts
    <2> QED BY <1>1, <1>2, <2>1, <2>2
<1>9. ASSUME NEW q \in items', ~label'[q].ref, child'[q] # NULL
      PROVE  prev'[child'[q]] = NULL
    <2>1. q \in Item \ gone /\ ~label[q].ref
        BY <1>1, <1>9
    <2>2. CASE child[q] = i
        <3>1. child'[q] = next[i] /\ prev[i] = NULL /\ next[i] \in Item
            BY <1>1, <1>9, <2>1, <2>2, LinkFacts
        <3> QED BY <1>2, <3>1
    <2>3. CASE child[q] # i
        <3>1. child'[q] = child[q] /\ child[q] \in Item /\ prev[child[q]] = NULL
            BY <1>1, <1>9, <2>1, <2>3, LinkFacts
        <3>2. child[q] # next[i]
            BY <1>1, <3>1, LinkFacts
        <3> QED BY <2>3, <3>1, <3>2
    <2> QED BY <2>2, <2>3
<1>10. LinksMatch'
    BY <1>6, <1>7, <1>8, <1>9 DEF LinksMatch
<1>11. held' \subseteq items'
    BY <1>1, <1>4 DEF IInv, ItemsTypeOK
<1>12. ItemsTypeOK'
    BY <1>1, <1>11 DEF ItemsTypeOK
<1>13. Unallocated'
    <2>1. ASSUME NEW j \in Item \ items'
          PROVE  next'[j] = NULL /\ prev'[j] = NULL /\ child'[j] = NULL /\ label'[j] = Blank
        <3>1. CASE j \in gone
            BY <3>1
        <3>2. CASE j \notin gone
            <4>1. j \in Item \ items /\ j # prev[i] /\ j # next[i] /\ j # i
                BY <1>1, <3>2, LinkFacts
            <4> QED BY <1>1, <3>2, <4>1 DEF IInv, Unallocated
        <3> QED BY <3>1, <3>2
    <2> QED BY <2>1 DEF Unallocated
<1>14. OneParent'
    <2>1. ASSUME NEW q \in items', ~label'[q].ref, child'[q] # NULL
          PROVE  /\ q \in Item /\ ~label[q].ref
                 /\ \/ child[q] = i /\ child'[q] = next[i] /\ prev[child'[q]] = i
                    \/ child'[q] = child[q] /\ prev[child'[q]] = NULL
        <3>1. q \in Item \ gone /\ ~label[q].ref
            BY <1>1, <2>1
        <3> QED BY <1>1, <2>1, <3>1, LinkFacts
    <2> QED BY <1>1, <2>1, LinkFacts DEF OneParent
<1>15. HeldAreRoots'
    <2> SUFFICES ASSUME NEW h \in held' PROVE Root(h)'
        BY DEF HeldAreRoots
    <2>1. CASE h = i
        <3>1. gone = {} /\ items' = items
            BY <2>1
        <3>2. \A q \in items : label'[q].ref \/ child'[q] # i
            BY <1>1, <1>2, <3>1
        <3> QED BY <1>1, <2>1, <3>1, <3>2 DEF Root
    <2>2. CASE h # i
        <3>1. h \in Item \ gone /\ Root(h)
            BY <1>4, <2>2
        <3>2. h # prev[i] /\ h # next[i] /\ h # NULL
            BY <1>1, <3>1, LinkFacts DEF Root
        <3>3. next'[h] = NULL /\ prev'[h] = NULL
            BY <2>2, <3>1, <3>2 DEF Root
        <3>4. \A q \in items' : label'[q].ref \/ child'[q] # h
            BY <1>1, <3>1, <3>2 DEF Root
        <3> QED BY <3>3, <3>4 DEF Root
    <2> QED BY <2>1, <2>2
<1>16. OthersEntered'
    <2>1. i \in items' => i \in held'
        BY <1>1, TreeClosed
    <2>2. ASSUME NEW k, k = next[i], k \in items'
          PROVE  Entered(k)'
        <3>1. k # NULL /\ k \in Item \ gone /\ k # i
            BY <1>1, <1>2, <2>2
        <3>2. prev'[k] = prev[i]
            BY <2>2, <3>1
        <3>3. CASE prev[i] = NULL
            <4>1. Entered(i)
                BY <2>2, <3>1 DEF IInv, OthersEntered, HeldAreRoots, Root, Lost
            <4>2. PICK q \in items : ~label[q].ref /\ child[q] = i
                BY <3>3, <4>1 DEF Entered
            <4>3. q \in Item \ gone
                BY <1>1, <1>2, <4>2
            <4>4. q \in items' /\ ~label'[q].ref /\ child'[q] = k
                BY <2>2, <4>2, <4>3
            <4> QED BY <4>4 DEF Entered
        <3> QED BY <3>2, <3>3 DEF Entered
    <2>3. ASSUME NEW j \in (items' \ held') \ {i, next[i]}
          PROVE  Stays(j)
        <3>1. j \in items \ held /\ j \in Item \ gone /\ j # NULL
            BY <1>1
        <3>2. next[j] = NULL => next'[j] = NULL
            <4>1. j = prev[i] => next[j] = i
                BY <1>1, <3>1, LinkFacts
            <4> QED BY <1>1, <3>1, <4>1
        <3>3. ASSUME NEW q \in items, ~label[q].ref, child[q] = j
              PROVE  q \in items' /\ ~label'[q].ref /\ child'[q] = j
            <4>1. q \notin gone
                <5>1. q \in Tree(i) => child[q] \in Tree(i) \cup {NULL}
                    BY <1>1, <3>3, TreeClosed
                <5> QED BY <3>1, <3>3, <5>1
            <4> QED BY <1>1, <3>3, <4>1
        <3>4. prev'[j] = prev[j] /\ label'[j] = label[j]
            BY <3>1
        <3> QED BY <3>1, <3>2, <3>3, <3>4 DEF Stays
    <2>4. \A k \in {i, next[i]} : k \in items' \ held' => Entered(k)' \/ Lost(k)'
        BY <2>1, <2>2
    <2> QED BY ONLY IInv, <2>3, <2>4, EnteredStay
<1> QED BY <1>10, <1>12, <1>13, <1>14, <1>15, <1>16 DEF IInv

\* cJSON_ReplaceItemViaPointer of an element old of the list of p by i, which
\* the caller holds; labels may give i another name.
LEMMA ReplaceKeeps ==
    ASSUME IInv, NEW i \in held, NEW p \in items, ~label[p].ref, p \notin Tree(i),
           NEW old \in Children(p), NEW labels \in [Item -> Label], NEW bufs \in Int,
           \A j \in Item \ {i} : labels[j] = label[j], labels[i].ref = label[i].ref,
           ReplaceItemViaPointer(p, old, i, labels, bufs), buffers' \in Int
    PROVE  IInv'
<1> DEFINE gone == Tree(old)
<1>1. /\ old \in items /\ old \in Item /\ ~Root(old) /\ gone \subseteq items /\ old \in gone
      /\ items \subseteq Item /\ NULL \notin items /\ NULL \notin Item
    BY Listed, TreeClosed, LinkFacts
<1>2. \A h \in held : h \in items /\ h \in Item /\ Root(h) /\ h \notin gone /\ h # old
    <2>1. \A h \in held : h \in items /\ h \in Item /\ Root(h) /\ h # old
        BY <1>1 DEF IInv, ItemsTypeOK, HeldAreRoots
    <2>2. ASSUME NEW h \in held, h \in gone PROVE FALSE
        <3>1. PICK y \in gone : (~label[y].ref /\ child[y] = h) \/ (y # old /\ next[y] = h)
            BY <1>1, <2>1, <2>2, TreeEntered
        <3>2. y \in items /\ y \in Item /\ h \in Item
            BY <1>1, <2>1
        <3> QED BY <2>1, <3>1, <3>2, LinkFacts DEF Root
    <2> QED BY <2>1, <2>2
<1>3. i \in Item /\ i # NULL /\ p # i /\ i \in Tree(i) /\ old \notin Tree(i)
    BY <1>1, <1>2, ChildrenApart, TreeClosed
<1>4. /\ next[old] # i /\ prev[old] # i /\ next[old] \notin gone /\ prev[old] \notin gone
      /\ child[p] = old => p \notin gone
      /\ \A q \in Item : ~label[q].ref /\ child[q] = old => q = p /\ child[p] = old
    <2>1. next[old] # i /\ prev[old] # i
        BY <1>1, <1>2, <1>3, LinkFacts DEF Root
    <2>2. ASSUME NEW q \in Item, ~label[q].ref, child[q] = old
          PROVE  q = p /\ child[p] = old
        <3>1. prev[old] = NULL
            BY <1>1, <2>2, LinkFacts
        <3>2. child[p] = old
            <4>1. SUFFICES ASSUME NEW y \in Children(p), next[y] = old PROVE FALSE
                BY ChildrenEntered
            <4>2. y \in items
                BY ChildrenEntered
            <4> QED BY <1>1, <3>1, <4>1, <4>2, LinkFacts
        <3> QED BY <1>1, <2>2, <3>2, LinkFacts
    <2> QED BY <1>1, <2>1, <2>2, NeighboursApart
<1>5. /\ NotBorrowed(gone) /\ items' = items \ gone /\ held' = held \ {i}
      /\ label' = [j \in Item |-> IF j \in gone THEN Blank ELSE labels[j]]
      /\ next' = Freed(Store([next EXCEPT ![i] = next[old]], prev[old], i), gone)
      /\ prev' = Freed(Store([prev EXCEPT ![i] = prev[old]], next[old], i), gone)
      /\ child' = Freed(IF child[p] = old THEN [child EXCEPT ![p] = i] ELSE child, gone)
    BY DEF ReplaceItemViaPointer, FreeItems
<1> HIDE DEF gone
<1>6. child \in [Item -> Pointer] /\ next \in [Item -> Pointer] /\ prev \in [Item -> Pointer]
    BY DEF IInv, ItemsTypeOK
<1>7. \A j \in Item : next'[j] = IF j \in gone THEN NULL ELSE IF j = i THEN next[old]
                                 ELSE IF j = prev[old] THEN i ELSE next[j]
    <2>1. CASE prev[old] = NULL
        BY <1>1, <1>3, <1>5, <1>6, <2>1 DEF Freed, Store
    <2>2. CASE prev[old] # NULL
        <3>1. prev[old] \in Item /\ prev[old] # i
            BY <1>1, <1>4, <2>2, LinkFacts
        <3> QED BY <1>1, <1>3, <1>5, <1>6, <2>2, <3>1 DEF Freed, Store
    <2> QED BY <2>1, <2>2
<1>8. \A j \in Item : prev'[j] = IF j \in gone THEN NULL ELSE IF j = i THEN prev[old]
                                 ELSE IF j = next[old] THEN i ELSE prev[j]
    <2>1. CASE next[old] = NULL
        BY <1>1, <1>3, <1>5, <1>6, <2>1 DEF Freed, Store
    <2>2. CASE next[old] # NULL
        <3>1. next[old] \in Item /\ next[old] # i
            BY <1>1, <1>4, <2>2, LinkFacts
        <3> QED BY <1>1, <1>3, <1>5, <1>6, <2>2, <3>1 DEF Freed, Store
    <2> QED BY <2>1, <2>2
<1>9. \A j \in Item : child'[j] = IF j \in gone THEN NULL
                                  ELSE IF j = p /\ child[p] = old THEN i ELSE child[j]
    BY <1>1, <1>3, <1>5, <1>6 DEF Freed
<1>10. \A j \in Item : label'[j] = (IF j \in gone THEN Blank ELSE labels[j])
                       /\ (j \notin gone => label'[j].ref = label[j].ref)
    BY <1>5
<1>11. ASSUME NEW x \in Item \ gone
       PROVE  /\ next[x] \in gone => next[x] = old
              /\ prev[x] \in gone => prev[x] = old
              /\ ~label[x].ref /\ child[x] \in gone => child[x] = old
    <2>1. (next[x] \in gone => next[x] = old) /\ (~label[x].ref /\ child[x] \in gone => child[x] = old)
        BY <1>1, TreeApart DEF gone
    <2>2. ASSUME prev[x] \in gone, prev[x] # old PROVE FALSE
        <3>1. next[prev[x]] = x /\ prev[x] \in Tree(old) \ {old} /\ x # NULL
            BY <1>1, <2>2, LinkFacts DEF gone
        <3>2. next[prev[x]] \in Tree(old) \cup {NULL}
            BY <1>1, <3>1, TreeClosed
        <3> QED BY <3>1, <3>2 DEF gone
    <2> QED BY <2>1, <2>2
<1>12. ASSUME NEW x \in items', NEW y \in items', <<x, y>> \in Arcs'
       PROVE  \/ <<x, y>> \in Arcs
              \/ y = i /\ <<x, old>> \in Arcs
              \/ x = i /\ <<old, y>> \in Arcs
    <2>1. x \in Item /\ y \in Item /\ x \in items /\ y \in items /\ x \notin gone /\ y \notin gone
          /\ x # NULL /\ y # NULL
        BY <1>1, <1>5
    <2>2. CASE prev'[y] = x
        <3>1. CASE y = i
            BY <1>1, <1>8, <2>1, <2>2, <3>1 DEF Arcs
        <3>2. CASE y # i /\ y = next[old]
            <4>1. x = i /\ prev[y] = old
                BY <1>1, <1>8, <2>1, <2>2, <3>2, LinkFacts
            <4> QED BY <1>1, <2>1, <4>1 DEF Arcs
        <3>3. CASE y # i /\ y # next[old]
            BY <1>8, <2>1, <2>2, <3>3 DEF Arcs
        <3> QED BY <3>1, <3>2, <3>3
    <2>3. CASE ~label'[x].ref /\ child'[x] = y
        <3>1. ~label[x].ref
            BY <1>10, <2>1, <2>3
        <3>2. CASE x = p /\ child[p] = old
            BY <1>1, <1>9, <2>1, <2>3, <3>1, <3>2 DEF Arcs
        <3>3. CASE ~(x = p /\ child[p] = old)
            BY <1>9, <2>1, <2>3, <3>1, <3>3 DEF Arcs
        <3> QED BY <3>2, <3>3
    <2> QED BY <1>12, <2>2, <2>3 DEF Arcs
<1>13. Acyclic'
    <2>1. \A x \in Tree(i), y \in items : <<x, y>> \in Arcs => y \in Tree(i)
        BY <1>2, <1>3, TreeArcs
    <2>2. \A x \in items : <<x, i>> \notin Arcs
        BY <1>2, <1>3, TreeArcs
    <2>3. NoCycle(items, Arcs) /\ items' \subseteq items /\ old \in items \ Tree(i)
        BY <1>1, <1>3, <1>5, LinkFacts
    <2>4. NoCycle(items', Arcs')
        BY <1>3, <1>12, <2>1, <2>2, <2>3, TakeOver
    <2> QED BY <2>4, AcyclicArcs
<1>14. ASSUME NEW j \in items'
       PROVE  {next'[j], prev'[j], child'[j]} \subseteq items' \cup {NULL}
    <2>1. j \in Item \ gone /\ j \in items /\ i \in items'
        BY <1>1, <1>2, <1>5
    <2>2. next'[j] \in items' \cup {NULL}
        <3>1. CASE j = i
            <4>1. next'[j] = next[old]
                BY <1>7, <2>1, <3>1
            <4> QED BY <1>1, <1>4, <1>5, <4>1, LinkFacts
        <3>2. CASE j # i /\ j = prev[old]
            BY <1>7, <2>1, <3>2
        <3>3. CASE j # i /\ j # prev[old]
            <4>1. next'[j] = next[j] /\ next[j] # old
                BY <1>1, <1>7, <2>1, <3>3, LinkFacts
            <4> QED BY <1>5, <1>11, <2>1, <4>1, LinkFacts
        <3> QED BY <3>1, <3>2, <3>3
    <2>3. prev'[j] \in items' \cup {NULL}
        <3>1. CASE j = i
            <4>1. prev'[j] = prev[old]
                BY <1>8, <2>1, <3>1
            <4> QED BY <1>1, <1>4, <1>5, <4>1, LinkFacts
        <3>2. CASE j # i /\ j = next[old]
            BY <1>8, <2>1, <3>2
        <3>3. CASE j # i /\ j # next[old]
            <4>1. prev'[j] = prev[j] /\ prev[j] # old
                BY <1>1, <1>8, <2>1, <3>3, LinkFacts
            <4> QED BY <1>5, <1>11, <2>1, <4>1, LinkFacts
        <3> QED BY <3>1, <3>2, <3>3
    <2>4. child'[j] \in items' \cup {NULL}
        <3>1. label[j].ref => child[j] \notin gone
            BY <1>5, <2>1 DEF NotBorrowed
        <3>2. ~label[j].ref /\ child[j] = old => j = p /\ child[p] = old
            BY <1>4, <2>1
        <3>3. CASE j = p /\ child[p] = old
            BY <1>9, <2>1, <3>3
        <3>4. CASE ~(j = p /\ child[p] = old)
            <4>1. child'[j] = child[j] /\ child[j] \notin gone
                BY <1>1, <1>9, <1>11, <2>1, <3>1, <3>2, <3>4
            <4> QED BY <1>5, <2>1, <4>1, LinkFacts
        <3> QED BY <3>3, <3>4
    <2> QED BY <2>2, <2>3, <2>4
<1>15. ASSUME NEW j \in items', NEW k \in items'
       PROVE  next'[j] = k <=> prev'[k] = j
    <2>1. j \in Item \ gone /\ k \in Item \ gone /\ j # NULL /\ k # NULL
        BY <1>1, <1>5
    <2>2. /\ next[old] = k <=> prev[k] = old
          /\ next[j] = old <=> prev[old] = j
          /\ next[j] = k <=> prev[k] = j
          /\ next[i] = NULL /\ prev[i] = NULL /\ next[j] # i /\ prev[k] # i
        BY <1>1, <1>2, <1>3, <2>1, LinkFacts DEF Root
    <2>3. old # j /\ old # k
        BY <1>1, <2>1
    <2> QED BY <1>3, <1>4, <1>7, <1>8, <2>1, <2>2, <2>3
<1>16. ASSUME NEW q \in items', ~label'[q].ref, child'[q] # NULL
       PROVE  prev'[child'[q]] = NULL
    <2>1. q \in Item \ gone /\ q \in items /\ ~label[q].ref
        BY <1>1, <1>5, <1>10, <1>16
    <2>2. CASE q = p /\ child[p] = old
        <3>1. child'[q] = i /\ prev[old] = NULL
            BY <1>1, <1>9, <2>1, <2>2, LinkFacts
        <3> QED BY <1>2, <1>3, <1>8, <3>1
    <2>3. CASE ~(q = p /\ child[p] = old)
        <3>1. child'[q] = child[q] /\ child[q] \in Item /\ prev[child[q]] = NULL /\ child[q] # i
            BY <1>1, <1>2, <1>9, <1>16, <2>1, <2>3, LinkFacts DEF Root
        <3>2. child[q] # next[old]
            BY <1>1, <3>1, LinkFacts
        <3> QED BY <1>8, <3>1, <3>2
    <2> QED BY <2>2, <2>3
<1>17. LinksMatch'
    BY <1>13, <1>14, <1>15, <1>16 DEF LinksMatch
<1>18. ItemsTypeOK'
    <2>1. label' \in [Item -> Label]
        <3>1. Blank \in Label
            BY DEF Blank, Label, Pointer
        <3> QED BY <1>5, <3>1
    <2>2. \A j \in Item : next'[j] \in Pointer /\ prev'[j] \in Pointer /\ child'[j] \in Pointer
        BY <1>1, <1>3, <1>7, <1>8, <1>9, LinkFacts DEF Pointer
    <2>3. next' \in [Item -> Pointer] /\ prev' \in [Item -> Pointer] /\ child' \in [Item -> Pointer]
        BY <1>5, <2>2 DEF Freed
    <2>4. held' \subseteq items'
        BY <1>2, <1>5
    <2> QED BY <1>1, <1>5, <2>1, <2>3, <2>4 DEF ItemsTypeOK
<1>19. Unallocated'
    <2>1. ASSUME NEW j \in Item \ items'
          PROVE  next'[j] = NULL /\ prev'[j] = NULL /\ child'[j] = NULL /\ label'[j] = Blank
        <3>1. CASE j \in gone
            BY <1>7, <1>8, <1>9, <1>10, <3>1
        <3>2. CASE j \notin gone
            <4>1. j \in Item \ items /\ j # prev[old] /\ j # next[old] /\ j # i /\ j # p
                BY <1>1, <1>2, <1>5, <3>2, LinkFacts
            <4> QED BY <1>7, <1>8, <1>9, <1>10, <3>2, <4>1 DEF IInv, Unallocated
        <3> QED BY <3>1, <3>2
    <2> QED BY <2>1 DEF Unallocated
<1>20. OneParent'
    <2>1. ASSUME NEW q \in items', ~label'[q].ref, child'[q] # NULL
          PROVE  /\ q \in Item /\ ~label[q].ref
                 /\ \/ q = p /\ child'[q] = i
                    \/ child'[q] = child[q] /\ child[q] # i
        <3>1. q \in Item \ gone /\ q \in items /\ ~label[q].ref
            BY <1>1, <1>5, <1>10, <2>1
        <3> QED BY <1>2, <1>9, <2>1, <3>1 DEF Root
    <2> QED BY <2>1, LinkFacts DEF OneParent
<1>21. HeldAreRoots'
    <2> SUFFICES ASSUME NEW h \in held' PROVE Root(h)'
        BY DEF HeldAreRoots
    <2>1. h \in Item \ gone /\ Root(h) /\ h # i /\ h # NULL
        BY <1>1, <1>2, <1>5
    <2>2. h # prev[old] /\ h # next[old]
        BY <1>1, <2>1, LinkFacts DEF Root
    <2>3. next'[h] = NULL /\ prev'[h] = NULL
        BY <1>7, <1>8, <2>1, <2>2 DEF Root
    <2>4. \A q \in items' : label'[q].ref \/ child'[q] # h
        BY <1>1, <1>5, <1>9, <1>10, <2>1 DEF Root
    <2> QED BY <2>3, <2>4 DEF Root
<1>22. OthersEntered'
    <2>1. Entered(i)'
        <3>1. prev'[i] = prev[old]
            BY <1>2, <1>3, <1>8
        <3>2. CASE prev[old] = NULL
            <4>1. Entered(old)
                BY <1>1, <1>2 DEF IInv, OthersEntered, Root, Lost, Entered
            <4>2. child[p] = old /\ p \notin gone /\ p \in Item
                BY <1>1, <1>4, <3>2, <4>1 DEF Entered
            <4>3. p \in items' /\ ~label'[p].ref /\ child'[p] = i
                BY <1>5, <1>9, <1>10, <4>2
            <4> QED BY <4>3 DEF Entered
        <3> QED BY <3>1, <3>2 DEF Entered
    <2>2. ASSUME NEW j \in (items' \ held') \ {i}
          PROVE  Stays(j)
        <3>1. j \in items \ held /\ j \in Item \ gone /\ j # NULL /\ j # old
            BY <1>1, <1>5
        <3>2. /\ prev[j] # NULL => prev'[j] # NULL
              /\ label'[j] = label[j]
            BY <1>3, <1>8, <1>10, <3>1
        <3>3. next[j] = NULL => next'[j] = NULL
            <4>1. j = prev[old] => next[j] = old
                BY <1>1, <3>1, LinkFacts
            <4> QED BY <1>1, <1>7, <3>1, <4>1
        <3>4. ASSUME NEW q \in items, ~label[q].ref, child[q] = j
              PROVE  q \in items' /\ ~label'[q].ref /\ child'[q] = j
            <4>1. q \notin gone
                <5>1. q \in Tree(old) => child[q] \in Tree(old) \cup {NULL}
                    BY <1>1, <3>4, TreeClosed
                <5> QED BY <3>1, <3>4, <5>1 DEF gone
            <4> QED BY <1>1, <1>5, <1>9, <1>10, <3>1, <3>4, <4>1
        <3> QED BY <3>1, <3>2, <3>3, <3>4 DEF Stays
    <2>3. \A k \in {i} : k \in items' \ held' => Entered(k)' \/ Lost(k)'
        BY <2>1
    <2> QED BY ONLY IInv, <2>2, <2>3, EnteredStay
<1> QED BY <1>17, <1>18, <1>19, <1>20, <1>21, <1>22 DEF IInv

\* A set of numbers has a least one.
LEMMA LeastNumber ==
    ASSUME NEW N \in (SUBSET Nat) \ {{}}
    PROVE  \E n \in N : \A m \in N : n <= m
<1>1. PICK n \in N : \A m \in N : <<m, n>> \notin OpToRel(<, Nat)
    BY NatLessThanWellFounded, WFMin
<1>2. OpToRel(<, Nat) = {pair \in Nat \X Nat : pair[1] < pair[2]}
    BY DEF OpToRel
<1>3. ASSUME NEW m \in N PROVE n <= m
    <2>1. m \in Nat /\ n \in Nat /\ <<m, n>> \in Nat \X Nat
        OBVIOUS
    <2>2. ~(m < n)
        BY <1>1, <1>2, <2>1
    <2> QED BY <2>1, <2>2
<1> QED BY <1>3

\* A call that makes the items new, which have no links with the others.
LEMMA AllocateKeeps ==
    ASSUME IInv, ItemsTypeOK', NEW new \in SUBSET (Item \ items), items' = items \cup new,
           \A j \in Item \ new : next'[j] = next[j] /\ prev'[j] = prev[j] /\ child'[j] = child[j]
                                 /\ label'[j] = label[j],
           \A j \in new : {next'[j], prev'[j], child'[j]} \subseteq new \cup {NULL} /\ ~label'[j].ref,
           \A j, k \in new : next'[j] = k <=> prev'[k] = j,
           \A j \in new : child'[j] # NULL => prev'[child'[j]] = NULL,
           \A j, k \in new : child'[j] = child'[k] /\ child'[j] # NULL => j = k,
           \A S \in (SUBSET new) \ {{}} : \E y \in S : prev'[y] \notin S /\ \A p \in S : child'[p] # y,
           \A j \in new \ held' : prev'[j] # NULL \/ \E k \in new : child'[k] = j,
           held \subseteq held', held' \subseteq held \cup new, \A h \in held' \cap new : Root(h)'
    PROVE  IInv'
<1>1. /\ items \subseteq Item /\ new \subseteq Item /\ items \cap new = {} /\ NULL \notin Item
      /\ \A j \in items : j \notin new /\ j \in Item
    BY LinkFacts
<1>2. ASSUME NEW x \in items, NEW y \in items
      PROVE  <<x, y>> \in Arcs' => <<x, y>> \in Arcs
    BY <1>1 DEF Arcs
<1>3. ASSUME NEW x \in items', NEW y \in items', x \in new <=> y \notin new
      PROVE  <<x, y>> \notin Arcs'
    <2>1. x # NULL /\ y # NULL /\ x \in Item /\ y \in Item
        BY <1>1
    <2>2. CASE x \in new
        BY <1>1, <1>3, <2>1, <2>2, LinkFacts DEF Arcs
    <2>3. CASE x \notin new
        BY <1>1, <1>3, <2>1, <2>3, LinkFacts DEF Arcs
    <2> QED BY <2>2, <2>3
<1>4. NoCycle(new, Arcs')
    <2> SUFFICES ASSUME NEW S \in (SUBSET new) \ {{}}
                 PROVE  \E y \in S : \A x \in S : <<x, y>> \notin Arcs'
        BY DEF NoCycle
    <2>1. PICK y \in S : prev'[y] \notin S /\ \A p \in S : child'[p] # y
        OBVIOUS
    <2> QED BY <2>1 DEF Arcs
<1>5. Acyclic'
    <2>1. NoCycle(items, Arcs)
        BY LinkFacts
    <2>2. NoCycle(items \cup new, Arcs')
        BY <1>1, <1>2, <1>3, <1>4, <2>1, Beside
    <2> QED BY <2>2, AcyclicArcs
<1>6. ASSUME NEW j \in items'
      PROVE  {next'[j], prev'[j], child'[j]} \subseteq items' \cup {NULL}
    <2>1. CASE j \in new
        BY <2>1
    <2>2. CASE j \notin new
        BY <1>1, <2>2, LinkFacts
    <2> QED BY <2>1, <2>2
<1>7. ASSUME NEW j \in items', NEW k \in items'
      PROVE  next'[j] = k <=> prev'[k] = j
    <2>1. j \in Item /\ k \in Item /\ j # NULL /\ k # NULL
        BY <1>1
    <2>2. CASE j \in new
        BY <1>1, <2>1, <2>2, LinkFacts
    <2>3. CASE j \notin new
        BY <1>1, <2>1, <2>3, LinkFacts
    <2> QED BY <2>2, <2>3
<1>8. ASSUME NEW q \in items', ~label'[q].ref, child'[q] # NULL
      PROVE  prev'[child'[q]] = NULL
    <2>1. CASE q \in new
        BY <1>8, <2>1
    <2>2. CASE q \notin new
        BY <1>1, <1>8, <2>2, LinkFacts
    <2> QED BY <2>1, <2>2
<1>9. LinksMatch'
    BY <1>5, <1>6, <1>7, <1>8 DEF LinksMatch
<1>10. Unallocated'
    BY <1>1 DEF IInv, Unallocated
<1>11. OneParent'
    <2>1. \A q \in items' : child'[q] # NULL => (q \in new <=> child'[q] \in new)
        BY <1>1, LinkFacts
    <2> QED BY <1>1, <2>1, LinkFacts DEF OneParent
<1>12. HeldAreRoots'
    <2> SUFFICES ASSUME NEW h \in held \ new PROVE Root(h)'
        BY DEF HeldAreRoots
    <2>1. h \in Item \ new /\ Root(h)
        BY <1>1 DEF IInv, ItemsTypeOK, HeldAreRoots
    <2>2. h # NULL
        BY <1>1, <2>1
    <2> QED BY <1>1, <2>1, <2>2 DEF Root
<1>13. OthersEntered'
    <2>1. \A j \in new \ held' : Entered(j)'
        BY DEF Entered
    <2>2. ASSUME NEW j \in (items' \ held') \ new
          PROVE  Stays(j)
        <3>1. j \in items \ held /\ j \in Item \ new /\ \A q \in items : q \in Item \ new
            BY <1>1
        <3> QED BY <3>1 DEF Stays
    <2>3. \A j \in new : j \in items' \ held' => Entered(j)' \/ Lost(j)'
        BY <2>1
    <2> QED BY ONLY IInv, <2>2, <2>3, EnteredStay
<1> QED BY <1>9, <1>10, <1>11, <1>12, <1>13 DEF IInv

\* The elements of a created array are chained in order.
LEMMA CreateArrayKeeps ==
    ASSUME IInv, NEW count \in Nat \ {0}, NEW strings \in BOOLEAN,
           NEW at \in [0 .. count -> Item \ items], CreateArray(count, at, strings)
    PROVE  IInv'
<1> DEFINE new    == {at[n] : n \in 0 .. count}
           Pos(i) == CHOOSE n \in 0 .. count : at[n] = i
<1>1. new \in SUBSET (Item \ items) /\ \A m, n \in 0 .. count : at[m] = at[n] => m = n
    BY DEF CreateArray
<1>2. \A n \in 0 .. count : Pos(at[n]) = n /\ at[n] \in new
    BY <1>1
<1>3. /\ items' = items \cup new /\ held' = held \cup {at[0]}
      /\ next' = [i \in Item |-> IF i \in new /\ Pos(i) \in 1 .. count - 1
                                 THEN at[Pos(i) + 1] ELSE next[i]]
      /\ prev' = [i \in Item |-> IF i \in new /\ Pos(i) \in 2 .. count
                                 THEN at[Pos(i) - 1] ELSE prev[i]]
      /\ child' = [child EXCEPT ![at[0]] = at[1]]
      /\ label' = [i \in Item |-> IF i \in new \ {at[0]} /\ strings
                                  THEN [Blank EXCEPT !.value = i] ELSE label[i]]
      /\ buffers' = buffers + (IF strings THEN count ELSE 0)
    BY DEF CreateArray
<1>4. 0 \in 0 .. count /\ 1 \in 0 .. count /\ NULL \notin Item
    BY LinkFacts
<1>5. /\ \A j \in Item : child'[j] = IF j = at[0] THEN at[1] ELSE child[j]
      /\ \A j \in new : child[j] = NULL /\ next[j] = NULL /\ prev[j] = NULL /\ label[j] = Blank
    BY <1>1, <1>3 DEF IInv, ItemsTypeOK, Unallocated
<1>6. ASSUME NEW n \in 0 .. count
      PROVE  /\ next'[at[n]] = IF n \in 1 .. count - 1 THEN at[n + 1] ELSE NULL
             /\ prev'[at[n]] = IF n \in 2 .. count THEN at[n - 1] ELSE NULL
             /\ child'[at[n]] = IF n = 0 THEN at[1] ELSE NULL
             /\ ~label'[at[n]].ref
    <2>1. at[n] \in new /\ at[n] \in Item /\ Pos(at[n]) = n
        BY <1>1, <1>2
    <2>2. n = 0 <=> at[n] = at[0]
        BY <1>1, <1>4
    <2>3. /\ next'[at[n]] = IF n \in 1 .. count - 1 THEN at[n + 1] ELSE NULL
          /\ prev'[at[n]] = IF n \in 2 .. count THEN at[n - 1] ELSE NULL
        <3> HIDE DEF new, Pos
        <3> QED BY <1>3, <1>5, <2>1
    <2>4. child'[at[n]] = IF n = 0 THEN at[1] ELSE NULL
        BY <1>5, <2>1, <2>2
    <2>5. ~label'[at[n]].ref
        BY <1>3, <1>5, <2>1 DEF Blank
    <2> QED BY <2>3, <2>4, <2>5
<1>7. \A j \in new : \E n \in 0 .. count : j = at[n]
    OBVIOUS
<1>8. \A j \in Item \ new : next'[j] = next[j] /\ prev'[j] = prev[j] /\ child'[j] = child[j]
                            /\ label'[j] = label[j]
    <2>1. at[0] \in new
        BY <1>2, <1>4
    <2> HIDE DEF new, Pos
    <2> QED BY <1>3, <1>5, <2>1
<1>9. ItemsTypeOK'
    <2>1. label' \in [Item -> Label]
        <3>1. ASSUME NEW i \in Item PROVE [Blank EXCEPT !.value = i] \in Label
            BY DEF Blank, Label, Pointer
        <3>2. label \in [Item -> Label]
            BY DEF IInv, ItemsTypeOK
        <3> HIDE DEF new, Pos
        <3> QED BY <1>3, <3>1, <3>2
    <2>2. \A j \in Item : next'[j] \in Pointer /\ prev'[j] \in Pointer /\ child'[j] \in Pointer
        <3>1. ASSUME NEW j \in new
              PROVE  next'[j] \in Pointer /\ prev'[j] \in Pointer /\ child'[j] \in Pointer
            <4>1. PICK n \in 0 .. count : j = at[n]
                BY <1>7
            <4> QED BY <1>4, <1>6, <4>1 DEF Pointer
        <3>2. ASSUME NEW j \in Item \ new
              PROVE  next'[j] \in Pointer /\ prev'[j] \in Pointer /\ child'[j] \in Pointer
            BY <1>8 DEF IInv, ItemsTypeOK
        <3> HIDE DEF new, Pos
        <3> QED BY <3>1, <3>2
    <2>3. next' \in [Item -> Pointer] /\ prev' \in [Item -> Pointer] /\ child' \in [Item -> Pointer]
        <3>1. child' = [j \in Item |-> child'[j]]
            BY <1>3 DEF IInv, ItemsTypeOK
        <3> HIDE DEF new, Pos
        <3> QED BY <1>3, <2>2, <3>1
    <2>4. items' \subseteq Item /\ held' \subseteq items' /\ buffers' \in Int
        BY <1>1, <1>2, <1>3, <1>4 DEF IInv, ItemsTypeOK
    <2> QED BY <2>1, <2>3, <2>4 DEF ItemsTypeOK
<1>10. \A j \in new : {next'[j], prev'[j], child'[j]} \subseteq new \cup {NULL} /\ ~label'[j].ref
    <2> SUFFICES ASSUME NEW n \in 0 .. count
                 PROVE  {next'[at[n]], prev'[at[n]], child'[at[n]]} \subseteq new \cup {NULL}
                        /\ ~label'[at[n]].ref
        BY <1>7
    <2>1. next'[at[n]] \in new \cup {NULL}
        <3>1. n \in 1 .. count - 1 => n + 1 \in 0 .. count
            OBVIOUS
        <3> QED BY <1>2, <1>6, <3>1
    <2>2. prev'[at[n]] \in new \cup {NULL}
        <3>1. n \in 2 .. count => n - 1 \in 0 .. count
            OBVIOUS
        <3> QED BY <1>2, <1>6, <3>1
    <2>3. child'[at[n]] \in new \cup {NULL}
        BY <1>2, <1>4, <1>6
    <2> QED BY <1>6, <2>1, <2>2, <2>3
<1>11. \A j, k \in new : next'[j] = k <=> prev'[k] = j
    <2> SUFFICES ASSUME NEW m \in 0 .. count, NEW n \in 0 .. count
                 PROVE  next'[at[m]] = at[n] <=> prev'[at[n]] = at[m]
        BY <1>7
    <2>1. at[m] # NULL /\ at[n] # NULL
        BY <1>4
    <2>2. next'[at[m]] = at[n] <=> m \in 1 .. count - 1 /\ n = m + 1
        BY <1>1, <1>6, <2>1
    <2>3. prev'[at[n]] = at[m] <=> n \in 2 .. count /\ m = n - 1
        BY <1>1, <1>6, <2>1
    <2> QED BY <2>2, <2>3
<1>12. \A j \in new : child'[j] # NULL => j = at[0] /\ child'[j] = at[1]
    BY <1>6, <1>7
<1>13. prev'[at[1]] = NULL
    BY <1>4, <1>6
<1>14. ASSUME NEW S \in (SUBSET new) \ {{}}
       PROVE  \E y \in S : prev'[y] \notin S /\ \A p \in S : child'[p] # y
    <2> DEFINE N == {n \in 0 .. count : at[n] \in S}
    <2>1. N \in SUBSET Nat /\ N # {}
        BY <1>7
    <2>2. PICK n \in N : \A m \in N : n <= m
        <3> HIDE DEF N
        <3> QED BY <2>1, LeastNumber
    <2>3. n \in 0 .. count /\ at[n] \in S
        BY <2>2
    <2>4. prev'[at[n]] \notin S
        <3>1. CASE n \in 2 .. count
            <4>1. n - 1 \in 0 .. count /\ prev'[at[n]] = at[n - 1] /\ n - 1 \notin N
                BY <1>6, <2>2, <3>1
            <4> QED BY <4>1
        <3>2. CASE n \notin 2 .. count
            <4>1. NULL \notin S
                BY <1>1, <1>4
            <4> QED BY <1>6, <2>3, <3>2, <4>1
        <3> QED BY <3>1, <3>2
    <2>5. ASSUME NEW p \in S, child'[p] = at[n] PROVE FALSE
        <3>1. p = at[0] /\ at[n] = at[1]
            BY <1>1, <1>4, <1>12, <2>3, <2>5
        <3>2. 0 \in N /\ n = 1
            BY <1>1, <1>4, <2>3, <3>1
        <3> QED BY <2>2, <3>2
    <2> QED BY <2>3, <2>4, <2>5
<1>15. ASSUME NEW h \in held' \cap new PROVE Root(h)'
    <2>1. h = at[0]
        BY <1>1, <1>3 DEF IInv, ItemsTypeOK
    <2>2. next'[h] = NULL /\ prev'[h] = NULL
        BY <1>4, <1>6, <2>1
    <2>3. at[0] # at[1] /\ at[0] # NULL
        BY <1>1, <1>4
    <2>4. ASSUME NEW q \in items', child'[q] = h PROVE FALSE
        <3>1. CASE q \in new
            BY <1>12, <2>1, <2>3, <2>4, <3>1
        <3>2. CASE q \notin new
            <4>1. q \in items /\ q \in Item /\ child[q] = h
                BY <1>3, <1>8, <2>4, <3>2, LinkFacts
            <4>2. h \in items
                BY <2>1, <2>3, <4>1, LinkFacts
            <4> QED BY <1>1, <4>2
        <3> QED BY <3>1, <3>2
    <2> QED BY <2>2, <2>4 DEF Root
<1>16. /\ \A j \in new : child'[j] # NULL => prev'[child'[j]] = NULL
       /\ \A j, k \in new : child'[j] = child'[k] /\ child'[j] # NULL => j = k
    BY <1>12, <1>13
<1>17. at[0] \in new
    BY <1>2, <1>4
<1>18. /\ new \in SUBSET (Item \ items) /\ items' = items \cup new
       /\ held \subseteq held' /\ held' \subseteq held \cup new
    BY <1>1, <1>3, <1>17
<1>19. ASSUME NEW j \in new \ held'
       PROVE  prev'[j] # NULL \/ \E k \in new : child'[k] = j
    <2>1. PICK n \in 0 .. count : j = at[n]
        BY <1>7
    <2>2. n # 0
        BY <1>3, <1>19, <2>1
    <2>3. CASE n = 1
        BY <1>4, <1>6, <1>17, <2>1, <2>3
    <2>4. CASE n \in 2 .. count
        <3>1. prev'[j] = at[n - 1] /\ n - 1 \in 0 .. count
            BY <1>6, <2>1, <2>4
        <3> QED BY <1>4, <3>1
    <2> QED BY <2>2, <2>3, <2>4
<1> HIDE DEF new, Pos
<1> QED BY <1>8, <1>9, <1>10, <1>11, <1>14, <1>15, <1>16, <1>18, <1>19, AllocateKeeps

\* A set that cJSON_Duplicate does not leave holds all that it copies.
LEMMA BelowLeast ==
    ASSUME NEW i \in Item, NEW S \in SUBSET Item, i \in S,
           \A y \in S : child[y] \in S \cup {NULL},
           \A y \in S \ {i} : next[y] \in S \cup {NULL}
    PROVE  Below(i) \subseteq S
BY DEF Below, Closure

\* cJSON_Duplicate follows child, of references as well, and next.
LEMMA BelowClosed ==
    ASSUME IInv, NEW i \in items
    PROVE  /\ i \in Below(i)
           /\ Below(i) \subseteq items
           /\ \A y \in Below(i) : child[y] \in Below(i) \cup {NULL}
           /\ \A y \in Below(i) \ {i} : next[y] \in Below(i) \cup {NULL}
<1>1. i \in Item
    BY LinkFacts
<1>2. i \in Below(i)
    BY <1>1 DEF Below, Closure
<1>3. Below(i) \subseteq items
    BY <1>1, BelowLeast, LinkFacts
<1>4. \A y \in Below(i) : child[y] \in Below(i) \cup {NULL}
    BY <1>3, LinkFacts DEF Below, Closure
<1>5. \A y \in Below(i) \ {i} : next[y] \in Below(i) \cup {NULL}
    BY <1>3, LinkFacts DEF Below, Closure
<1> QED BY <1>2, <1>3, <1>4, <1>5

\* What cJSON_Duplicate copies besides i it comes to from an item that it copies.
LEMMA BelowEntered ==
    ASSUME IInv, NEW i \in items, NEW z \in Below(i), z # i
    PROVE  \E y \in Below(i) : child[y] = z \/ (y # i /\ next[y] = z)
<1> SUFFICES ASSUME \A y \in Below(i) : child[y] # z /\ (y = i \/ next[y] # z)
             PROVE  FALSE
    OBVIOUS
<1> DEFINE S == Below(i) \ {z}
<1>1. S \in SUBSET Item /\ i \in S /\ i \in Item
    BY BelowClosed, LinkFacts
<1>2. \A y \in S : child[y] \in S \cup {NULL}
    BY BelowClosed
<1>3. \A y \in S \ {i} : next[y] \in S \cup {NULL}
    BY BelowClosed
<1>4. Below(i) \subseteq S
    <2> HIDE DEF S
    <2> QED BY <1>1, <1>2, <1>3, BelowLeast
<1> QED BY <1>4

\* What cJSON_Duplicate comes to when nothing is reached twice has no cycle,
\* the lists that references borrow included.
LEMMA BelowAcyclic ==
    ASSUME IInv, NEW i \in items, IsTree(i), NEW S \in (SUBSET Below(i)) \ {{}}
    PROVE  \E y \in S : y = i \/ \A x \in S : child[x] # y /\ (x = i \/ next[x] # y)
<1> SUFFICES ASSUME \A y \in S : y # i /\ \E x \in S : child[x] = y \/ (x # i /\ next[x] = y)
             PROVE  FALSE
    OBVIOUS
<1> DEFINE R == Below(i) \ S
<1>1. /\ Below(i) \subseteq items /\ items \subseteq Item /\ NULL \notin items /\ i \in R /\ i \in Item
    BY BelowClosed, LinkFacts
<1>2. ASSUME NEW z \in R, NEW y \in S
      PROVE  child[z] # y /\ (z = i \/ next[z] # y)
    <2>1. PICK x \in S : child[x] = y \/ (x # i /\ next[x] = y)
        OBVIOUS
    <2>2. x # z /\ x \in Below(i) /\ z \in Below(i) /\ y # NULL /\ x \in Item /\ z \in Item /\ y \in Item
        BY <1>1
    <2>3. CASE child[z] = y
        <3>1. child[x] # y
            BY <2>2, <2>3 DEF IsTree
        <3> QED BY <2>1, <2>2, <2>3, <3>1 DEF IsTree
    <2>4. CASE z # i /\ next[z] = y
        <3>1. child[x] # y
            BY <2>2, <2>4 DEF IsTree
        <3> QED BY <2>1, <2>2, <2>4, <3>1, LinkFacts
    <2> QED BY <2>3, <2>4
<1>3. \A z \in R : child[z] \in R \cup {NULL}
    BY <1>2, BelowClosed
<1>4. \A z \in R \ {i} : next[z] \in R \cup {NULL}
    BY <1>2, BelowClosed
<1>5. R \in SUBSET Item /\ i \in R
    BY <1>1
<1>6. Below(i) \subseteq R
    <2> HIDE DEF R
    <2> QED BY <1>1, <1>3, <1>4, <1>5, BelowLeast
<1> QED BY <1>6

\* The copies are linked as what they were made of, except for the first.
LEMMA DuplicateKeeps ==
    ASSUME IInv, NEW i \in items, NEW recurse \in BOOLEAN,
           NEW copy \in [IF recurse THEN Below(i) ELSE {i} -> Item \ items], Duplicate(i, recurse, copy)
    PROVE  IInv'
<1> DEFINE T        == IF recurse THEN Below(i) ELSE {i}
           Orig(j)  == CHOOSE y \in T : copy[y] = j
           Image(x) == IF x \in T \ {i} THEN copy[x] ELSE NULL
           new      == {copy[y] : y \in T}
<1>1. /\ T \subseteq items /\ i \in T /\ items \subseteq Item /\ NULL \notin Item
      /\ copy \in [T -> Item \ items] /\ \A x, y \in T : copy[x] = copy[y] => x = y
      /\ new \in SUBSET (Item \ items)
    <2>1. T \subseteq items /\ i \in T
        <3>1. CASE recurse
            BY <3>1, BelowClosed
        <3>2. CASE ~recurse
            BY <3>2
        <3> QED BY <3>1, <3>2
    <2>2. copy \in [T -> Item \ items]
        OBVIOUS
    <2>3. \A x, y \in T : copy[x] = copy[y] => x = y
        BY Zenon DEF Duplicate
    <2> HIDE DEF T
    <2>4. new \in SUBSET (Item \ items)
        BY <2>2
    <2> QED BY <2>1, <2>2, <2>3, <2>4, LinkFacts
<1>2. \A y \in T : Orig(copy[y]) = y /\ copy[y] \in new
    BY <1>1
<1>3. /\ items' = items \cup new /\ held' = held \cup {copy[i]}
      /\ next' = [j \in Item |-> IF j \in new /\ Orig(j) # i THEN Image(next[Orig(j)]) ELSE next[j]]
      /\ prev' = [j \in Item |-> IF j \in new /\ Orig(j) # i THEN Image(prev[Orig(j)]) ELSE prev[j]]
      /\ child' = [j \in Item |-> IF j \in new THEN Image(child[Orig(j)]) ELSE child[j]]
      /\ label' = [j \in Item |->
                     IF j \notin new THEN label[j]
                     ELSE [label[Orig(j)] EXCEPT !.ref = FALSE,
                                                 !.value = IF @ = NULL THEN NULL ELSE j]]
      /\ buffers' = buffers + Cardinality({y \in T : OwnsName(label[y])})
                            + Cardinality({y \in T : label[y].value # NULL})
    BY DEF Duplicate
<1>4. \A j \in new : \E y \in T : j = copy[y]
    OBVIOUS
<1>5. ASSUME NEW x \in T \ {i}
      PROVE  /\ \A y, z \in T : child[y] = x /\ child[z] = x => y = z
             /\ \A y, z \in T : y # i /\ next[y] = x => child[z] # x
    <2>1. x # NULL
        BY <1>1
    <2>2. CASE recurse
        <3>1. IsTree(i) /\ T = Below(i)
            BY <2>2 DEF Duplicate
        <3> HIDE DEF T
        <3> QED BY <2>1, <3>1 DEF IsTree
    <2>3. CASE ~recurse
        <3>1. T = {i}
            BY <2>3
        <3> HIDE DEF T
        <3> QED BY <3>1
    <2> QED BY <2>2, <2>3
<1>6. ASSUME NEW S \in (SUBSET T) \ {{}}
      PROVE  \E y \in S : y = i \/ \A x \in S : child[x] # y /\ (x = i \/ next[x] # y)
    <2>1. CASE recurse
        BY <2>1, BelowAcyclic DEF Duplicate
    <2>2. CASE ~recurse
        BY <2>2
    <2> QED BY <2>1, <2>2
<1>7. \A x : Image(x) \in new \cup {NULL}
    BY <1>2
<1>8. \A x, y \in T : Image(y) = copy[x] <=> x = y /\ y # i
    BY <1>1
<1>9. \A x : \A y \in T : Image(x) = copy[y] <=> x = y /\ y # i
    BY <1>1
<1> HIDE DEF T, Image, Orig, new
<1>10. ASSUME NEW y \in T
       PROVE  /\ next'[copy[y]] = IF y = i THEN NULL ELSE Image(next[y])
              /\ prev'[copy[y]] = IF y = i THEN NULL ELSE Image(prev[y])
              /\ child'[copy[y]] = Image(child[y])
              /\ ~label'[copy[y]].ref
    <2>1. copy[y] \in new /\ copy[y] \in Item \ items /\ Orig(copy[y]) = y
        BY <1>1, <1>2
    <2>2. next[copy[y]] = NULL /\ prev[copy[y]] = NULL
        BY <2>1 DEF IInv, Unallocated
    <2>3. label[y] \in Label
        BY <1>1 DEF IInv, ItemsTypeOK
    <2>4. ~label'[copy[y]].ref
        BY <1>3, <2>1, <2>3 DEF Label
    <2> QED BY <1>3, <2>1, <2>2, <2>4
<1>11. \A j \in Item \ new : next'[j] = next[j] /\ prev'[j] = prev[j] /\ child'[j] = child[j]
                             /\ label'[j] = label[j]
    BY <1>3
<1>12. \A j \in new : {next'[j], prev'[j], child'[j]} \subseteq new \cup {NULL} /\ ~label'[j].ref
    BY <1>4, <1>7, <1>10
<1>13. ItemsTypeOK'
    <2>1. label' \in [Item -> Label]
        <3>1. ASSUME NEW l \in Label, NEW j \in Item
              PROVE  [l EXCEPT !.ref = FALSE, !.value = IF @ = NULL THEN NULL ELSE j] \in Label
            BY DEF Label, Pointer
        <3>2. \A j \in new : Orig(j) \in T
            BY <1>2, <1>4
        <3>3. label \in [Item -> Label]
            BY DEF IInv, ItemsTypeOK
        <3> QED BY <1>1, <1>3, <3>1, <3>2, <3>3
    <2>2. \A j \in Item : next'[j] \in Pointer /\ prev'[j] \in Pointer /\ child'[j] \in Pointer
        <3>1. \A j \in new : next'[j] \in Pointer /\ prev'[j] \in Pointer /\ child'[j] \in Pointer
            BY <1>1, <1>12 DEF Pointer
        <3>2. \A j \in Item \ new : next'[j] \in Pointer /\ prev'[j] \in Pointer /\ child'[j] \in Pointer
            BY <1>11 DEF IInv, ItemsTypeOK
        <3> QED BY <3>1, <3>2
    <2>3. next' \in [Item -> Pointer] /\ prev' \in [Item -> Pointer] /\ child' \in [Item -> Pointer]
        BY <1>3, <2>2
    <2>4. items' \subseteq Item /\ held' \subseteq items'
        <3>1. held \subseteq items
            BY DEF IInv, ItemsTypeOK
        <3>2. copy[i] \in new
            BY <1>1, <1>2
        <3>3. items' = items \cup new /\ held' = held \cup {copy[i]}
            BY <1>3
        <3> QED BY <1>1, <3>1, <3>2, <3>3
    <2>5. buffers' \in Int
        <3>1. \A U \in SUBSET Item : Cardinality(U) \in Nat
            BY FS_Subset, FS_CardinalityType, ItemAssumption
        <3>2. {y \in T : OwnsName(label[y])} \in SUBSET Item /\ {y \in T : label[y].value # NULL} \in SUBSET Item
            BY <1>1
        <3>3. Cardinality({y \in T : OwnsName(label[y])}) \in Nat
              /\ Cardinality({y \in T : label[y].value # NULL}) \in Nat
            BY <3>1, <3>2
        <3>4. buffers \in Int
            BY DEF IInv, ItemsTypeOK
        <3>5. ASSUME NEW m \in Nat, NEW n \in Nat PROVE buffers + m + n \in Int
            BY <3>4
        <3> QED BY <1>3, <3>3, <3>5
    <2> QED BY <2>1, <2>3, <2>4, <2>5 DEF ItemsTypeOK
<1>14. \A j, k \in new : next'[j] = k <=> prev'[k] = j
    <2> SUFFICES ASSUME NEW x \in T, NEW y \in T
                 PROVE  next'[copy[x]] = copy[y] <=> prev'[copy[y]] = copy[x]
        BY <1>4
    <2>1. copy[x] # NULL /\ copy[y] # NULL /\ x \in Item /\ y \in Item
        BY <1>1
    <2>2. next'[copy[x]] = copy[y] <=> x # i /\ y # i /\ next[x] = y
        BY <1>9, <1>10, <2>1
    <2>3. prev'[copy[y]] = copy[x] <=> x # i /\ y # i /\ prev[y] = x
        BY <1>9, <1>10, <2>1
    <2> QED BY <2>1, <2>2, <2>3, LinkFacts
<1>15. ASSUME NEW y \in T, child'[copy[y]] # NULL
       PROVE  child[y] \in T \ {i} /\ child'[copy[y]] = copy[child[y]]
    BY <1>10, <1>15 DEF Image
<1>16. \A j \in new : child'[j] # NULL => prev'[child'[j]] = NULL
    <2> SUFFICES ASSUME NEW y \in T, child'[copy[y]] # NULL
                 PROVE  prev'[copy[child[y]]] = NULL
        BY <1>4, <1>15
    <2>1. child[y] \in T \ {i}
        BY <1>15
    <2>2. prev[child[y]] \notin T \ {i}
        <3>1. SUFFICES ASSUME prev[child[y]] \in T \ {i} PROVE FALSE
            OBVIOUS
        <3>2. next[prev[child[y]]] = child[y]
            BY <1>1, <2>1, <3>1, LinkFacts
        <3> QED BY <1>5, <2>1, <3>1, <3>2
    <2> QED BY <1>10, <2>1, <2>2 DEF Image
<1>17. \A j, k \in new : child'[j] = child'[k] /\ child'[j] # NULL => j = k
    <2> SUFFICES ASSUME NEW x \in T, NEW y \in T, child'[copy[x]] = child'[copy[y]], child'[copy[x]] # NULL
                 PROVE  x = y
        BY <1>4
    <2>1. child[x] \in T \ {i} /\ child[y] = child[x]
        BY <1>1, <1>15
    <2> QED BY <1>5, <2>1
<1>18. ASSUME NEW S \in (SUBSET new) \ {{}}
       PROVE  \E y \in S : prev'[y] \notin S /\ \A p \in S : child'[p] # y
    <2> DEFINE O == {y \in T : copy[y] \in S}
    <2>1. O \in (SUBSET T) \ {{}}
        BY <1>4
    <2>2. PICK y \in O : y = i \/ \A x \in O : child[x] # y /\ (x = i \/ next[x] # y)
        <3> HIDE DEF O
        <3> QED BY <1>6, <2>1
    <2>3. y \in T /\ copy[y] \in S /\ copy[y] # NULL /\ NULL \notin S
        BY <1>1
    <2>4. ASSUME NEW x \in T, copy[x] \in S, prev'[copy[y]] = copy[x] PROVE FALSE
        <3>1. prev[y] = x /\ x # i /\ y # i /\ x \in O
            BY <1>1, <1>9, <1>10, <2>3, <2>4
        <3>2. next[x] = y
            BY <1>1, <2>3, <3>1, LinkFacts
        <3> QED BY <2>2, <3>1, <3>2
    <2>5. ASSUME NEW x \in T, copy[x] \in S, child'[copy[x]] = copy[y] PROVE FALSE
        <3>1. child[x] = y /\ y # i /\ x \in O
            BY <1>9, <1>10, <2>3, <2>5
        <3> QED BY <2>2, <3>1
    <2>6. \A j \in S : \E x \in T : j = copy[x]
        BY <1>4
    <2> QED BY <2>3, <2>4, <2>5, <2>6
<1>19. ASSUME NEW h \in held' \cap new PROVE Root(h)'
    <2>1. h = copy[i]
        BY <1>1, <1>3 DEF IInv, ItemsTypeOK
    <2>2. next'[h] = NULL /\ prev'[h] = NULL
        BY <1>1, <1>10, <2>1
    <2>3. ASSUME NEW q \in items', child'[q] = h PROVE FALSE
        <3>1. CASE q \in new
            <4>1. PICK y \in T : q = copy[y]
                BY <1>4, <3>1
            <4> QED BY <1>1, <1>9, <1>10, <2>1, <2>3, <4>1
        <3>2. CASE q \notin new
            <4>1. q \in items /\ q \in Item /\ child[q] = h
                BY <1>1, <1>3, <1>11, <2>3, <3>2
            <4>2. h \in items
                BY <1>1, <2>1, <4>1, LinkFacts
            <4> QED BY <1>1, <4>2
        <3> QED BY <3>1, <3>2
    <2> QED BY <2>2, <2>3 DEF Root
<1>20. /\ held \subseteq held' /\ held' \subseteq held \cup new
       /\ items' = items \cup new /\ new \in SUBSET (Item \ items)
    BY <1>1, <1>2, <1>3
<1>21. ASSUME NEW j \in new \ held'
       PROVE  prev'[j] # NULL \/ \E k \in new : child'[k] = j
    <2>1. PICK y \in T : j = copy[y]
        BY <1>4
    <2>2. y # i
        BY <1>3, <1>21, <2>1
    <2>3. PICK z \in T : child[z] = y \/ (z # i /\ next[z] = y)
        <3>1. CASE recurse
            BY <2>2, <3>1, BelowEntered DEF T
        <3>2. CASE ~recurse
            BY <2>2, <3>2 DEF T
        <3> QED BY <3>1, <3>2
    <2>4. CASE child[z] = y
        BY <1>2, <1>9, <1>10, <2>1, <2>2, <2>4
    <2>5. CASE z # i /\ next[z] = y
        <3>1. prev[y] = z
            BY <1>1, <2>5, LinkFacts
        <3>2. prev'[j] = copy[z]
            BY <1>9, <1>10, <2>1, <2>2, <2>5, <3>1
        <3> QED BY <1>1, <3>2
    <2> QED BY <2>3, <2>4, <2>5
<1> QED BY <1>11, <1>12, <1>13, <1>14, <1>16, <1>17, <1>18, <1>19, <1>20, <1>21, AllocateKeeps
-----------------------------------------------------------------------------
(* The calls of the API.                                                   *)

\* The buffers of a set of items are a number.
LEMMA BuffersWhole ==
    ASSUME NEW S \in SUBSET Item
    PROVE  BuffersOf(S) \in Int
<1>1. \A U \in SUBSET Item : Cardinality(U) \in Nat
    BY FS_Subset, FS_CardinalityType, ItemAssumption
<1>2. Cardinality({i \in S : OwnsName(label[i])}) \in Nat
      /\ Cardinality({i \in S : OwnsValue(label[i])}) \in Nat
    BY <1>1
<1> QED BY <1>2 DEF BuffersOf

\* The types of what the calls store in an item's label.
LEMMA LabelFacts ==
    ASSUME IInv, NEW i \in Item
    PROVE  /\ label \in [Item -> Label] /\ label[i] \in Label /\ Blank \in Label
           /\ \A l \in Label : [label EXCEPT ![i] = l] \in [Item -> Label]
           /\ \A l \in Label, v \in Pointer : [l EXCEPT !.value = v] \in Label
                                              /\ [l EXCEPT !.value = v].ref = l.ref
           /\ \A l \in Label, s \in Key \cup {NULL}, c \in BOOLEAN :
                  [l EXCEPT !.string = s, !.const = c] \in Label
                  /\ [l EXCEPT !.string = s, !.const = c].ref = l.ref
           /\ \A l \in Label : [l EXCEPT !.ref = TRUE, !.string = NULL] \in Label
                               /\ [l EXCEPT !.ref = TRUE, !.string = NULL].ref
           /\ \A l \in Label, v \in Pointer : [l EXCEPT !.ref = TRUE, !.value = v] \in Label
                                              /\ [l EXCEPT !.ref = TRUE, !.value = v].ref
<1>1. label \in [Item -> Label] /\ label[i] \in Label
    BY DEF IInv, ItemsTypeOK
<1>2. Blank \in Label
    BY DEF Blank, Label, Pointer
<1>3. ASSUME NEW l \in Label, NEW v \in Pointer
      PROVE  /\ [l EXCEPT !.value = v] \in Label
             /\ [l EXCEPT !.value = v].ref = l.ref
             /\ [l EXCEPT !.ref = TRUE, !.value = v] \in Label
             /\ [l EXCEPT !.ref = TRUE, !.value = v].ref
    BY DEF Label
<1>4. ASSUME NEW l \in Label, NEW s \in Key \cup {NULL}, NEW c \in BOOLEAN
      PROVE  /\ [l EXCEPT !.string = s, !.const = c] \in Label
             /\ [l EXCEPT !.string = s, !.const = c].ref = l.ref
    BY DEF Label
<1>5. ASSUME NEW l \in Label
      PROVE  /\ [l EXCEPT !.ref = TRUE, !.string = NULL] \in Label
             /\ [l EXCEPT !.ref = TRUE, !.string = NULL].ref
    BY DEF Label
<1> QED BY <1>1, <1>2, <1>3, <1>4, <1>5

\* cJSON_CreateNull ... cJSON_CreateObject, cJSON_CreateString.
LEMMA CreateKeeps ==
    ASSUME IInv, NEW i \in Item \ items, NEW value \in BOOLEAN, Create(i, value)
    PROVE  IInv'
<1>1. i \in Pointer /\ NULL \in Pointer /\ label[i] \in Label /\ label \in [Item -> Label]
    BY LabelFacts DEF Pointer
<1>2. label' = [label EXCEPT ![i] = [label[i] EXCEPT !.value = IF value THEN i ELSE NULL]]
    BY DEF Create
<1>3. label' \in [Item -> Label] /\ \A j \in Item \ {i} : label'[j] = label[j]
    BY <1>1, <1>2, LabelFacts
<1>4. child[i] = NULL
    BY LinkFacts
<1>5. ItemsTypeOK'
    BY <1>3 DEF IInv, ItemsTypeOK, Create, One, linkVars
<1> QED BY <1>3, <1>4, <1>5, NewRootKeeps DEF Create, linkVars

\* cJSON_CreateArrayReference, cJSON_CreateObjectReference.
LEMMA CreateReferenceKeeps ==
    ASSUME IInv, NEW i \in Item \ items, NEW first \in items, CreateReference(i, first)
    PROVE  IInv'
<1>1. label[i] \in Label /\ label \in [Item -> Label] /\ first \in Pointer /\ items \subseteq Item
    BY LabelFacts, LinkFacts DEF Pointer
<1>2. [label[i] EXCEPT !.ref = TRUE] \in Label /\ [label[i] EXCEPT !.ref = TRUE].ref
    BY <1>1 DEF Label
<1>3. label' = [label EXCEPT ![i] = [label[i] EXCEPT !.ref = TRUE]]
    BY DEF CreateReference
<1>4. label' \in [Item -> Label] /\ label'[i].ref /\ \A j \in Item \ {i} : label'[j] = label[j]
    BY <1>1, <1>2, <1>3, LabelFacts
<1>5. child' \in [Item -> Pointer] /\ child'[i] = first /\ \A j \in Item \ {i} : child'[j] = child[j]
    BY <1>1 DEF IInv, ItemsTypeOK, CreateReference
<1>6. ItemsTypeOK'
    BY <1>4, <1>5 DEF IInv, ItemsTypeOK, CreateReference
<1> QED BY <1>4, <1>5, <1>6, NewRootKeeps DEF CreateReference

\* cJSON_CreateStringReference.
LEMMA CreateStringReferenceKeeps ==
    ASSUME IInv, NEW i \in Item \ items, NEW from \in items, CreateStringReference(i, from)
    PROVE  IInv'
<1>1. label[i] \in Label /\ label \in [Item -> Label] /\ items \subseteq Item
    BY LabelFacts, LinkFacts
<1>2. label[from].value \in Pointer
    BY <1>1 DEF Label
<1>3. label' = [label EXCEPT ![i] = [label[i] EXCEPT !.ref = TRUE, !.value = label[from].value]]
    BY <1>1 DEF CreateStringReference
<1>4. label' \in [Item -> Label] /\ \A j \in Item \ {i} : label'[j] = label[j]
    BY <1>1, <1>2, <1>3, LabelFacts
<1>5. child[i] = NULL
    BY LinkFacts
<1>6. ItemsTypeOK'
    BY <1>4 DEF IInv, ItemsTypeOK, CreateStringReference, linkVars
<1> QED BY <1>4, <1>5, <1>6, NewRootKeeps DEF CreateStringReference, linkVars

\* add_item_to_array stores pointers.
LEMMA AddedTypes ==
    ASSUME IInv, NEW i \in Item, NEW p \in items, NEW first \in items \cup {NULL},
           add_item_to_array(p, i, first)
    PROVE  next' \in [Item -> Pointer] /\ prev' \in [Item -> Pointer] /\ child' \in [Item -> Pointer]
<1>1. i \in Pointer /\ first \in Pointer
    BY LinkFacts DEF Pointer
<1>2. \A y \in Children(p) : y \in Pointer
    BY ChildrenEntered, LinkFacts DEF Pointer
<1>3. next \in [Item -> Pointer] /\ prev \in [Item -> Pointer] /\ child \in [Item -> Pointer]
    BY DEF IInv, ItemsTypeOK
<1> QED BY <1>1, <1>2, <1>3 DEF add_item_to_array

\* A call that allocates r and adds it: what AddKeeps asks for.
LEMMA AddNewKeeps ==
    ASSUME IInv, NEW r \in Item \ items, NEW p \in Places(r), NEW first \in items \cup {NULL},
           NEW l \in Label, add_item_to_array(p, r, first), first = NULL \/ l.ref,
           items' = items \cup {r}, held' = held, label' = [label EXCEPT ![r] = l], buffers' \in Int
    PROVE  IInv'
<1>1. label' \in [Item -> Label] /\ label'[r] = l /\ \A j \in Item \ {r} : label'[j] = label[j]
    BY LabelFacts
<1>2. ItemsTypeOK'
    <2>1. p \in items
        BY DEF Places
    <2> QED BY <1>1, <2>1, AddedTypes DEF IInv, ItemsTypeOK
<1>3. \A j \in Item \ items' : label'[j] = Blank
    BY <1>1 DEF IInv, Unallocated
<1>4. held' \subseteq held \ {r} /\ Root(r)
    BY LinkFacts DEF IInv, ItemsTypeOK
<1> QED BY <1>1, <1>2, <1>3, <1>4, AddKeeps DEF Places

\* A call that adds an item the caller held, under a new name or its old one.
LEMMA AddHeldKeeps ==
    ASSUME IInv, NEW i \in held, NEW p \in Places(i), NEW l \in Label, l.ref = label[i].ref,
           add_item_to_array(p, i, child[i]), label' = [label EXCEPT ![i] = l],
           held' = held \ {i}, items' = items, buffers' \in Int
    PROVE  IInv'
<1>1. i \in items /\ i \in Item /\ Root(i) /\ child[i] \in items \cup {NULL}
    BY LinkFacts DEF IInv, ItemsTypeOK, HeldAreRoots
<1>2. label' \in [Item -> Label] /\ label'[i] = l /\ \A j \in Item \ {i} : label'[j] = label[j]
    BY <1>1, LabelFacts
<1>3. ItemsTypeOK'
    <2>1. p \in items
        BY DEF Places
    <2> QED BY <1>1, <1>2, <2>1, AddedTypes DEF IInv, ItemsTypeOK
<1>4. \A j \in Item \ items' : label'[j] = Blank
    BY <1>1, <1>2 DEF IInv, Unallocated
<1>5. items' = items \cup {i}
    BY <1>1
<1> QED BY <1>1, <1>2, <1>3, <1>4, <1>5, AddKeeps DEF Places

\* cJSON_Add...ToObject and cJSON_AddItemReferenceTo...
LEMMA AddNewNextKeeps ==
    ASSUME IInv, AddNewNext
    PROVE  IInv'
<1> PICK r \in Item \ items : \E p \in Places(r) :
        \/ \E name \in Key, value \in BOOLEAN : AddNewToObject(p, name, r, value)
        \/ \E i \in items : AddItemReferenceToArray(p, i, r)
        \/ \E i \in items, name \in Key : AddItemReferenceToObject(p, name, i, r)
    BY Zenon DEF AddNewNext
<1> PICK p \in Places(r) :
        \/ \E name \in Key, value \in BOOLEAN : AddNewToObject(p, name, r, value)
        \/ \E i \in items : AddItemReferenceToArray(p, i, r)
        \/ \E i \in items, name \in Key : AddItemReferenceToObject(p, name, i, r)
    BY Zenon
<1>1. r \in Item /\ r \in Pointer /\ NULL \in Pointer /\ label[r] \in Label /\ buffers \in Int
      /\ label \in [Item -> Label]
    BY LabelFacts DEF Pointer, IInv, ItemsTypeOK
<1>2. \A i \in items : i \in Item /\ label[i] \in Label /\ child[i] \in items \cup {NULL}
    BY <1>1, LinkFacts
<1>3. ASSUME NEW name \in Key, NEW value \in BOOLEAN, AddNewToObject(p, name, r, value)
      PROVE  IInv'
    <2> DEFINE l == [label[r] EXCEPT !.string = name, !.value = IF value THEN r ELSE NULL]
    <2>1. l \in Label
        BY <1>1 DEF Label
    <2>2. label' = [label EXCEPT ![r] = l]
        BY <1>1, <1>3 DEF AddNewToObject
    <2>3. buffers' \in Int
        <3>1. buffers' = buffers + 1 + One(value)
            BY <1>3 DEF AddNewToObject
        <3>2. One(value) \in Int /\ buffers \in Int
            BY <1>1 DEF One
        <3> QED BY <3>1, <3>2
    <2>4. add_item_to_array(p, r, NULL) /\ items' = items \cup {r} /\ held' = held
        BY <1>3 DEF AddNewToObject
    <2> HIDE DEF l
    <2> QED BY <2>1, <2>2, <2>3, <2>4, AddNewKeeps
<1>4. ASSUME NEW i \in items
      PROVE  create_reference(i) \in Label /\ create_reference(i).ref
    BY <1>2, LabelFacts DEF create_reference
<1>5. ASSUME NEW i \in items, AddItemReferenceToArray(p, i, r)
      PROVE  IInv'
    <2>1. buffers' = buffers /\ held' = held /\ items' = items \cup {r}
          /\ label' = [label EXCEPT ![r] = create_reference(i)]
        BY <1>5 DEF AddItemReferenceToArray
    <2>2. add_item_to_array(p, r, child[i])
        BY <1>5 DEF AddItemReferenceToArray
    <2> QED BY <1>1, <1>2, <1>4, <2>1, <2>2, AddNewKeeps
<1>6. ASSUME NEW i \in items, NEW name \in Key, AddItemReferenceToObject(p, name, i, r)
      PROVE  IInv'
    <2> DEFINE l == [create_reference(i) EXCEPT !.string = name, !.const = FALSE]
    <2>1. l \in Label /\ l.ref
        <3>1. create_reference(i) \in Label /\ create_reference(i).ref
            BY <1>4
        <3> QED BY <3>1 DEF Label
    <2>2. CASE label' = [label EXCEPT ![r] = l] /\ buffers' = buffers + 1
               /\ add_item_to_array(p, r, child[i])
        <3>1. buffers' \in Int
            <4>1. buffers \in Int /\ buffers' = buffers + 1
                BY <1>1, <2>2
            <4> QED BY <4>1
        <3>2. items' = items \cup {r} /\ held' = held
            BY <1>6 DEF AddItemReferenceToObject
        <3> HIDE DEF l
        <3> QED BY <1>2, <2>1, <2>2, <3>1, <3>2, AddNewKeeps
    <2>3. CASE label' = [label EXCEPT ![r] = create_reference(i)] /\ child' = [child EXCEPT ![r] = child[i]]
               /\ UNCHANGED <<next, prev, buffers>>
        <3>1. label' \in [Item -> Label] /\ label'[r].ref /\ \A j \in Item \ {r} : label'[j] = label[j]
            BY <1>1, <1>4, <2>3, LabelFacts
        <3>2. child' \in [Item -> Pointer] /\ child'[r] = child[i]
              /\ \A j \in Item \ {r} : child'[j] = child[j]
            BY <1>1, <1>2, <2>3 DEF IInv, ItemsTypeOK
        <3>3. items' = items \cup {r} /\ held' = held
            BY <1>6 DEF AddItemReferenceToObject
        <3>4. label'[r].string = NULL
            BY <1>1, <1>2, <2>3 DEF create_reference, Label
        <3>5. ItemsTypeOK'
            BY <1>1, <2>3, <3>1, <3>2, <3>3 DEF IInv, ItemsTypeOK
        <3> QED BY <1>2, <2>3, <3>1, <3>2, <3>3, <3>4, <3>5, NewRootKeeps
    <2> QED BY <1>6, <2>2, <2>3 DEF AddItemReferenceToObject
<1> QED BY <1>3, <1>5, <1>6

\* The buffers of the labels that a rename leaves.
LEMMA RenamedTypes ==
    ASSUME IInv, NEW i \in Item, NEW s \in Key \cup {NULL}
    PROVE  /\ NewName(i, s) \in [Item -> Label]
           /\ NewName(i, s)[i].ref = label[i].ref
           /\ \A j \in Item \ {i} : NewName(i, s)[j] = label[j]
           /\ \A b \in BOOLEAN : buffers + One(b) - NameFreed(i) \in Int
<1>1. label[i] \in Label /\ label \in [Item -> Label] /\ buffers \in Int
    BY LabelFacts DEF IInv, ItemsTypeOK
<1>2. NewName(i, s) = [label EXCEPT ![i] = [label[i] EXCEPT !.string = s, !.const = FALSE]]
    BY <1>1 DEF NewName
<1>3. /\ [label[i] EXCEPT !.string = s, !.const = FALSE] \in Label
      /\ [label[i] EXCEPT !.string = s, !.const = FALSE].ref = label[i].ref
    BY <1>1, LabelFacts
<1>4. ASSUME NEW b \in BOOLEAN PROVE buffers + One(b) - NameFreed(i) \in Int
    <2>1. One(b) \in Int /\ NameFreed(i) \in Int /\ buffers \in Int
        BY <1>1 DEF One, NameFreed
    <2> QED BY <2>1
<1> QED BY <1>1, <1>2, <1>3, <1>4, LabelFacts

\* A rename alone.
LEMMA RenameKeeps ==
    ASSUME IInv, NEW i \in held, NEW s \in Key \cup {NULL}, label' = NewName(i, s), buffers' \in Int,
           UNCHANGED <<items, linkVars, held>>
    PROVE  IInv'
<1>1. i \in items /\ i \in Item /\ items \subseteq Item
    BY LinkFacts DEF IInv, ItemsTypeOK
<1>2. label' \in [Item -> Label] /\ (\A j \in Item : label'[j].ref = label[j].ref)
      /\ \A j \in Item \ {i} : label'[j] = label[j]
    BY <1>1, RenamedTypes
<1>3. ItemsTypeOK'
    BY <1>2 DEF IInv, ItemsTypeOK, linkVars
<1>4. Arcs' = Arcs
    BY <1>1, <1>2 DEF Arcs, linkVars
<1>5. Acyclic'
    BY <1>4, AcyclicArcs, LinkFacts DEF linkVars
<1>6. LinksMatch'
    BY <1>1, <1>2, <1>5 DEF IInv, LinksMatch, linkVars
<1>7. Unallocated' /\ OneParent' /\ HeldAreRoots'
    BY <1>1, <1>2 DEF IInv, Unallocated, OneParent, HeldAreRoots, Root, linkVars
<1>8. OthersEntered'
    <2>1. ASSUME NEW j \in items' \ held'
          PROVE  Stays(j)
        BY <1>1, <1>2 DEF linkVars, Stays
    <2> QED BY ONLY IInv, <2>1, EnteredStay
<1> QED BY <1>3, <1>6, <1>7, <1>8 DEF IInv

\* cJSON_ReplaceItemViaPointer with an item that the caller holds.
LEMMA ReplaceHeldKeeps ==
    ASSUME IInv, NEW i \in held, NEW p \in Places(i), NEW old \in Children(p),
           NEW labels \in [Item -> Label], NEW bufs \in Int,
           \A j \in Item \ {i} : labels[j] = label[j], labels[i].ref = label[i].ref,
           ReplaceItemViaPointer(p, old, i, labels, bufs)
    PROVE  IInv'
<1>1. p \in items /\ ~label[p].ref /\ p \notin Tree(i)
    BY DEF Places
<1>2. old \in items /\ Tree(old) \in SUBSET Item
    BY <1>1, ChildrenEntered, TreeClosed, LinkFacts
<1>3. buffers' \in Int
    <2>1. buffers' = bufs - BuffersOf(Tree(old)) /\ BuffersOf(Tree(old)) \in Int
        BY <1>2, BuffersWhole DEF ReplaceItemViaPointer
    <2> QED BY <2>1
<1> QED BY <1>1, <1>3, ReplaceKeeps

\* replace_item_in_object, whether or not there is a member to replace.
LEMMA ReplaceItemInObjectKeeps ==
    ASSUME IInv, NEW i \in held, NEW name \in Key, ReplaceItemInObject(name, i)
    PROVE  IInv'
<1> DEFINE bufs(copy) == buffers + One(copy # NULL) - NameFreed(i)
<1>1. i \in Item
    BY LinkFacts DEF IInv, ItemsTypeOK
<1>2. \A copy \in {name, NULL} : copy \in Key \cup {NULL} /\ bufs(copy) \in Int
    BY <1>1, RenamedTypes
<1>3. ASSUME NEW p \in Places(i), NEW old \in Children(p), NEW copy \in {name, NULL},
             ReplaceItemViaPointer(p, old, i, NewName(i, copy), bufs(copy))
      PROVE  IInv'
    <2> HIDE DEF bufs
    <2> QED BY <1>1, <1>2, <1>3, RenamedTypes, ReplaceHeldKeeps
<1>4. ASSUME NEW copy \in {name, NULL}, label' = NewName(i, copy), buffers' = bufs(copy),
             UNCHANGED <<items, linkVars, held>>
      PROVE  IInv'
    <2> HIDE DEF bufs
    <2> QED BY <1>2, <1>4, RenameKeeps
<1> QED BY <1>3, <1>4, Zenon DEF ReplaceItemInObject

\* The calls that the caller hands an item over to.
LEMMA AddHeldNextKeeps ==
    ASSUME IInv, AddHeldNext
    PROVE  IInv'
<1> PICK i \in held :
        \/ \E p \in Places(i) :
              \/ AddItemToArray(p, i)
              \/ \E name \in Key, constant \in BOOLEAN : AddItemToObject(p, name, constant, i)
              \/ InsertItemInArray(p, i)
              \/ ReplaceItemInArray(p, i)
        \/ \E name \in Key : ReplaceItemInObject(name, i)
    BY Zenon DEF AddHeldNext
<1>1. /\ i \in Item /\ label \in [Item -> Label] /\ label[i] \in Label /\ buffers \in Int
      /\ [label EXCEPT ![i] = label[i]] = label
    BY LinkFacts DEF IInv, ItemsTypeOK
<1>2. ASSUME NEW p \in Places(i)
      PROVE  p \in items /\ ~label[p].ref /\ p \notin Tree(i)
    BY DEF Places
<1>3. ASSUME NEW p \in Places(i), add_item_to_array(p, i, child[i]), held' = held \ {i},
             UNCHANGED <<items, label, buffers>>
      PROVE  IInv'
    BY <1>1, <1>3, AddHeldKeeps
<1>4. ASSUME NEW p \in Places(i), AddItemToArray(p, i)
      PROVE  IInv'
    BY <1>3, <1>4, Zenon DEF AddItemToArray
<1>5. ASSUME NEW p \in Places(i), NEW name \in Key, NEW constant \in BOOLEAN,
             AddItemToObject(p, name, constant, i)
      PROVE  IInv'
    <2> DEFINE l == [label[i] EXCEPT !.string = name, !.const = constant]
    <2>1. l \in Label /\ l.ref = label[i].ref
        BY <1>1 DEF Label
    <2>2. label' = [label EXCEPT ![i] = l]
        BY <1>1, <1>5 DEF AddItemToObject
    <2>3. buffers' \in Int
        <3>1. buffers' = buffers + One(~constant) - NameFreed(i)
            BY <1>5 DEF AddItemToObject
        <3> QED BY <1>1, <3>1, RenamedTypes
    <2>4. add_item_to_array(p, i, child[i]) /\ held' = held \ {i} /\ items' = items
        BY <1>5 DEF AddItemToObject
    <2> HIDE DEF l
    <2> QED BY <2>1, <2>2, <2>3, <2>4, AddHeldKeeps
<1>6. ASSUME NEW p \in Places(i), InsertItemInArray(p, i)
      PROVE  IInv'
    <2>1. held' = held \ {i} /\ UNCHANGED <<items, label, buffers>>
        BY <1>6 DEF InsertItemInArray
    <2>2. CASE add_item_to_array(p, i, child[i])
        BY <1>3, <2>1, <2>2
    <2>3. ASSUME NEW after \in Children(p), InsertBefore(p, after, i)
          PROVE  IInv'
        BY <1>2, <2>1, <2>3, InsertKeeps
    <2> QED BY <1>6, <2>2, <2>3, Zenon DEF InsertItemInArray
<1>7. ASSUME NEW p \in Places(i), ReplaceItemInArray(p, i)
      PROVE  IInv'
    <2>1. PICK old \in Children(p) : ReplaceItemViaPointer(p, old, i, label, buffers)
        BY <1>7, Zenon DEF ReplaceItemInArray
    <2> QED BY <1>1, <2>1, ReplaceHeldKeeps
<1>8. ASSUME NEW name \in Key, ReplaceItemInObject(name, i)
      PROVE  IInv'
    BY <1>8, ReplaceItemInObjectKeeps
<1> QED BY <1>4, <1>5, <1>6, <1>7, <1>8

\* cJSON_Delete.
LEMMA DeleteKeeps ==
    ASSUME IInv, NEW i \in held, Delete(i)
    PROVE  IInv'
<1> DEFINE gone == Tree(i)
<1>1. i \in items /\ i \in Item /\ Root(i) /\ gone \subseteq items /\ i \in gone /\ items \subseteq Item
    BY TreeClosed, LinkFacts DEF IInv, ItemsTypeOK, HeldAreRoots
<1>2. /\ NotBorrowed(gone) /\ FreeItems(gone, label)
      /\ next' = Freed(next, gone) /\ prev' = Freed(prev, gone) /\ child' = Freed(child, gone)
      /\ held' = held \ {i} /\ buffers' = buffers - BuffersOf(gone)
    BY DEF Delete
<1>3. next[i] = NULL /\ prev[i] = NULL /\ \A p \in Item : label[p].ref \/ child[p] # i
    BY <1>1, LinkFacts DEF Root
<1> HIDE DEF gone
<1>4. \A j \in Item : /\ next'[j] = IF j \in gone THEN NULL ELSE next[j]
                      /\ prev'[j] = IF j \in gone THEN NULL ELSE prev[j]
                      /\ child'[j] = IF j \in gone THEN NULL ELSE child[j]
                      /\ label'[j] = IF j \in gone THEN Blank ELSE label[j]
    BY <1>2 DEF Freed, FreeItems
<1>5. next \in [Item -> Pointer] /\ prev \in [Item -> Pointer] /\ child \in [Item -> Pointer]
      /\ label \in [Item -> Label] /\ Blank \in Label /\ NULL \in Pointer
    BY <1>1, LabelFacts DEF IInv, ItemsTypeOK, Pointer
<1>6. next' \in [Item -> Pointer] /\ prev' \in [Item -> Pointer] /\ child' \in [Item -> Pointer]
    BY <1>2, <1>5 DEF Freed
<1>7. label' \in [Item -> Label] /\ items' = items \ gone
    BY <1>2, <1>5 DEF FreeItems
<1>8. buffers' \in Int
    <2>1. BuffersOf(gone) \in Int /\ buffers \in Int
        BY <1>1, BuffersWhole DEF IInv, ItemsTypeOK
    <2> QED BY <1>2, <2>1
<1>9. Unlinks(i, gone)
    BY <1>1, <1>3, <1>4, <1>6, LinkFacts DEF Unlinks
<1>10. gone \in {{}, Tree(i)}
    BY DEF gone
<1>11. held \ {i} \subseteq held' /\ held' \subseteq held \cup {i} /\ (i \in held' <=> gone = {})
    BY <1>1, <1>2
<1> QED BY <1>1, <1>2, <1>4, <1>7, <1>8, <1>9, <1>10, <1>11, UnlinkKeeps

\* cJSON_DetachItemViaPointer stores where UnlinkKeeps says.
LEMMA DetachedLinks ==
    ASSUME IInv, NEW p \in items, ~label[p].ref, NEW i \in Children(p), NEW gone \in {{}, Tree(i)},
           DetachItemViaPointer(p, i, gone)
    PROVE  Unlinks(i, gone)
<1>1. i \in items /\ i \in Item /\ i # NULL /\ p \in Item /\ items \subseteq Item
    BY ChildrenEntered, LinkFacts
<1>2. next[i] \in items \cup {NULL} /\ prev[i] \in items \cup {NULL} /\ next[i] \in Pointer
      /\ prev[i] \in Pointer /\ NULL \in Pointer /\ NULL \notin Item
    BY <1>1, LinkFacts DEF Pointer
<1>3. next \in [Item -> Pointer] /\ prev \in [Item -> Pointer] /\ child \in [Item -> Pointer]
    BY DEF IInv, ItemsTypeOK
<1>4. next[i] # i /\ prev[i] # i
    BY <1>1, NeighboursApart, TreeClosed
<1>5. ASSUME NEW j \in Item
      PROVE  j = p /\ i = child[p] <=> ~label[j].ref /\ child[j] = i
    <2>1. ASSUME ~label[j].ref, child[j] = i
          PROVE  j = p /\ i = child[p]
        <3>1. prev[i] = NULL
            BY <1>1, <2>1, LinkFacts
        <3>2. child[p] = i
            <4>1. SUFFICES ASSUME NEW y \in Children(p), next[y] = i PROVE FALSE
                BY ChildrenEntered
            <4>2. y \in items
                BY ChildrenEntered
            <4> QED BY <1>1, <1>2, <3>1, <4>1, <4>2, LinkFacts
        <3> QED BY <1>1, <2>1, <3>2, LinkFacts
    <2> QED BY <2>1
<1> DEFINE n == [Store(next, prev[i], next[i]) EXCEPT ![i] = NULL]
           b == [Store(prev, next[i], prev[i]) EXCEPT ![i] = NULL]
           c == IF i = child[p] THEN [child EXCEPT ![p] = next[i]] ELSE child
<1>6. next' = Freed(n, gone) /\ prev' = Freed(b, gone) /\ child' = Freed(c, gone)
    BY DEF DetachItemViaPointer
<1>7. n \in [Item -> Pointer]
      /\ \A j \in Item : n[j] = IF j = i THEN NULL ELSE IF j = prev[i] THEN next[i] ELSE next[j]
    BY <1>1, <1>2, <1>3 DEF Store
<1>8. b \in [Item -> Pointer]
      /\ \A j \in Item : b[j] = IF j = i THEN NULL ELSE IF j = next[i] THEN prev[i] ELSE prev[j]
    BY <1>1, <1>2, <1>3 DEF Store
<1>9. c \in [Item -> Pointer]
      /\ \A j \in Item : c[j] = IF j = p /\ i = child[p] THEN next[i] ELSE child[j]
    BY <1>1, <1>2, <1>3
<1> HIDE DEF n, b, c
<1>10. \A f \in [Item -> Pointer] : Freed(f, gone) \in [Item -> Pointer]
           /\ \A j \in Item : Freed(f, gone)[j] = IF j \in gone THEN NULL ELSE f[j]
    BY <1>2 DEF Freed
<1>11. \A j \in Item : child'[j] = IF j \in gone THEN NULL
                                   ELSE IF ~label[j].ref /\ child[j] = i THEN next[i] ELSE child[j]
    BY <1>5, <1>6, <1>9, <1>10
<1>12. \A j \in Item : next'[j] = IF j \in gone \cup {i} THEN NULL
                                  ELSE IF j = prev[i] THEN next[i] ELSE next[j]
    BY <1>6, <1>7, <1>10
<1>13. \A j \in Item : prev'[j] = IF j \in gone \cup {i} THEN NULL
                                  ELSE IF j = next[i] THEN prev[i] ELSE prev[j]
    BY <1>6, <1>8, <1>10
<1> QED BY <1>6, <1>7, <1>8, <1>9, <1>10, <1>11, <1>12, <1>13 DEF Unlinks

\* cJSON_DetachItemFrom...
LEMMA DetachKeeps ==
    ASSUME IInv, NEW p \in items, ~label[p].ref, NEW i \in Children(p), Detach(p, i)
    PROVE  IInv'
<1> SUFFICES ASSUME NEW gone, gone = {} PROVE IInv'
    OBVIOUS
<1>1. i \in items
    BY ChildrenEntered
<1>2. DetachItemViaPointer(p, i, gone) /\ held' = held \cup {i} /\ UNCHANGED <<items, label, buffers>>
    BY DEF Detach
<1>3. NotBorrowed(gone) /\ gone \in {{}, Tree(i)}
    BY DEF NotBorrowed
<1>4. label' \in [Item -> Label] /\ buffers' \in Int
    BY <1>2 DEF IInv, ItemsTypeOK
<1>5. /\ items' = items \ gone /\ held \ {i} \subseteq held' /\ held' \subseteq held \cup {i}
      /\ i \in held' <=> gone = {}
    BY <1>2
<1>6. \A j \in Item : label'[j] = IF j \in gone THEN Blank ELSE label[j]
    BY <1>2
<1>7. Unlinks(i, gone)
    BY <1>2, <1>3, DetachedLinks
<1> QED BY <1>1, <1>3, <1>4, <1>5, <1>6, <1>7, UnlinkKeeps

\* cJSON_DeleteItemFrom...
LEMMA DetachAndDeleteKeeps ==
    ASSUME IInv, NEW p \in items, ~label[p].ref, NEW i \in Children(p), DetachAndDelete(p, i)
    PROVE  IInv'
<1> SUFFICES ASSUME NEW gone, gone = Tree(i) PROVE IInv'
    OBVIOUS
<1>1. i \in items /\ ~Root(i) /\ gone \in SUBSET Item /\ gone \in {{}, Tree(i)}
    BY Listed, TreeClosed, LinkFacts
<1>2. /\ NotBorrowed(gone) /\ DetachItemViaPointer(p, i, gone) /\ FreeItems(gone, label)
      /\ buffers' = buffers - BuffersOf(gone) /\ held' = held
    BY DEF DetachAndDelete
<1>3. buffers' \in Int
    <2>1. BuffersOf(gone) \in Int /\ buffers \in Int
        BY <1>1, BuffersWhole DEF IInv, ItemsTypeOK
    <2> QED BY <1>2, <2>1
<1>4. /\ items' = items \ gone /\ label' \in [Item -> Label]
      /\ \A j \in Item : label'[j] = IF j \in gone THEN Blank ELSE label[j]
    <2>1. label \in [Item -> Label] /\ Blank \in Label
        BY <1>1, LabelFacts, LinkFacts
    <2> QED BY <1>2, <2>1 DEF FreeItems
<1>5. held \ {i} \subseteq held' /\ held' \subseteq held \cup {i} /\ (i \in held' <=> gone = {})
    <2>1. i \in gone
        BY <1>1, TreeClosed, LinkFacts
    <2> QED BY <1>1, <1>2, <2>1 DEF IInv, HeldAreRoots
<1>6. Unlinks(i, gone)
    BY <1>1, <1>2, DetachedLinks
<1> QED BY <1>1, <1>2, <1>3, <1>4, <1>5, <1>6, UnlinkKeeps

-----------------------------------------------------------------------------
(* The theorems.                                                           *)

\* Before the first call.
LEMMA InitHolds == ItemsInit => IInv
<1> SUFFICES ASSUME ItemsInit PROVE IInv
    OBVIOUS
<1>1. ItemsTypeOK
    BY ItemAssumption DEF ItemsInit, ItemsTypeOK, Pointer, Label, Blank
<1>2. Acyclic
    BY DEF ItemsInit, Acyclic
<1>3. LinksMatch
    BY <1>2 DEF ItemsInit, LinksMatch
<1>4. Unallocated /\ OneParent /\ HeldAreRoots
    BY DEF ItemsInit, Unallocated, OneParent, HeldAreRoots
<1>5. OthersEntered
    BY DEF ItemsInit, OthersEntered
<1> QED BY <1>1, <1>3, <1>4, <1>5 DEF IInv

\* The calls that create.
LEMMA CreateNextKeeps ==
    ASSUME IInv, CreateNext
    PROVE  IInv'
<1>1. ASSUME NEW i \in Item \ items, NEW value \in BOOLEAN, Create(i, value)
      PROVE  IInv'
    BY <1>1, CreateKeeps
<1>2. ASSUME NEW i \in Item \ items, NEW first \in items, CreateReference(i, first)
      PROVE  IInv'
    BY <1>2, CreateReferenceKeeps
<1>3. ASSUME NEW i \in Item \ items, NEW from \in items, CreateStringReference(i, from)
      PROVE  IInv'
    BY <1>3, CreateStringReferenceKeeps
<1>4. ASSUME NEW count \in 1 .. Cardinality(Item) - 1, NEW strings \in BOOLEAN,
             NEW at \in [0 .. count -> Item \ items], CreateArray(count, at, strings)
      PROVE  IInv'
    <2>1. Cardinality(Item) \in Nat
        BY FS_CardinalityType, ItemAssumption
    <2>2. count \in Nat \ {0}
        BY <2>1
    <2> QED BY <1>4, <2>2, CreateArrayKeeps
<1>5. ASSUME NEW i \in items, NEW recurse \in BOOLEAN,
             NEW copy \in [IF recurse THEN Below(i) ELSE {i} -> Item \ items], Duplicate(i, recurse, copy)
      PROVE  IInv'
    BY <1>5, DuplicateKeeps
<1> QED BY <1>1, <1>2, <1>3, <1>4, <1>5, Zenon DEF CreateNext

\* The calls that detach and delete.
LEMMA RemoveNextKeeps ==
    ASSUME IInv, RemoveNext
    PROVE  IInv'
<1>1. ASSUME NEW i \in held, Delete(i)
      PROVE  IInv'
    BY <1>1, DeleteKeeps
<1>2. ASSUME NEW p \in items, ~label[p].ref, NEW i \in Children(p) \cap Found(p), Detach(p, i)
      PROVE  IInv'
    BY <1>2, DetachKeeps
<1>3. ASSUME NEW p \in items, ~label[p].ref, NEW i \in Children(p) \cap Found(p), DetachAndDelete(p, i)
      PROVE  IInv'
    BY <1>3, DetachAndDeleteKeeps
<1> QED BY <1>1, <1>2, <1>3, Zenon DEF RemoveNext

\* Every call.
LEMMA NextKeeps == IInv /\ [ItemsNext]_itemVars => IInv'
<1> SUFFICES ASSUME IInv, [ItemsNext]_itemVars PROVE IInv'
    OBVIOUS
<1>1. CASE CreateNext
    BY <1>1, CreateNextKeeps
<1>2. CASE AddNewNext
    BY <1>2, AddNewNextKeeps
<1>3. CASE AddHeldNext
    BY <1>3, AddHeldNextKeeps
<1>4. CASE RemoveNext
    BY <1>4, RemoveNextKeeps
<1>5. CASE UNCHANGED itemVars
    <2>1. /\ items' = items /\ next' = next /\ prev' = prev /\ child' = child /\ label' = label
          /\ held' = held /\ buffers' = buffers
        BY <1>5 DEF itemVars
    <2>2. OthersEntered'
        <3>1. \A j \in (items' \ held') \ {} : Stays(j)
            BY <2>1 DEF Stays
        <3> QED BY ONLY IInv, <3>1, EnteredStay
    <2> QED BY <2>1, <2>2 DEF IInv, ItemsTypeOK, LinksMatch, Acyclic, Unallocated, OneParent, HeldAreRoots, Root
<1> QED BY <1>1, <1>2, <1>3, <1>4, <1>5 DEF ItemsNext

\* The invariant behind the theorems: the links match, free items are blank,
\* no two items have the same first child, what the caller holds is in no list
\* and everything else is in one or lost for lack of a name, whichever
\* functions of cJSON.c are called in whichever order.
THEOREM Invariant == ItemsSpec => []IInv
BY InitHolds, NextKeeps, PTL DEF ItemsSpec

\* Type correctness of the items that cJSON_New_Item hands out.
THEOREM ItemsTypeCorrect == ItemsSpec => []ItemsTypeOK
<1>1. IInv => ItemsTypeOK
    BY DEF IInv
<1> QED BY <1>1, Invariant, PTL

\* cJSON_DetachItemViaPointer, cJSON_InsertItemInArray,
\* cJSON_ReplaceItemViaPointer, add_item_to_array and cJSON_Duplicate leave
\* next and prev inverse, point at allocated items only and close no cycle,
\* for every number of items.
THEOREM LinksAlwaysMatch == ItemsSpec => []LinksMatch
<1>1. IInv => LinksMatch
    BY DEF IInv
<1> QED BY <1>1, Invariant, PTL

\* cJSON_Delete frees every item once and leaves none behind: whatever calls
\* add, detach, replace, copy or delete, an item is the caller's or in exactly
\* one list, except for the reference that cJSON_AddItemReferenceToObject loses
\* when the copy of its name fails.
THEOREM OwnedOnceHolds == ItemsSpec => []OwnedOnce
<1>1. ASSUME IInv, NEW i \in items
      PROVE  \/ i \in held /\ Parents(i) = {}
             \/ i \notin held /\ Cardinality(Parents(i)) = 1
             \/ i \notin held /\ Parents(i) = {} /\ label[i].ref /\ label[i].string = NULL
    <2>1. Root(i) => Parents(i) = {}
        BY <1>1, Listed DEF Parents
    <2>2. CASE i \in held
        BY <1>1, <2>1, <2>2 DEF IInv, HeldAreRoots
    <2>3. CASE i \notin held /\ Entered(i)
        <3>1. PICK p : p \in Parents(i)
            BY <1>1, <2>3, SomeParent
        <3>2. \A q \in Parents(i) : q = p
            BY <1>1, <3>1, AtMostOneParent DEF Parents
        <3>3. Parents(i) = {p}
            BY <3>1, <3>2
        <3> QED BY <2>3, <3>3, FS_Singleton
    <2>4. CASE i \notin held /\ ~Entered(i)
        <3>1. Lost(i)
            BY <1>1, <2>4 DEF IInv, OthersEntered
        <3>2. Root(i)
            BY <2>4, <3>1 DEF Root, Entered, Lost
        <3> QED BY <2>1, <2>4, <3>1, <3>2 DEF Lost
    <2> QED BY <2>2, <2>3, <2>4
<1>2. IInv => OwnedOnce
    BY <1>1, Zenon DEF OwnedOnce, Parents
<1> QED BY <1>2, Invariant, PTL

-----------------------------------------------------------------------------
(* The buffers.  An item that is not allocated owns none, so the labels     *)
(* alone say how many there are.                                            *)

NamesIn(l)  == {i \in Item : OwnsName(l[i])}
ValuesIn(l) == {i \in Item : OwnsValue(l[i])}
Counted(l)  == Cardinality(NamesIn(l)) + Cardinality(ValuesIn(l))

\* Numbers of items.
LEMMA ItemCount ==
    /\ \A A \in SUBSET Item : IsFiniteSet(A) /\ Cardinality(A) \in Nat
    /\ \A A, B \in SUBSET Item :
           A \cap B = {} => Cardinality(A \cup B) = Cardinality(A) + Cardinality(B)
<1>1. \A A \in SUBSET Item : IsFiniteSet(A) /\ Cardinality(A) \in Nat
    BY FS_Subset, FS_CardinalityType, ItemAssumption
<1>2. ASSUME NEW A \in SUBSET Item, NEW B \in SUBSET Item, A \cap B = {}
      PROVE  Cardinality(A \cup B) = Cardinality(A) + Cardinality(B)
    <2>1. Cardinality(A \cup B) = Cardinality(A) + Cardinality(B) - Cardinality(A \cap B)
        BY <1>1, FS_Union
    <2>2. Cardinality(A \cap B) = 0
        BY <1>2, FS_EmptySet
    <2>3. Cardinality(A) \in Nat /\ Cardinality(B) \in Nat
        BY <1>1
    <2> QED BY <2>1, <2>2, <2>3
<1> QED BY <1>1, <1>2

LEMMA BlankOwnsNothing == ~OwnsName(Blank) /\ ~OwnsValue(Blank)
BY DEF OwnsName, OwnsValue, Blank

\* The labels of free items are blank.
LEMMA AllocatedBuffers ==
    /\ IInv => BuffersOf(items) = Counted(label)
    /\ IInv' => BuffersOf(items)' = Counted(label')
<1>1. ASSUME IInv PROVE BuffersOf(items) = Counted(label)
    <2>1. items \subseteq Item /\ \A i \in Item \ items : label[i] = Blank
        BY <1>1 DEF IInv, ItemsTypeOK, Unallocated
    <2>2. /\ {i \in items : OwnsName(label[i])} = NamesIn(label)
          /\ {i \in items : OwnsValue(label[i])} = ValuesIn(label)
        BY <2>1, BlankOwnsNothing DEF NamesIn, ValuesIn
    <2> QED BY <2>2 DEF BuffersOf, Counted
<1>2. ASSUME IInv' PROVE BuffersOf(items)' = Counted(label')
    <2>1. items' \subseteq Item /\ \A i \in Item \ items' : label'[i] = Blank
        BY <1>2 DEF IInv, ItemsTypeOK, Unallocated
    <2>2. /\ {i \in items' : OwnsName(label'[i])} = NamesIn(label')
          /\ {i \in items' : OwnsValue(label'[i])} = ValuesIn(label')
        BY <2>1, BlankOwnsNothing DEF NamesIn, ValuesIn
    <2> QED BY <2>2 DEF BuffersOf, Counted
<1> QED BY <1>1, <1>2

\* The label of one item changes.
LEMMA OneLabel ==
    ASSUME NEW l, NEW m, NEW i \in Item, \A j \in Item \ {i} : m[j] = l[j]
    PROVE  /\ Counted(m) = Counted(l) + (One(OwnsName(m[i])) - One(OwnsName(l[i])))
                                      + (One(OwnsValue(m[i])) - One(OwnsValue(l[i])))
           /\ Counted(l) \in Int /\ \A b : One(b) \in Int
<1>1. ASSUME NEW A \in SUBSET Item, NEW B \in SUBSET Item, NEW a, NEW b,
             \A j \in Item \ {i} : j \in A <=> j \in B, i \in A <=> a, i \in B <=> b
      PROVE  Cardinality(B) = Cardinality(A) + (One(b) - One(a))
    <2> DEFINE C == A \ {i}
    <2>1. /\ IsFiniteSet(C) /\ Cardinality(C) \in Nat
          /\ Cardinality(C \cup {i}) = Cardinality(C) + 1
        <3>1. C \in SUBSET Item /\ i \notin C
            OBVIOUS
        <3> HIDE DEF C
        <3> QED BY <3>1, ItemCount, FS_AddElement
    <2>2. A = IF a THEN C \cup {i} ELSE C
        BY <1>1
    <2>3. B = IF b THEN C \cup {i} ELSE C
        BY <1>1
    <2>4. Cardinality(A) = Cardinality(C) + One(a) /\ Cardinality(B) = Cardinality(C) + One(b)
        <3> HIDE DEF C
        <3> QED BY <2>1, <2>2, <2>3 DEF One
    <2>5. One(a) \in Int /\ One(b) \in Int
        BY DEF One
    <2> QED BY <2>1, <2>4, <2>5
<1>2. \A k \in {l, m} : /\ NamesIn(k) \in SUBSET Item /\ ValuesIn(k) \in SUBSET Item
                        /\ \A j \in Item : /\ j \in NamesIn(k) <=> OwnsName(k[j])
                                           /\ j \in ValuesIn(k) <=> OwnsValue(k[j])
    BY DEF NamesIn, ValuesIn
<1>3. \A j \in Item \ {i} : /\ j \in NamesIn(l) <=> j \in NamesIn(m)
                            /\ j \in ValuesIn(l) <=> j \in ValuesIn(m)
    BY <1>2
<1>4. Cardinality(NamesIn(m)) = Cardinality(NamesIn(l)) + (One(OwnsName(m[i])) - One(OwnsName(l[i])))
    BY <1>1, <1>2, <1>3
<1>5. Cardinality(ValuesIn(m)) = Cardinality(ValuesIn(l)) + (One(OwnsValue(m[i])) - One(OwnsValue(l[i])))
    BY <1>1, <1>2, <1>3
<1>6. /\ Cardinality(NamesIn(l)) \in Int /\ Cardinality(ValuesIn(l)) \in Int
      /\ \A b : One(b) \in Int
    BY <1>2, ItemCount DEF One
<1> QED BY <1>4, <1>5, <1>6 DEF Counted

\* Buffers join those there are.
LEMMA MoreBuffers ==
    ASSUME NEW l, NEW m, NEW A \in SUBSET Item, NEW B \in SUBSET Item,
           NamesIn(l) \cap A = {}, NamesIn(m) = NamesIn(l) \cup A,
           ValuesIn(l) \cap B = {}, ValuesIn(m) = ValuesIn(l) \cup B
    PROVE  Counted(m) = Counted(l) + Cardinality(A) + Cardinality(B)
<1>1. NamesIn(l) \in SUBSET Item /\ ValuesIn(l) \in SUBSET Item
    BY DEF NamesIn, ValuesIn
<1>2. /\ Cardinality(NamesIn(m)) = Cardinality(NamesIn(l)) + Cardinality(A)
      /\ Cardinality(NamesIn(l)) \in Nat /\ Cardinality(A) \in Nat
    BY <1>1, ItemCount
<1>3. /\ Cardinality(ValuesIn(m)) = Cardinality(ValuesIn(l)) + Cardinality(B)
      /\ Cardinality(ValuesIn(l)) \in Nat /\ Cardinality(B) \in Nat
    BY <1>1, ItemCount
<1> QED BY <1>2, <1>3 DEF Counted

\* Items are freed that kept their labels until then.
LEMMA FreedLabels ==
    ASSUME NEW l, NEW m, NEW gone \in SUBSET Item, \A j \in gone : l[j] = label[j],
           \A j \in Item : m[j] = IF j \in gone THEN Blank ELSE l[j]
    PROVE  Counted(m) = Counted(l) - BuffersOf(gone) /\ Counted(m) \in Int
<1> DEFINE A == {j \in gone : OwnsName(label[j])}
           B == {j \in gone : OwnsValue(label[j])}
<1>1. /\ A \in SUBSET gone /\ \A j \in gone : j \in A <=> OwnsName(l[j])
      /\ B \in SUBSET gone /\ \A j \in gone : j \in B <=> OwnsValue(l[j])
    OBVIOUS
<1>2. BuffersOf(gone) = Cardinality(A) + Cardinality(B)
    BY DEF BuffersOf
<1> HIDE DEF A, B
<1>3. Counted(l) = Counted(m) + Cardinality(A) + Cardinality(B)
    <2>1. NamesIn(m) \cap A = {} /\ NamesIn(l) = NamesIn(m) \cup A
        BY <1>1, BlankOwnsNothing DEF NamesIn
    <2>2. ValuesIn(m) \cap B = {} /\ ValuesIn(l) = ValuesIn(m) \cup B
        BY <1>1, BlankOwnsNothing DEF ValuesIn
    <2>3. A \in SUBSET Item /\ B \in SUBSET Item
        BY <1>1
    <2> QED BY <2>1, <2>2, <2>3, MoreBuffers
<1>4. Cardinality(A) \in Nat /\ Cardinality(B) \in Nat
    BY <1>1, ItemCount
<1>5. Counted(m) \in Int
    <2>1. NamesIn(m) \in SUBSET Item /\ ValuesIn(m) \in SUBSET Item
        BY DEF NamesIn, ValuesIn
    <2>2. Cardinality(NamesIn(m)) \in Nat /\ Cardinality(ValuesIn(m)) \in Nat
        BY <2>1, ItemCount
    <2> QED BY <2>2 DEF Counted
<1> QED BY <1>2, <1>3, <1>4, <1>5

\* As many items as f sends to them.
LEMMA Images ==
    ASSUME NEW A, IsFiniteSet(A), NEW f, NEW B, \A y \in A : f[y] \in B,
           \A x, y \in A : f[x] = f[y] => x = y, \A z \in B : \E y \in A : z = f[y]
    PROVE  Cardinality(B) = Cardinality(A)
<1> DEFINE g == [y \in A |-> f[y]]
<1>1. g \in Bijection(A, B)
    BY DEF Bijection, Injection, Surjection, IsInjective
<1> HIDE DEF g
<1>2. ExistsBijection(A, B)
    BY <1>1 DEF ExistsBijection
<1> QED BY <1>2, FS_Bijection

-----------------------------------------------------------------------------
(* What every call does to the number of buffers.                          *)

\* A rename, or new flags, of one item.
LEMMA OneLabelCounts ==
    ASSUME IInv, buffers = Counted(label), NEW i \in Item, NEW l \in Label,
           label' = [label EXCEPT ![i] = l],
           buffers' = buffers + (One(OwnsName(l)) - One(OwnsName(label[i])))
                              + (One(OwnsValue(l)) - One(OwnsValue(label[i])))
    PROVE  buffers' = Counted(label')
<1>1. label'[i] = l /\ \A j \in Item \ {i} : label'[j] = label[j]
    BY DEF IInv, ItemsTypeOK
<1>2. Counted(label') = Counted(label) + (One(OwnsName(label'[i])) - One(OwnsName(label[i])))
                                       + (One(OwnsValue(label'[i])) - One(OwnsValue(label[i])))
    <2>1. i \in Item
        OBVIOUS
    <2> QED BY ONLY <1>1, <2>1, OneLabel
<1> QED BY <1>1, <1>2

\* The calls that allocate one item.
LEMMA FreshLabelCounts ==
    ASSUME IInv, buffers = Counted(label), NEW i \in Item \ items, NEW l \in Label,
           label' = [label EXCEPT ![i] = l], buffers' = buffers + One(OwnsName(l)) + One(OwnsValue(l))
    PROVE  buffers' = Counted(label')
<1>1. label[i] = Blank
    BY DEF IInv, Unallocated
<1>2. One(OwnsName(label[i])) = 0 /\ One(OwnsValue(label[i])) = 0
    BY <1>1, BlankOwnsNothing DEF One
<1>3. buffers \in Int /\ One(OwnsName(l)) \in Int /\ One(OwnsValue(l)) \in Int
    BY DEF IInv, ItemsTypeOK, One
<1>4. buffers' = buffers + (One(OwnsName(l)) - One(OwnsName(label[i])))
                         + (One(OwnsValue(l)) - One(OwnsValue(label[i])))
    BY <1>2, <1>3
<1> QED BY <1>4, OneLabelCounts

\* What the labels of new items own.
LEMMA BlankOwns ==
    ASSUME NEW v \in Pointer
    PROVE  /\ LET l == [Blank EXCEPT !.value = v]
              IN  l \in Label /\ ~OwnsName(l) /\ (OwnsValue(l) <=> v # NULL)
           /\ LET l == [Blank EXCEPT !.ref = TRUE, !.value = v]
              IN  l \in Label /\ ~OwnsName(l) /\ ~OwnsValue(l)
           /\ LET l == [Blank EXCEPT !.ref = TRUE]
              IN  l \in Label /\ ~OwnsName(l) /\ ~OwnsValue(l)
           /\ \A s \in Key : LET l == [Blank EXCEPT !.string = s, !.value = v]
                             IN  l \in Label /\ OwnsName(l) /\ (OwnsValue(l) <=> v # NULL)
BY ItemAssumption DEF OwnsName, OwnsValue, Blank, Label, Pointer

\* What an item owns after a rename, and what a reference to it owns.
LEMMA RelabelOwns ==
    ASSUME NEW k \in Label
    PROVE  /\ \A s \in Key, b \in BOOLEAN :
                  LET l == [k EXCEPT !.string = s, !.const = b]
                  IN  l \in Label /\ (OwnsName(l) <=> ~b) /\ (OwnsValue(l) <=> OwnsValue(k))
           /\ LET l == [k EXCEPT !.string = NULL, !.const = FALSE]
              IN  l \in Label /\ ~OwnsName(l) /\ (OwnsValue(l) <=> OwnsValue(k))
           /\ LET l == [k EXCEPT !.ref = TRUE, !.string = NULL]
              IN  l \in Label /\ ~OwnsName(l) /\ ~OwnsValue(l)
           /\ \A s \in Key :
                  LET l == [[k EXCEPT !.ref = TRUE, !.string = NULL] EXCEPT !.string = s, !.const = FALSE]
                  IN  l \in Label /\ OwnsName(l) /\ ~OwnsValue(l)
<1>1. NULL \notin Key
    BY ItemAssumption
<1>2. ASSUME NEW s \in Key, NEW b \in BOOLEAN
      PROVE  LET l == [k EXCEPT !.string = s, !.const = b]
             IN  l \in Label /\ (OwnsName(l) <=> ~b) /\ (OwnsValue(l) <=> OwnsValue(k))
    BY <1>1 DEF OwnsName, OwnsValue, Label
<1>3. /\ LET l == [k EXCEPT !.string = NULL, !.const = FALSE]
         IN  l \in Label /\ ~OwnsName(l) /\ (OwnsValue(l) <=> OwnsValue(k))
      /\ LET l == [k EXCEPT !.ref = TRUE, !.string = NULL]
         IN  l \in Label /\ ~OwnsName(l) /\ ~OwnsValue(l)
    BY <1>1 DEF OwnsName, OwnsValue, Label
<1>4. ASSUME NEW s \in Key
      PROVE  LET l == [[k EXCEPT !.ref = TRUE, !.string = NULL] EXCEPT !.string = s, !.const = FALSE]
             IN  l \in Label /\ OwnsName(l) /\ ~OwnsValue(l)
    BY <1>1 DEF OwnsName, OwnsValue, Label
<1> QED BY <1>2, <1>3, <1>4, Zenon

\* cJSON_CreateStringArray: one string per element.
LEMMA CreateArrayCounts ==
    ASSUME IInv, buffers = Counted(label), NEW count \in Nat \ {0}, NEW strings \in BOOLEAN,
           NEW at \in [0 .. count -> Item \ items], CreateArray(count, at, strings)
    PROVE  buffers' = Counted(label')
<1> DEFINE new == {at[n] : n \in 0 .. count} \ {at[0]}
<1>1. /\ \A m, n \in 0 .. count : at[m] = at[n] => m = n
      /\ label' = [i \in Item |-> IF i \in new /\ strings THEN [Blank EXCEPT !.value = i] ELSE label[i]]
      /\ buffers' = buffers + (IF strings THEN count ELSE 0)
    BY DEF CreateArray
<1>2. /\ new \in SUBSET Item /\ \A j \in new : label[j] = Blank
      /\ label \in [Item -> Label] /\ buffers \in Int /\ Item \subseteq Pointer /\ NULL \notin Item
    BY ItemAssumption DEF IInv, ItemsTypeOK, Unallocated, Pointer
<1>3. (\A n \in 1 .. count : at[n] \in new) /\ \A j \in new : \E n \in 1 .. count : j = at[n]
    BY <1>1
<1> HIDE DEF new
<1>4. CASE strings
    <2>1. \A j \in new : label'[j] = [Blank EXCEPT !.value = j]
        BY <1>1, <1>2, <1>4
    <2>2. \A j \in new : j \in Pointer /\ j # NULL
        BY <1>2
    <2>3. ASSUME NEW j \in new
          PROVE  label[j] = Blank /\ ~OwnsName(label'[j]) /\ OwnsValue(label'[j])
        <3> DEFINE l == [Blank EXCEPT !.value = j]
        <3>1. j \in Pointer /\ j # NULL
            BY <2>2
        <3>2. ~OwnsName(l) /\ (OwnsValue(l) <=> j # NULL)
            BY ONLY <3>1, BlankOwns, Zenon
        <3>3. label'[j] = l
            BY <2>1
        <3> HIDE DEF l
        <3> QED BY <1>2, <3>1, <3>2, <3>3
    <2>4. \A j \in Item \ new : label'[j] = label[j]
        BY <1>1
    <2>5. NamesIn(label) \cap {} = {} /\ NamesIn(label') = NamesIn(label) \cup {}
        BY <1>2, <2>3, <2>4, BlankOwnsNothing DEF NamesIn
    <2>6. Counted(label') = Counted(label) + Cardinality({}) + Cardinality(new)
        <3>1. ValuesIn(label) \cap new = {} /\ ValuesIn(label') = ValuesIn(label) \cup new
            BY <1>2, <2>3, <2>4, BlankOwnsNothing DEF ValuesIn
        <3>2. {} \in SUBSET Item /\ new \in SUBSET Item
            BY <1>2
        <3> QED BY ONLY <2>5, <3>1, <3>2, MoreBuffers
    <2>7. Cardinality(new) = count
        <3>1. IsFiniteSet(1 .. count) /\ Cardinality(1 .. count) = count
            BY FS_Interval
        <3>2. \A m, n \in 1 .. count : at[m] = at[n] => m = n
            BY <1>1
        <3>3. Cardinality(new) = Cardinality(1 .. count)
            BY ONLY <1>3, <3>1, <3>2, Images
        <3> QED BY <3>1, <3>3
    <2>8. Cardinality({}) = 0
        BY FS_EmptySet
    <2> QED BY <1>1, <1>2, <1>4, <2>6, <2>7, <2>8
<1>5. CASE ~strings
    <2>1. label' = label /\ buffers' = buffers
        BY <1>1, <1>2, <1>5
    <2> QED BY <2>1
<1> QED BY <1>4, <1>5

\* cJSON_Duplicate: every name that is not constant and every value is copied,
\* those that a reference borrows included.
LEMMA DuplicateCounts ==
    ASSUME IInv, buffers = Counted(label), NEW i \in items, NEW recurse \in BOOLEAN,
           NEW copy \in [IF recurse THEN Below(i) ELSE {i} -> Item \ items], Duplicate(i, recurse, copy)
    PROVE  buffers' = Counted(label')
<1> DEFINE T       == IF recurse THEN Below(i) ELSE {i}
           Orig(j) == CHOOSE y \in T : copy[y] = j
           new     == {copy[y] : y \in T}
           A       == {y \in T : OwnsName(label[y])}
           B       == {y \in T : label[y].value # NULL}
           CA      == {copy[y] : y \in A}
           CB      == {copy[y] : y \in B}
<1>1. T \subseteq items
    BY BelowClosed
<1>2. \A x, y \in T : copy[x] = copy[y] => x = y
    BY Zenon DEF Duplicate
<1>3. /\ label' = [j \in Item |->
                     IF j \notin new THEN label[j]
                     ELSE [label[Orig(j)] EXCEPT !.ref = FALSE,
                                                 !.value = IF @ = NULL THEN NULL ELSE j]]
      /\ buffers' = buffers + Cardinality(A) + Cardinality(B)
    BY DEF Duplicate
<1>4. copy \in [T -> Item \ items]
    OBVIOUS
<1> HIDE DEF T
<1>5. /\ \A y \in T : Orig(copy[y]) = y /\ copy[y] \in new
      /\ \A j \in new : \E y \in T : j = copy[y]
      /\ new \in SUBSET (Item \ items)
    BY <1>2, <1>4
<1>6. /\ A \in SUBSET T /\ B \in SUBSET T /\ CA \in SUBSET new /\ CB \in SUBSET new
      /\ \A y \in T : (copy[y] \in CA <=> y \in A) /\ (copy[y] \in CB <=> y \in B)
      /\ \A j \in CA : \E y \in A : j = copy[y]
      /\ \A j \in CB : \E y \in B : j = copy[y]
    BY <1>2
<1>7. \A y \in T : (y \in A <=> OwnsName(label[y])) /\ (y \in B <=> label[y].value # NULL)
    OBVIOUS
<1> HIDE DEF Orig, new, A, B, CA, CB
<1>8. /\ items \subseteq Item /\ \A j \in Item \ items : label[j] = Blank
      /\ label \in [Item -> Label] /\ NULL \notin Item /\ T \in SUBSET Item
    BY <1>1, ItemAssumption DEF IInv, ItemsTypeOK, Unallocated
<1>9. ASSUME NEW y \in T
      PROVE  (copy[y] \in CA <=> OwnsName(label'[copy[y]])) /\ (copy[y] \in CB <=> OwnsValue(label'[copy[y]]))
    <2> DEFINE l == label'[copy[y]]
    <2>1. copy[y] \in new /\ copy[y] \in Item /\ copy[y] # NULL /\ Orig(copy[y]) = y /\ label[y] \in Label
        BY <1>5, <1>8
    <2>2. l = [label[y] EXCEPT !.ref = FALSE, !.value = IF @ = NULL THEN NULL ELSE copy[y]]
        BY <1>3, <2>1
    <2>3. (OwnsName(l) <=> OwnsName(label[y])) /\ (OwnsValue(l) <=> label[y].value # NULL)
        BY <2>1, <2>2 DEF OwnsName, OwnsValue, Label
    <2> HIDE DEF l
    <2>4. (y \in A <=> OwnsName(l)) /\ (y \in B <=> OwnsValue(l))
        BY <1>7, <2>3
    <2>5. (copy[y] \in CA <=> OwnsName(l)) /\ (copy[y] \in CB <=> OwnsValue(l))
        BY <1>6, <2>4
    <2> QED BY <2>5 DEF l
<1>10. \A j \in new : label[j] = Blank /\ (j \in CA <=> OwnsName(label'[j])) /\ (j \in CB <=> OwnsValue(label'[j]))
    BY <1>5, <1>8, <1>9
<1>11. \A j \in Item \ new : label'[j] = label[j]
    BY <1>3
<1>12. new \in SUBSET Item /\ CA \in SUBSET new /\ CB \in SUBSET new
    BY <1>5, <1>6
<1>13. Counted(label') = Counted(label) + Cardinality(CA) + Cardinality(CB)
    <2>1. NamesIn(label) \cap CA = {} /\ NamesIn(label') = NamesIn(label) \cup CA
        BY ONLY <1>10, <1>11, <1>12, BlankOwnsNothing DEF NamesIn
    <2>2. ValuesIn(label) \cap CB = {} /\ ValuesIn(label') = ValuesIn(label) \cup CB
        BY ONLY <1>10, <1>11, <1>12, BlankOwnsNothing DEF ValuesIn
    <2>3. CA \in SUBSET Item /\ CB \in SUBSET Item
        BY <1>12
    <2> QED BY ONLY <2>1, <2>2, <2>3, MoreBuffers
<1>14. Cardinality(CA) = Cardinality(A) /\ Cardinality(CB) = Cardinality(B)
    <2>1. IsFiniteSet(A) /\ IsFiniteSet(B)
        BY <1>6, <1>8, ItemCount
    <2>2. /\ \A y \in A : copy[y] \in CA
          /\ \A x, y \in A : copy[x] = copy[y] => x = y
          /\ \A y \in B : copy[y] \in CB
          /\ \A x, y \in B : copy[x] = copy[y] => x = y
        BY <1>2, <1>6
    <2>3. (\A j \in CA : \E y \in A : j = copy[y]) /\ \A j \in CB : \E y \in B : j = copy[y]
        BY <1>6
    <2>4. Cardinality(CA) = Cardinality(A)
        BY ONLY <2>1, <2>2, <2>3, Images
    <2>5. Cardinality(CB) = Cardinality(B)
        BY ONLY <2>1, <2>2, <2>3, Images
    <2> QED BY <2>4, <2>5
<1> QED BY <1>3, <1>13, <1>14

\* The calls that create.
LEMMA CreateNextCounts ==
    ASSUME IInv, buffers = Counted(label), CreateNext
    PROVE  buffers' = Counted(label')
<1>1. /\ items \subseteq Item /\ \A i \in Item \ items : label[i] = Blank
      /\ label \in [Item -> Label] /\ buffers \in Int /\ NULL \in Pointer /\ NULL \notin Item
      /\ Item \subseteq Pointer
    BY ItemAssumption DEF IInv, ItemsTypeOK, Unallocated, Pointer
<1>2. ASSUME NEW i \in Item \ items, NEW value \in BOOLEAN, Create(i, value)
      PROVE  buffers' = Counted(label')
    <2> DEFINE v == IF value THEN i ELSE NULL
               l == [Blank EXCEPT !.value = v]
    <2>1. label' = [label EXCEPT ![i] = l] /\ buffers' = buffers + One(value)
        BY <1>1, <1>2 DEF Create
    <2>2. v \in Pointer /\ (v # NULL <=> value)
        BY <1>1
    <2>3. l \in Label /\ One(OwnsName(l)) = 0 /\ One(OwnsValue(l)) = One(value) /\ One(value) \in Int
        <3>1. l \in Label /\ ~OwnsName(l) /\ (OwnsValue(l) <=> v # NULL)
            BY ONLY <2>2, BlankOwns, Zenon
        <3> HIDE DEF l, v
        <3> QED BY <2>2, <3>1 DEF One
    <2> HIDE DEF l
    <2>4. buffers' = buffers + One(OwnsName(l)) + One(OwnsValue(l))
        BY <1>1, <2>1, <2>3
    <2> QED BY <2>1, <2>3, <2>4, FreshLabelCounts
<1>3. ASSUME NEW i \in Item \ items, NEW l \in Label, ~OwnsName(l), ~OwnsValue(l),
             label' = [label EXCEPT ![i] = l], buffers' = buffers
      PROVE  buffers' = Counted(label')
    <2>1. One(OwnsName(l)) = 0 /\ One(OwnsValue(l)) = 0
        BY <1>3 DEF One
    <2>2. buffers' = buffers + One(OwnsName(l)) + One(OwnsValue(l))
        BY <1>1, <1>3, <2>1
    <2> QED BY <1>3, <2>2, FreshLabelCounts
<1>4. ASSUME NEW i \in Item \ items, NEW first \in items, CreateReference(i, first)
      PROVE  buffers' = Counted(label')
    <2> DEFINE l == [Blank EXCEPT !.ref = TRUE]
    <2>1. label' = [label EXCEPT ![i] = l] /\ buffers' = buffers
        BY <1>1, <1>4 DEF CreateReference
    <2>2. l \in Label /\ ~OwnsName(l) /\ ~OwnsValue(l)
        BY <1>1, BlankOwns
    <2> HIDE DEF l
    <2> QED BY <1>3, <2>1, <2>2
<1>5. ASSUME NEW i \in Item \ items, NEW from \in items, CreateStringReference(i, from)
      PROVE  buffers' = Counted(label')
    <2> DEFINE l == [Blank EXCEPT !.ref = TRUE, !.value = label[from].value]
    <2>1. label' = [label EXCEPT ![i] = l] /\ buffers' = buffers
        BY <1>1, <1>5 DEF CreateStringReference
    <2>2. label[from].value \in Pointer
        BY <1>1 DEF Label
    <2>3. l \in Label /\ ~OwnsName(l) /\ ~OwnsValue(l)
        BY <2>2, BlankOwns
    <2> HIDE DEF l
    <2> QED BY <1>3, <2>1, <2>3
<1>6. ASSUME NEW count \in 1 .. Cardinality(Item) - 1, NEW strings \in BOOLEAN,
             NEW at \in [0 .. count -> Item \ items], CreateArray(count, at, strings)
      PROVE  buffers' = Counted(label')
    <2>1. count \in Nat \ {0}
        BY FS_CardinalityType, ItemAssumption
    <2> QED BY <1>6, <2>1, CreateArrayCounts
<1>7. ASSUME NEW i \in items, NEW recurse \in BOOLEAN,
             NEW copy \in [IF recurse THEN Below(i) ELSE {i} -> Item \ items], Duplicate(i, recurse, copy)
      PROVE  buffers' = Counted(label')
    BY <1>7, DuplicateCounts
<1> QED BY <1>2, <1>4, <1>5, <1>6, <1>7, Zenon DEF CreateNext

\* The calls that allocate an item and add it.
LEMMA AddNewNextCounts ==
    ASSUME IInv, buffers = Counted(label), AddNewNext
    PROVE  buffers' = Counted(label')
<1> PICK r \in Item \ items : \E p \in Places(r) :
        \/ \E name \in Key, value \in BOOLEAN : AddNewToObject(p, name, r, value)
        \/ \E i \in items : AddItemReferenceToArray(p, i, r)
        \/ \E i \in items, name \in Key : AddItemReferenceToObject(p, name, i, r)
    BY Zenon DEF AddNewNext
<1>1. /\ label[r] = Blank /\ label \in [Item -> Label] /\ buffers \in Int /\ items \subseteq Item
      /\ r \in Pointer /\ NULL \in Pointer /\ r # NULL /\ r \in Item /\ Blank \in Label
    BY ItemAssumption, LabelFacts DEF IInv, ItemsTypeOK, Unallocated, Pointer
<1>2. ASSUME NEW p, NEW name \in Key, NEW value \in BOOLEAN, AddNewToObject(p, name, r, value)
      PROVE  buffers' = Counted(label')
    <2> DEFINE v == IF value THEN r ELSE NULL
               l == [Blank EXCEPT !.string = name, !.value = v]
    <2>1. label' = [label EXCEPT ![r] = l] /\ buffers' = buffers + 1 + One(value)
        BY <1>1, <1>2 DEF AddNewToObject
    <2>2. v \in Pointer /\ (v # NULL <=> value)
        BY <1>1
    <2>3. l \in Label /\ OwnsName(l) /\ (OwnsValue(l) <=> v # NULL)
        BY ONLY <2>2, name \in Key, BlankOwns, Zenon
    <2> HIDE DEF l, v
    <2>4. One(OwnsName(l)) = 1 /\ One(OwnsValue(l)) = One(value) /\ One(value) \in Int
        BY <2>2, <2>3 DEF One
    <2>5. buffers' = buffers + One(OwnsName(l)) + One(OwnsValue(l))
        BY <1>1, <2>1, <2>4
    <2> QED BY <2>1, <2>3, <2>5, FreshLabelCounts
\* A reference owns its name only.
<1>3. ASSUME NEW l \in Label, ~OwnsValue(l), label' = [label EXCEPT ![r] = l],
             buffers' = buffers + One(OwnsName(l))
      PROVE  buffers' = Counted(label')
    <2>1. One(OwnsValue(l)) = 0 /\ One(OwnsName(l)) \in Int
        BY <1>3 DEF One
    <2>2. buffers' = buffers + One(OwnsName(l)) + One(OwnsValue(l))
        BY <1>1, <1>3, <2>1
    <2> QED BY <1>3, <2>2, FreshLabelCounts
<1>4. ASSUME NEW i \in items, label' = [label EXCEPT ![r] = create_reference(i)], buffers' = buffers
      PROVE  buffers' = Counted(label')
    <2> DEFINE l == create_reference(i)
    <2>1. label[i] \in Label
        BY <1>1
    <2>2. l \in Label /\ ~OwnsName(l) /\ ~OwnsValue(l)
        BY ONLY <2>1, RelabelOwns DEF create_reference
    <2>3. label' = [label EXCEPT ![r] = l]
        BY <1>4
    <2> HIDE DEF l
    <2>4. buffers' = buffers + One(OwnsName(l))
        BY <1>1, <1>4, <2>2 DEF One
    <2> QED BY <1>3, <2>2, <2>3, <2>4
<1>5. ASSUME NEW i \in items, NEW name \in Key, buffers' = buffers + 1,
             label' = [label EXCEPT ![r] = [create_reference(i) EXCEPT !.string = name, !.const = FALSE]]
      PROVE  buffers' = Counted(label')
    <2> DEFINE l == [create_reference(i) EXCEPT !.string = name, !.const = FALSE]
    <2>1. label[i] \in Label
        BY <1>1
    <2>2. l \in Label /\ OwnsName(l) /\ ~OwnsValue(l)
        BY ONLY <2>1, name \in Key, RelabelOwns, Zenon DEF create_reference
    <2>3. label' = [label EXCEPT ![r] = l]
        BY <1>5
    <2> HIDE DEF l
    <2>4. buffers' = buffers + One(OwnsName(l))
        BY <1>5, <2>2 DEF One
    <2> QED BY <1>3, <2>2, <2>3, <2>4
<1>6. ASSUME NEW p, NEW i \in items, AddItemReferenceToArray(p, i, r)
      PROVE  buffers' = Counted(label')
    <2>1. label' = [label EXCEPT ![r] = create_reference(i)] /\ buffers' = buffers
        BY <1>6 DEF AddItemReferenceToArray
    <2> QED BY <1>4, <2>1
<1>7. ASSUME NEW p, NEW i \in items, NEW name \in Key, AddItemReferenceToObject(p, name, i, r)
      PROVE  buffers' = Counted(label')
    <2>1. \/ /\ label' = [label EXCEPT ![r] = [create_reference(i) EXCEPT !.string = name, !.const = FALSE]]
             /\ buffers' = buffers + 1
          \/ label' = [label EXCEPT ![r] = create_reference(i)] /\ buffers' = buffers
        BY <1>7 DEF AddItemReferenceToObject
    <2> QED BY <1>4, <1>5, <2>1
<1> QED BY <1>2, <1>6, <1>7

\* cJSON_ReplaceItemViaPointer: the tree that goes does not hold i, whose label
\* may have changed.
LEMMA ReplaceCounts ==
    ASSUME IInv, buffers = Counted(label), NEW i \in held, NEW p \in Places(i), NEW old \in Children(p),
           NEW labels, NEW bufs, bufs = Counted(labels), \A j \in Item \ {i} : labels[j] = label[j],
           ReplaceItemViaPointer(p, old, i, labels, bufs)
    PROVE  buffers' = Counted(label')
<1> DEFINE gone == Tree(old)
<1>1. i \in Item /\ Root(i) /\ p \in items /\ ~label[p].ref
    BY LinkFacts DEF IInv, ItemsTypeOK, HeldAreRoots, Places
<1>2. old \in Item /\ ~Root(old)
    BY <1>1, Listed, LinkFacts
<1>3. gone \in SUBSET Item
    BY <1>2, TreeClosed, LinkFacts
<1>4. i \notin gone
    <2>1. SUFFICES ASSUME i \in gone PROVE FALSE
        OBVIOUS
    <2>2. PICK y \in Tree(old) : (~label[y].ref /\ child[y] = i) \/ (y # old /\ next[y] = i)
        BY <1>1, <1>2, <2>1, TreeEntered
    <2>3. y \in Item
        BY <1>2, TreeClosed, LinkFacts
    <2> QED BY <1>1, <2>2, <2>3, LinkFacts DEF Root
<1>5. /\ \A j \in Item : label'[j] = IF j \in gone THEN Blank ELSE labels[j]
      /\ buffers' = bufs - BuffersOf(gone)
    BY DEF ReplaceItemViaPointer, FreeItems
<1> HIDE DEF gone
<1>6. \A j \in gone : labels[j] = label[j]
    BY <1>3, <1>4
<1>7. Counted(label') = Counted(labels) - BuffersOf(gone)
    BY ONLY <1>3, <1>5, <1>6, FreedLabels
<1> QED BY <1>5, <1>7

\* The name that replace_item_in_object gives the replacement.
LEMMA RenameCounts ==
    ASSUME IInv, buffers = Counted(label), NEW i \in Item, NEW s \in Key \cup {NULL}
    PROVE  Counted(NewName(i, s)) = buffers + One(s # NULL) - NameFreed(i)
<1> DEFINE l == [label[i] EXCEPT !.string = s, !.const = FALSE]
           m == NewName(i, s)
<1>1. label[i] \in Label /\ label \in [Item -> Label] /\ NULL \notin Key
    BY ItemAssumption DEF IInv, ItemsTypeOK
<1>2. m[i] = l /\ \A j \in Item \ {i} : m[j] = label[j]
    BY <1>1 DEF NewName
<1>3. (OwnsName(l) <=> s # NULL) /\ (OwnsValue(l) <=> OwnsValue(label[i]))
    <2>1. CASE s \in Key
        BY ONLY <1>1, <2>1, RelabelOwns, Zenon
    <2>2. CASE s = NULL
        BY ONLY <1>1, <2>2, RelabelOwns, Zenon
    <2> QED BY <2>1, <2>2
<1> HIDE DEF l, m
<1>4. /\ Counted(m) = Counted(label) + (One(OwnsName(m[i])) - One(OwnsName(label[i])))
                                     + (One(OwnsValue(m[i])) - One(OwnsValue(label[i])))
      /\ Counted(label) \in Int /\ \A b : One(b) \in Int
    <2>1. i \in Item
        OBVIOUS
    <2> QED BY ONLY <1>2, <2>1, OneLabel
<1>5. /\ One(OwnsName(m[i])) = One(s # NULL) /\ One(OwnsName(label[i])) = NameFreed(i)
      /\ One(OwnsValue(m[i])) = One(OwnsValue(label[i]))
    BY <1>2, <1>3 DEF One, NameFreed
<1>6. /\ One(s # NULL) \in Int /\ NameFreed(i) \in Int /\ One(OwnsValue(label[i])) \in Int
    BY DEF One, NameFreed
<1>7. Counted(m) = buffers + One(s # NULL) - NameFreed(i)
    BY <1>4, <1>5, <1>6
<1> QED BY <1>7 DEF m

\* replace_item_in_object.
LEMMA ReplaceItemInObjectCounts ==
    ASSUME IInv, buffers = Counted(label), NEW i \in held, NEW name \in Key, ReplaceItemInObject(name, i)
    PROVE  buffers' = Counted(label')
<1> DEFINE bufs(copy) == buffers + One(copy # NULL) - NameFreed(i)
<1>1. i \in Item
    BY LinkFacts DEF IInv, ItemsTypeOK
<1>2. ASSUME NEW copy \in {name, NULL}
      PROVE  bufs(copy) = Counted(NewName(i, copy)) /\ \A j \in Item \ {i} : NewName(i, copy)[j] = label[j]
    <2>1. copy \in Key \cup {NULL}
        OBVIOUS
    <2>2. bufs(copy) = Counted(NewName(i, copy))
        BY <1>1, <2>1, RenameCounts
    <2>3. \A j \in Item \ {i} : NewName(i, copy)[j] = label[j]
        BY DEF NewName, IInv, ItemsTypeOK
    <2> QED BY <2>2, <2>3
<1>3. ASSUME NEW p \in Places(i), NEW old \in Children(p), NEW copy \in {name, NULL},
             ReplaceItemViaPointer(p, old, i, NewName(i, copy), bufs(copy))
      PROVE  buffers' = Counted(label')
    <2> HIDE DEF bufs
    <2> QED BY <1>2, <1>3, ReplaceCounts
<1>4. ASSUME NEW copy \in {name, NULL}, label' = NewName(i, copy), buffers' = bufs(copy)
      PROVE  buffers' = Counted(label')
    BY <1>2, <1>4
<1> QED BY <1>3, <1>4, Zenon DEF ReplaceItemInObject

\* The calls that the caller hands an item over to.
LEMMA AddHeldNextCounts ==
    ASSUME IInv, buffers = Counted(label), AddHeldNext
    PROVE  buffers' = Counted(label')
<1> PICK i \in held :
        \/ \E p \in Places(i) :
              \/ AddItemToArray(p, i)
              \/ \E name \in Key, constant \in BOOLEAN : AddItemToObject(p, name, constant, i)
              \/ InsertItemInArray(p, i)
              \/ ReplaceItemInArray(p, i)
        \/ \E name \in Key : ReplaceItemInObject(name, i)
    BY Zenon DEF AddHeldNext
<1>1. i \in Item /\ label \in [Item -> Label] /\ label[i] \in Label /\ buffers \in Int
    BY LinkFacts DEF IInv, ItemsTypeOK
<1>2. ASSUME NEW p, AddItemToArray(p, i) \/ InsertItemInArray(p, i)
      PROVE  buffers' = Counted(label')
    <2>1. label' = label /\ buffers' = buffers
        BY <1>2 DEF AddItemToArray, InsertItemInArray
    <2> QED BY <2>1
<1>3. ASSUME NEW p, NEW name \in Key, NEW constant \in BOOLEAN, AddItemToObject(p, name, constant, i)
      PROVE  buffers' = Counted(label')
    <2> DEFINE l == [label[i] EXCEPT !.string = name, !.const = constant]
    <2>1. label' = [label EXCEPT ![i] = l] /\ buffers' = buffers + One(~constant) - NameFreed(i)
        BY <1>1, <1>3 DEF AddItemToObject
    <2>2. l \in Label /\ (OwnsName(l) <=> ~constant) /\ (OwnsValue(l) <=> OwnsValue(label[i]))
        BY ONLY <1>1, name \in Key, constant \in BOOLEAN, RelabelOwns, Zenon
    <2> HIDE DEF l
    <2>3. /\ One(OwnsName(l)) = One(~constant) /\ One(OwnsName(label[i])) = NameFreed(i)
          /\ One(OwnsValue(l)) = One(OwnsValue(label[i]))
          /\ One(~constant) \in Int /\ NameFreed(i) \in Int /\ One(OwnsValue(l)) \in Int
        BY <2>2 DEF One, NameFreed
    <2>4. buffers' = buffers + (One(OwnsName(l)) - One(OwnsName(label[i])))
                             + (One(OwnsValue(l)) - One(OwnsValue(label[i])))
        BY <1>1, <2>1, <2>3
    <2> QED BY <1>1, <2>1, <2>2, <2>4, OneLabelCounts
<1>4. ASSUME NEW p \in Places(i), ReplaceItemInArray(p, i)
      PROVE  buffers' = Counted(label')
    <2>1. PICK old \in Children(p) : ReplaceItemViaPointer(p, old, i, label, buffers)
        BY <1>4, Zenon DEF ReplaceItemInArray
    <2> QED BY <2>1, ReplaceCounts
<1>5. ASSUME NEW name \in Key, ReplaceItemInObject(name, i)
      PROVE  buffers' = Counted(label')
    BY <1>5, ReplaceItemInObjectCounts
<1> QED BY <1>2, <1>3, <1>4, <1>5

\* The calls that detach and delete.
LEMMA RemoveNextCounts ==
    ASSUME IInv, buffers = Counted(label), RemoveNext
    PROVE  buffers' = Counted(label')
<1>1. ASSUME NEW i \in items, FreeItems(Tree(i), label), buffers' = buffers - BuffersOf(Tree(i))
      PROVE  buffers' = Counted(label')
    <2> DEFINE gone == Tree(i)
    <2>1. gone \in SUBSET Item
        BY TreeClosed, LinkFacts
    <2>2. \A j \in Item : label'[j] = IF j \in gone THEN Blank ELSE label[j]
        BY <1>1 DEF FreeItems
    <2>3. buffers' = buffers - BuffersOf(gone)
        BY <1>1
    <2> HIDE DEF gone
    <2>4. \A j \in gone : label[j] = label[j]
        OBVIOUS
    <2>5. Counted(label') = Counted(label) - BuffersOf(gone)
        BY ONLY <2>1, <2>2, <2>4, FreedLabels
    <2> QED BY <2>3, <2>5
<1>2. ASSUME NEW i \in held, Delete(i)
      PROVE  buffers' = Counted(label')
    <2>1. i \in items /\ FreeItems(Tree(i), label) /\ buffers' = buffers - BuffersOf(Tree(i))
        BY <1>2 DEF Delete, IInv, ItemsTypeOK
    <2> QED BY <1>1, <2>1
<1>3. ASSUME NEW p, NEW i, Detach(p, i)
      PROVE  buffers' = Counted(label')
    <2>1. label' = label /\ buffers' = buffers
        BY <1>3 DEF Detach
    <2> QED BY <2>1
<1>4. ASSUME NEW p \in items, ~label[p].ref, NEW i \in Children(p), DetachAndDelete(p, i)
      PROVE  buffers' = Counted(label')
    <2>1. i \in items
        BY <1>4, ChildrenEntered
    <2>2. FreeItems(Tree(i), label) /\ buffers' = buffers - BuffersOf(Tree(i))
        BY <1>4 DEF DetachAndDelete
    <2> QED BY <1>1, <2>1, <2>2
<1> QED BY <1>2, <1>3, <1>4, Zenon DEF RemoveNext

\* Every call.
LEMMA NextCounts ==
    ASSUME IInv, buffers = Counted(label), [ItemsNext]_itemVars
    PROVE  buffers' = Counted(label')
<1>1. CASE CreateNext
    BY <1>1, CreateNextCounts
<1>2. CASE AddNewNext
    BY <1>2, AddNewNextCounts
<1>3. CASE AddHeldNext
    BY <1>3, AddHeldNextCounts
<1>4. CASE RemoveNext
    BY <1>4, RemoveNextCounts
<1>5. CASE UNCHANGED itemVars
    <2>1. label' = label /\ buffers' = buffers
        BY <1>5 DEF itemVars
    <2> QED BY <2>1
<1> QED BY <1>1, <1>2, <1>3, <1>4, <1>5 DEF ItemsNext

\* Every name and value that cJSON.c allocates belongs to exactly one item
\* until it is freed: cJSON_IsReference and cJSON_StringIsConst are set and
\* cleared by every function as the ownership of the buffers asks, for every
\* number of items, names and labels.
THEOREM BuffersOwnedHolds == ItemsSpec => []BuffersOwned
<1> DEFINE Inv == IInv /\ buffers = Counted(label)
<1>1. ItemsInit => Inv
    <2>1. ASSUME ItemsInit PROVE buffers = Counted(label)
        <3>1. NamesIn(label) = {} /\ ValuesIn(label) = {}
            BY <2>1, BlankOwnsNothing DEF ItemsInit, NamesIn, ValuesIn
        <3>2. Cardinality({}) = 0
            BY FS_EmptySet
        <3> QED BY <2>1, <3>1, <3>2 DEF ItemsInit, Counted
    <2> QED BY <2>1, InitHolds
<1>2. Inv /\ [ItemsNext]_itemVars => Inv'
    <2>1. ASSUME Inv, [ItemsNext]_itemVars PROVE Inv'
        <3>1. IInv'
            BY <2>1, NextKeeps
        <3>2. buffers' = Counted(label')
            BY <2>1, NextCounts
        <3> QED BY <3>1, <3>2 DEF Counted, NamesIn, ValuesIn
    <2> QED BY <2>1
<1>3. Inv => BuffersOwned
    BY AllocatedBuffers DEF BuffersOwned
<1> QED BY <1>1, <1>2, <1>3, PTL DEF ItemsSpec

-----------------------------------------------------------------------------
(* The sequence that a walk along next makes.                              *)

At(s, n) == IF n \in 1 .. Len(s) THEN s[n] ELSE NULL

\* The items that a walk from first meets, in order, up to the last.
Listing(s, first, nx) ==
    /\ s \in Seq(Item)
    /\ first = At(s, 1)
    /\ \A n \in 1 .. Len(s) : nx[s[n]] = At(s, n + 1)

\* What Kids computes, for any next.
Walk(nx) == CHOOSE from : from = [i \in Pointer |-> IF i = NULL THEN <<>> ELSE <<i>> \o from[nx[i]]]

\* Kids walks along next.
LEMMA KidsWalk == \A p : Kids(p) = Walk(next)[child[p]]
BY DEF Kids, Walk

\* Before a walk comes the item whose next is its first.
LEMMA ListingFrom ==
    ASSUME NEW nx, NEW i \in Item, NEW s, Listing(s, nx[i], nx)
    PROVE  Listing(<<i>> \o s, i, nx)
<1> DEFINE t == <<i>> \o s
<1>1. s \in Seq(Item) /\ nx[i] = At(s, 1) /\ \A n \in 1 .. Len(s) : nx[s[n]] = At(s, n + 1)
    BY DEF Listing
<1>2. t \in Seq(Item) /\ Len(t) = Len(s) + 1 /\ t[1] = i /\ \A n \in 1 .. Len(s) : t[n + 1] = s[n]
    BY <1>1
<1>3. Len(s) \in Nat
    BY <1>1
<1> HIDE DEF t
<1>4. \A n \in 1 .. Len(s) + 1 : At(t, n + 1) = At(s, n)
    BY <1>2, <1>3 DEF At
<1>5. ASSUME NEW n \in 1 .. Len(t) PROVE nx[t[n]] = At(t, n + 1)
    <2>1. CASE n = 1
        BY <1>1, <1>2, <1>3, <1>4, <2>1
    <2>2. CASE n # 1
        <3>1. n - 1 \in 1 .. Len(s) /\ (n - 1) + 1 = n
            BY <1>2, <1>3, <2>2
        <3>2. t[n] = s[n - 1] /\ nx[s[n - 1]] = At(s, n)
            BY <1>1, <1>2, <3>1
        <3> QED BY <1>2, <1>4, <3>2
    <2> QED BY <2>1, <2>2
<1>6. At(t, 1) = i
    BY <1>2, <1>3 DEF At
<1> QED BY <1>2, <1>5, <1>6 DEF Listing, t

\* There is one walk from an item.
LEMMA OneListing ==
    ASSUME NEW nx, NEW i, NEW s, NEW t, Listing(s, i, nx), Listing(t, i, nx)
    PROVE  s = t
<1>1. /\ s \in Seq(Item) /\ t \in Seq(Item) /\ At(s, 1) = At(t, 1) /\ NULL \notin Item
      /\ \A n \in 1 .. Len(s) : nx[s[n]] = At(s, n + 1)
      /\ \A n \in 1 .. Len(t) : nx[t[n]] = At(t, n + 1)
    BY ItemAssumption DEF Listing
<1>2. Len(s) \in Nat /\ Len(t) \in Nat
    BY <1>1
<1>3. /\ \A n \in 1 .. Len(s) : s[n] \in Item
      /\ \A n \in 1 .. Len(t) : t[n] \in Item
    BY <1>1
<1> DEFINE N == {n \in Nat \ {0} : At(s, n) # At(t, n)}
<1>4. N = {}
    <2> SUFFICES ASSUME N # {} PROVE FALSE
        OBVIOUS
    <2>1. PICK n \in N : \A m \in N : n <= m
        <3>1. N \in (SUBSET Nat) \ {{}}
            OBVIOUS
        <3> QED BY ONLY <3>1, LeastNumber
    <2>2. n \in Nat /\ n > 1 /\ At(s, n) # At(t, n)
        BY <1>1, <2>1
    <2>3. n - 1 \in Nat \ {0} /\ (n - 1) + 1 = n /\ n - 1 \notin N
        BY <2>1, <2>2
    <2>4. At(s, n - 1) = At(t, n - 1)
        BY <2>3
    <2>5. CASE n - 1 \in 1 .. Len(s)
        BY <1>1, <1>2, <1>3, <2>2, <2>3, <2>4, <2>5 DEF At
    <2>6. CASE n - 1 \notin 1 .. Len(s)
        <3>1. n - 1 \notin 1 .. Len(t)
            BY <1>1, <1>3, <2>4, <2>6 DEF At
        <3>2. n \notin 1 .. Len(s) /\ n \notin 1 .. Len(t)
            BY <1>2, <2>2, <2>6, <3>1
        <3> QED BY <2>2, <3>2 DEF At
    <2> QED BY <2>5, <2>6
<1>5. \A n \in Nat \ {0} : At(s, n) = At(t, n)
    BY <1>4
<1>6. \A n \in Nat \ {0} : n \in 1 .. Len(s) <=> n \in 1 .. Len(t)
    BY <1>1, <1>3, <1>5 DEF At
<1>7. Len(s) = Len(t)
    <2>1. \A a, b \in Nat : (\A n \in Nat \ {0} : n \in 1 .. a <=> n \in 1 .. b) => a <= b
        <3> SUFFICES ASSUME NEW a \in Nat, NEW b \in Nat, \A n \in Nat \ {0} : n \in 1 .. a <=> n \in 1 .. b
                     PROVE  a <= b
            OBVIOUS
        <3>1. CASE a = 0
            BY <3>1
        <3>2. CASE a # 0
            BY <3>2
        <3> QED BY <3>1, <3>2
    <2> QED BY <1>2, <1>6, <2>1
<1>8. \A n \in 1 .. Len(s) : s[n] = t[n]
    BY <1>2, <1>5, <1>7 DEF At
<1> QED BY <1>1, <1>7, <1>8, SeqEqual

\* When every walk ends, the recursive function exists.
LEMMA WalkDefined ==
    ASSUME NEW nx, \A i \in Item : nx[i] \in Pointer, \A i \in Pointer : \E s : Listing(s, i, nx)
    PROVE  Walk(nx) = [i \in Pointer |-> IF i = NULL THEN <<>> ELSE <<i>> \o Walk(nx)[nx[i]]]
<1> DEFINE list(i) == CHOOSE s : Listing(s, i, nx)
           g       == [i \in Pointer |-> list(i)]
<1>1. \A i \in Pointer : Listing(list(i), i, nx)
    OBVIOUS
<1> HIDE DEF list
<1>2. \A i \in Pointer : g[i] = list(i)
    OBVIOUS
<1>3. ASSUME NEW i \in Pointer
      PROVE  list(i) = IF i = NULL THEN <<>> ELSE <<i>> \o g[nx[i]]
    <2>1. CASE i = NULL
        <3>1. list(i) \in Seq(Item) /\ NULL \notin Item /\ At(list(i), 1) = NULL
            BY <1>1, <2>1, ItemAssumption DEF Listing
        <3>2. Len(list(i)) \in Nat /\ \A n \in 1 .. Len(list(i)) : list(i)[n] \in Item
            BY <3>1
        <3>3. ~(1 \in 1 .. Len(list(i)))
            BY <3>1, <3>2 DEF At
        <3>4. Len(list(i)) = 0
            BY <3>2, <3>3
        <3>5. list(i) = <<>>
            BY ONLY <3>1, <3>4, EmptySeq
        <3> QED BY <2>1, <3>5
    <2>2. CASE i # NULL
        <3>1. i \in Item /\ nx[i] \in Pointer
            BY <2>2 DEF Pointer
        <3>2. Listing(list(nx[i]), nx[i], nx)
            BY <1>1, <3>1
        <3>3. Listing(<<i>> \o list(nx[i]), i, nx)
            BY ONLY <3>1, <3>2, ListingFrom
        <3>4. list(i) = <<i>> \o list(nx[i])
            BY ONLY <1>1, <3>3, OneListing, <3>1, i \in Pointer
        <3> QED BY <1>2, <2>2, <3>1, <3>4
    <2> QED BY <2>1, <2>2
<1>4. g = [i \in Pointer |-> IF i = NULL THEN <<>> ELSE <<i>> \o g[nx[i]]]
    BY <1>3
<1> HIDE DEF g
<1> QED BY <1>4 DEF Walk

\* What Kids computes is the walk.
LEMMA WalkListing ==
    ASSUME NEW nx, \A i \in Item : nx[i] \in Pointer, \A i \in Pointer : \E s : Listing(s, i, nx),
           NEW first, NEW s, Listing(s, first, nx)
    PROVE  Walk(nx)[first] = s
<1> DEFINE W == Walk(nx)
<1>1. /\ \A i \in Item : W[i] = <<i>> \o W[nx[i]]
      /\ W[NULL] = <<>>
    <2>1. W = [i \in Pointer |-> IF i = NULL THEN <<>> ELSE <<i>> \o W[nx[i]]]
        BY WalkDefined
    <2> HIDE DEF W
    <2>2. NULL \in Pointer /\ \A i \in Item : i \in Pointer /\ i # NULL
        BY ItemAssumption DEF Pointer
    <2> QED BY <2>1, <2>2
<1> HIDE DEF W
<1>2. /\ s \in Seq(Item) /\ first = At(s, 1)
      /\ \A n \in 1 .. Len(s) : nx[s[n]] = At(s, n + 1)
    BY DEF Listing
<1>3. Len(s) \in Nat /\ \A n \in 1 .. Len(s) : s[n] \in Item
    BY <1>2
<1> DEFINE N == {d \in 0 .. Len(s) : W[At(s, Len(s) + 1 - d)] # SubSeq(s, Len(s) + 1 - d, Len(s))}
<1>4. N = {}
    <2> SUFFICES ASSUME N # {} PROVE FALSE
        OBVIOUS
    <2>1. PICK d \in N : \A m \in N : d <= m
        <3>1. N \in (SUBSET Nat) \ {{}}
            BY <1>3
        <3> QED BY ONLY <3>1, LeastNumber
    <2> DEFINE n == Len(s) + 1 - d
    <2>2. d \in 0 .. Len(s) /\ n \in 1 .. Len(s) + 1 /\ W[At(s, n)] # SubSeq(s, n, Len(s))
        BY <1>3
    <2>3. CASE d = 0
        <3>1. At(s, n) = NULL /\ n = Len(s) + 1
            BY <1>3, <2>3 DEF At
        <3>2. SubSeq(s, n, Len(s)) = <<>>
            BY <1>2, <1>3, <3>1
        <3> QED BY <1>1, <2>2, <3>1, <3>2
    <2>4. CASE d # 0
        <3>1. d - 1 \in 0 .. Len(s) /\ ~(d <= d - 1) /\ n \in 1 .. Len(s) /\ Len(s) + 1 - (d - 1) = n + 1
            BY <1>3, <2>2, <2>4
        <3>2. W[At(s, n + 1)] = SubSeq(s, n + 1, Len(s))
            BY <2>1, <3>1
        <3>3. At(s, n) = s[n] /\ s[n] \in Item /\ nx[s[n]] = At(s, n + 1)
            BY <1>2, <1>3, <3>1 DEF At
        <3>4. W[At(s, n)] = <<s[n]>> \o SubSeq(s, n + 1, Len(s))
            BY <1>1, <3>2, <3>3
        <3> HIDE DEF n
        <3>5. SubSeq(s, n, Len(s)) = <<s[n]>> \o SubSeq(s, n + 1, Len(s))
            <4> DEFINE a == SubSeq(s, n, Len(s))
                       b == SubSeq(s, n + 1, Len(s))
                       c == <<s[n]>> \o b
            <4>1. /\ n \in Nat \ {0} /\ n <= Len(s) /\ Len(s) \in Nat
                  /\ \A m \in n .. Len(s) : s[m] \in Item
                BY <1>3, <3>1
            <4>2. /\ a \in Seq(Item) /\ Len(a) = Len(s) - n + 1
                  /\ \A m \in 1 .. Len(s) - n + 1 : a[m] = s[n + m - 1]
                <5>1. n \in Int /\ Len(s) \in Int
                    BY <4>1
                <5>2. a \in Seq(Item) /\ Len(a) = (IF n <= Len(s) THEN Len(s) - n + 1 ELSE 0)
                      /\ \A m \in 1 .. Len(s) - n + 1 : a[m] = s[n + m - 1]
                    BY ONLY <4>1, <5>1, SubSeqProperties
                <5> QED BY <4>1, <5>2
            <4>3. /\ b \in Seq(Item) /\ Len(b) = Len(s) - n
                  /\ \A m \in 1 .. Len(s) - n : b[m] = s[n + m]
                <5>1. n + 1 \in Int /\ Len(s) \in Int /\ \A m \in n + 1 .. Len(s) : s[m] \in Item
                    BY <4>1
                <5>2. /\ b \in Seq(Item)
                      /\ Len(b) = (IF n + 1 <= Len(s) THEN Len(s) - (n + 1) + 1 ELSE 0)
                      /\ \A m \in 1 .. Len(s) - (n + 1) + 1 : b[m] = s[n + 1 + m - 1]
                    BY ONLY <5>1, SubSeqProperties
                <5> HIDE DEF b
                <5>3. Len(b) = Len(s) - n
                    BY ONLY <4>1, <5>2
                <5>4. ASSUME NEW m \in 1 .. Len(s) - n PROVE b[m] = s[n + m]
                    <6>1. m \in 1 .. Len(s) - (n + 1) + 1 /\ n + 1 + m - 1 = n + m
                        BY ONLY <4>1, m \in 1 .. Len(s) - n
                    <6> QED BY <5>2, <6>1
                <5> QED BY <5>2, <5>3, <5>4
            <4> HIDE DEF a, b
            <4>4. c \in Seq(Item) /\ Len(c) = Len(s) - n + 1 /\ c[1] = s[n]
                  /\ \A m \in 2 .. Len(s) - n + 1 : c[m] = b[m - 1]
                <5>1. c \in Seq(Item) /\ Len(c) = Len(b) + 1 /\ c[1] = s[n]
                      /\ \A m \in 2 .. Len(b) + 1 : c[m] = b[m - 1]
                    BY ONLY <3>3, <4>3
                <5> HIDE DEF c
                <5> QED BY ONLY <4>1, <4>3, <5>1
            <4> HIDE DEF c
            <4>41. ASSUME NEW m \in 1 .. Len(a) PROVE a[m] = c[m]
                <5>1. m \in 1 .. Len(s) - n + 1 /\ a[m] = s[n + m - 1]
                    BY <4>2
                <5>2. CASE m = 1
                    <6>1. n + m - 1 = n
                        BY <4>1, <5>2
                    <6> QED BY <4>4, <5>1, <5>2, <6>1
                <5>3. CASE m # 1
                    <6>1. m - 1 \in 1 .. Len(s) - n /\ m \in 2 .. Len(s) - n + 1 /\ n + (m - 1) = n + m - 1
                        BY ONLY <4>1, <5>1, <5>3
                    <6>2. c[m] = b[m - 1] /\ b[m - 1] = s[n + (m - 1)]
                        BY <4>3, <4>4, <6>1
                    <6> QED BY <5>1, <6>1, <6>2
                <5> QED BY <5>2, <5>3
            <4>5. a = c
                <5>1. Len(a) = Len(c)
                    BY <4>2, <4>4
                <5> QED BY ONLY <4>2, <4>4, <4>41, <5>1, SeqEqual
            <4> QED BY <4>5 DEF a, b, c
        <3> QED BY <2>2, <3>4, <3>5
    <2> QED BY <2>3, <2>4
<1>5. W[At(s, 1)] = SubSeq(s, 1, Len(s))
    <2>1. Len(s) \in 0 .. Len(s) /\ Len(s) + 1 - Len(s) = 1
        BY <1>3
    <2> QED BY <1>4, <2>1
<1>6. SubSeq(s, 1, Len(s)) = s
    BY <1>2
<1> QED BY <1>2, <1>5, <1>6 DEF W

\* Every walk ends: next leads each item of a set to another one of it only
\* when no item of the set is the first.
Ends == \A i \in Pointer : \E s : Listing(s, i, next)

\* No arc is no link.
LEMMA NoArc ==
    ASSUME IInv, NEW x \in items, NEW y \in items, <<x, y>> \notin Arcs
    PROVE  next[x] # y /\ (label[x].ref \/ child[x] # y)
<1>1. prev[y] # x /\ (label[x].ref \/ child[x] # y)
    BY DEF Arcs
<1>2. x \in Item /\ y \in Item
    BY LinkFacts
<1> QED BY <1>1, <1>2, LinkFacts

\* Every walk ends: otherwise next maps the items from which one does not end
\* one to one into, and so onto, themselves, which the links forbid.
LEMMA WalksEnd == ASSUME IInv PROVE Ends
<1> DEFINE U == {i \in items : \A s : ~Listing(s, i, next)}
<1>1. /\ items \subseteq Item /\ NULL \notin Item /\ IsFiniteSet(Item)
      /\ \A i \in Item : next[i] \in items \cup {NULL}
      /\ \A i, j \in Item : next[i] = j <=> prev[j] = i
      /\ \A i \in Item \ items : next[i] = NULL
    BY LinkFacts, ItemAssumption DEF Root
<1>2. Listing(<<>>, NULL, next)
    BY DEF Listing, At
<1>3. ASSUME NEW i \in Item, NEW s, Listing(s, next[i], next)
      PROVE  \E t : Listing(t, i, next)
    BY <1>3, ListingFrom
<1>4. SUFFICES ASSUME U # {} PROVE FALSE
    <2>1. ASSUME NEW i \in Item PROVE \E s : Listing(s, i, next)
        <3>1. CASE i \in items
            BY <1>4, <3>1
        <3>2. CASE i \notin items
            BY <1>1, <1>2, <1>3, <3>2
        <3> QED BY <3>1, <3>2
    <2> QED BY <1>2, <2>1 DEF Ends, Pointer
<1>5. ASSUME NEW i \in U PROVE next[i] \in U
    <2>1. i \in Item /\ \A s : ~Listing(s, i, next)
        BY <1>1
    <2>2. \A s : ~Listing(s, next[i], next)
        BY <1>3, <2>1
    <2>3. next[i] \in items
        BY <1>1, <1>2, <2>1, <2>2
    <2> QED BY <2>2, <2>3
<1> DEFINE f == [i \in U |-> next[i]]
<1>6. f \in Injection(U, U)
    <2>1. f \in [U -> U]
        BY <1>5
    <2>2. \A i, j \in U : f[i] = f[j] => i = j
        BY <1>1, <1>5
    <2> HIDE DEF f, U
    <2> QED BY <2>1, <2>2 DEF Injection, IsInjective
<1>7. IsFiniteSet(U)
    BY <1>1, FS_Subset
<1>8. f \in Surjection(U, U)
    BY ONLY <1>6, <1>7, FS_Injection
<1>9. \A y \in U : \E x \in U : next[x] = y
    <2>1. \A y \in U : \E x \in U : f[x] = y
        BY <1>8 DEF Surjection
    <2> QED BY <2>1
<1>10. PICK y \in U : \A x \in U : <<x, y>> \notin Arcs
    BY <1>4, LinkFacts DEF NoCycle
<1>11. PICK x \in U : next[x] = y
    BY <1>9
<1>12. x \in items /\ y \in items /\ <<x, y>> \notin Arcs
    BY <1>1, <1>10
<1> QED BY <1>11, <1>12, NoArc

\* The same after a call.
LEMMA WalksEndNext == IInv' => Ends'
<1>1. IInv => Ends
    BY WalksEnd
<1> QED BY <1>1, PTL

-----------------------------------------------------------------------------
(* The sequences of children.                                              *)

Holds(p)   == p \in items /\ ~label[p].ref
Members(s) == {s[n] : n \in 1 .. Len(s)}

\* The walk from the first child is the sequence of the children.
LEMMA ListOf ==
    ASSUME IInv, NEW p \in Item, Holds(p), NEW s, Listing(s, child[p], next)
    PROVE  ChildLists[p] = s
<1>1. \A i \in Item : next[i] \in Pointer
    BY DEF IInv, ItemsTypeOK
<1>2. \A i \in Pointer : \E t : Listing(t, i, next)
    BY WalksEnd DEF Ends
<1>3. ChildLists[p] = Walk(next)[child[p]]
    BY KidsWalk DEF ChildLists, Holds
<1> QED BY ONLY <1>1, <1>2, <1>3, WalkListing, Listing(s, child[p], next)

\* The same after a call.
LEMMA ListOfNext ==
    ASSUME IInv', NEW p \in Item, p \in items', ~label'[p].ref, NEW s, Listing(s, child'[p], next')
    PROVE  ChildLists'[p] = s
<1>1. \A i \in Item : next'[i] \in Pointer
    BY DEF IInv, ItemsTypeOK
<1>2. \A i \in Pointer : \E t : Listing(t, i, next')
    BY WalksEndNext DEF Ends, Listing
<1>3. ChildLists'[p] = Walk(next')[child'[p]]
    BY DEF ChildLists, Kids, Walk
<1> QED BY ONLY <1>1, <1>2, <1>3, WalkListing, Listing(s, child'[p], next')

\* Neither a free item nor a reference has a list.
LEMMA NoListNext ==
    ASSUME NEW p \in Item, p \notin items' \/ label'[p].ref
    PROVE  ChildLists'[p] = <<>>
BY DEF ChildLists

\* Every list is what its links say, in one order.
Linked(p) ==
    /\ ChildLists[p] \in Seq(Item)
    /\ Holds(p) => Listing(ChildLists[p], child[p], next)
    /\ Members(ChildLists[p]) = IF Holds(p) THEN Children(p) ELSE {}
    /\ \A m, n \in 1 .. Len(ChildLists[p]) : ChildLists[p][m] = ChildLists[p][n] => m = n
AllLinked == \A p \in Item : Linked(p)

\* So it is for every item.
LEMMA ListLinked ==
    ASSUME IInv, NEW p \in Item
    PROVE  Linked(p)
<1>1. CASE ~Holds(p)
    <2>1. ChildLists[p] = <<>>
        BY <1>1 DEF ChildLists, Holds
    <2> QED BY <1>1, <2>1 DEF Linked, Members
<1>2. CASE Holds(p)
    <2>1. /\ p \in items /\ ~label[p].ref /\ child[p] \in Pointer /\ NULL \notin Item
          /\ \A i, j \in Item : next[i] = j <=> prev[j] = i
          /\ (child[p] # NULL => prev[child[p]] = NULL)
        BY <1>2, LinkFacts DEF Holds, Pointer
    <2>2. PICK s : Listing(s, child[p], next)
        BY <2>1, WalksEnd DEF Ends
    <2>3. ChildLists[p] = s
        BY <1>2, <2>2, ListOf
    <2>4. s \in Seq(Item) /\ child[p] = At(s, 1) /\ \A n \in 1 .. Len(s) : next[s[n]] = At(s, n + 1)
        BY <2>2 DEF Listing
    <2>5. Len(s) \in Nat /\ \A n \in 1 .. Len(s) : s[n] \in Item
        BY <2>4
    <2>6. Children(p) \subseteq Members(s)
        <3>1. Members(s) \in SUBSET Item
            BY <2>5 DEF Members
        <3>2. \A n \in Nat : At(s, n) \in Members(s) \cup {NULL}
            BY DEF At, Members
        <3>3. \A y \in Members(s) : next[y] \in Members(s) \cup {NULL}
            BY <2>4, <2>5, <3>2 DEF Members
        <3>4. child[p] \in Members(s) \cup {NULL}
            BY <2>4, <3>2
        <3> QED BY <3>1, <3>3, <3>4, ChildrenLeast
    <2>7. \A n \in 1 .. Len(s) : s[n] \in Children(p)
        <3> DEFINE N == {n \in 1 .. Len(s) : s[n] \notin Children(p)}
        <3> SUFFICES ASSUME N # {} PROVE FALSE
            OBVIOUS
        <3>1. PICK n \in N : \A m \in N : n <= m
            <4>1. N \in (SUBSET Nat) \ {{}}
                OBVIOUS
            <4> QED BY ONLY <4>1, LeastNumber
        <3>2. n \in 1 .. Len(s) /\ s[n] \notin Children(p)
            OBVIOUS
        <3>3. CASE n = 1
            <4>1. child[p] = s[n]
                BY <2>4, <3>2, <3>3 DEF At
            <4> QED BY <2>1, <2>5, <3>2, <4>1, ChildrenClosed
        <3>4. CASE n # 1
            <4>1. n - 1 \in 1 .. Len(s) /\ (n - 1) + 1 = n /\ ~(n <= n - 1)
                BY ONLY <2>5, <3>2, <3>4
            <4>2. s[n - 1] \in Children(p) /\ next[s[n - 1]] = s[n]
                BY <2>4, <3>1, <3>2, <4>1 DEF At
            <4> QED BY <2>1, <2>5, <3>2, <4>2, ChildrenClosed
        <3> QED BY <3>3, <3>4
    <2>8. \A m, n \in 1 .. Len(s) : s[m] = s[n] => m = n
        <3> DEFINE N == {m \in 1 .. Len(s) : \E n \in 1 .. Len(s) : m < n /\ s[m] = s[n]}
        <3>1. N = {}
            <4> SUFFICES ASSUME N # {} PROVE FALSE
                OBVIOUS
            <4>1. PICK m \in N : \A k \in N : m <= k
                <5>1. N \in (SUBSET Nat) \ {{}}
                    OBVIOUS
                <5> QED BY ONLY <5>1, LeastNumber
            <4>2. PICK n \in 1 .. Len(s) : m < n /\ s[m] = s[n]
                OBVIOUS
            <4>3. m \in 1 .. Len(s)
                OBVIOUS
            <4>4. n - 1 \in 1 .. Len(s) /\ (n - 1) + 1 = n
                BY ONLY <2>5, <4>2, <4>3
            <4>5. next[s[n - 1]] = s[n] /\ s[n - 1] \in Item /\ s[n] \in Item
                BY <2>4, <2>5, <4>4 DEF At
            <4>6. prev[s[n]] = s[n - 1]
                BY <2>1, <4>5
            <4>7. CASE m = 1
                <5>1. child[p] = s[n]
                    BY <2>4, <4>2, <4>3, <4>7 DEF At
                <5> QED BY <2>1, <4>5, <4>6, <5>1
            <4>8. CASE m # 1
                <5>1. m - 1 \in 1 .. Len(s) /\ (m - 1) + 1 = m /\ m - 1 < n - 1 /\ ~(m <= m - 1)
                    BY ONLY <2>5, <4>2, <4>3, <4>8
                <5>2. next[s[m - 1]] = s[m] /\ s[m - 1] \in Item
                    BY <2>4, <2>5, <4>3, <5>1 DEF At
                <5>3. s[m - 1] = s[n - 1]
                    BY <2>1, <4>2, <4>5, <4>6, <5>2
                <5>4. m - 1 \in N
                    BY <4>4, <5>1, <5>3
                <5> QED BY <4>1, <5>1, <5>4
            <4> QED BY <4>7, <4>8
        <3> SUFFICES ASSUME NEW m \in 1 .. Len(s), NEW n \in 1 .. Len(s), s[m] = s[n], m # n
                     PROVE  FALSE
            OBVIOUS
        <3>2. m < n \/ n < m
            BY <2>5
        <3> QED BY <3>1, <3>2
    <2>9. Members(s) = Children(p)
        BY <2>6, <2>7 DEF Members
    <2> QED BY <1>2, <2>2, <2>3, <2>4, <2>8, <2>9 DEF Linked
<1> QED BY <1>1, <1>2

\* An item has one place, a root has none, and whoever is no root, not lost
\* and not the caller's has one.
PlacedOnce ==
    /\ \A p, q \in Item : Members(ChildLists[p]) \cap Members(ChildLists[q]) # {} => p = q
    /\ \A i \in Item : Root(i) => \A p \in Item : i \notin Members(ChildLists[p])
    /\ \A i \in items : Entered(i) => \E p \in Item : Holds(p) /\ i \in Members(ChildLists[p])

\* This is what the links say.
LEMMA ListsPlace == ASSUME IInv PROVE PlacedOnce
<1>1. \A p \in Item : Members(ChildLists[p]) = IF Holds(p) THEN Children(p) ELSE {}
    BY ListLinked DEF Linked
<1>2. ASSUME NEW p \in Item, NEW q \in Item, Members(ChildLists[p]) \cap Members(ChildLists[q]) # {}
      PROVE  p = q
    <2>1. Holds(p) /\ Holds(q) /\ Children(p) \cap Children(q) # {}
        BY <1>1, <1>2
    <2> QED BY <2>1, AtMostOneParent DEF Holds
<1>3. ASSUME NEW i \in Item, Root(i), NEW p \in Item, i \in Members(ChildLists[p])
      PROVE  FALSE
    <2>1. Holds(p) /\ i \in Children(p)
        BY <1>1, <1>3
    <2> QED BY <1>3, <2>1, Listed DEF Holds
<1>4. ASSUME NEW i \in items, Entered(i)
      PROVE  \E p \in Item : Holds(p) /\ i \in Members(ChildLists[p])
    <2>1. PICK p \in items : ~label[p].ref /\ i \in Children(p)
        BY <1>4, SomeParent DEF Parents
    <2>2. p \in Item /\ Holds(p)
        BY <2>1, LinkFacts DEF Holds
    <2> QED BY <1>1, <2>1, <2>2
<1> QED BY <1>2, <1>3, <1>4 DEF PlacedOnce

-----------------------------------------------------------------------------
(* One element more, less or another one.                                  *)

\* s with i at place n.
LEMMA Inserted ==
    ASSUME NEW s \in Seq(Item), NEW n \in 1 .. Len(s) + 1, NEW i \in Item
    PROVE  LET t == Lists!InsertAt(s, n, i) IN
           /\ t \in Seq(Item) /\ Len(t) = Len(s) + 1
           /\ t[n] = i
           /\ \A m \in 1 .. n - 1 : t[m] = s[m]
           /\ \A m \in n + 1 .. Len(s) + 1 : t[m] = s[m - 1]
<1> DEFINE a == SubSeq(s, 1, n - 1)
           b == SubSeq(s, n, Len(s))
           t == (a \o <<i>>) \o b
<1>1. Len(s) \in Nat /\ n \in Int /\ 1 <= n /\ n <= Len(s) + 1 /\ \A m \in 1 .. Len(s) : s[m] \in Item
    OBVIOUS
<1>2. a \in Seq(Item) /\ Len(a) = n - 1 /\ \A m \in 1 .. n - 1 : a[m] = s[m]
    <2>1. 1 \in Int /\ n - 1 \in Int /\ \A m \in 1 .. n - 1 : s[m] \in Item
        BY <1>1
    <2>2. /\ a \in Seq(Item) /\ Len(a) = (IF 1 <= n - 1 THEN n - 1 - 1 + 1 ELSE 0)
          /\ \A m \in 1 .. n - 1 - 1 + 1 : a[m] = s[1 + m - 1]
        BY ONLY <2>1, SubSeqProperties
    <2> HIDE DEF a
    <2>3. Len(a) = n - 1
        BY ONLY <1>1, <2>2
    <2>4. ASSUME NEW m \in 1 .. n - 1 PROVE a[m] = s[m]
        <3>1. m \in 1 .. n - 1 - 1 + 1 /\ 1 + m - 1 = m
            BY ONLY <1>1, m \in 1 .. n - 1
        <3> QED BY <2>2, <3>1
    <2> QED BY <2>2, <2>3, <2>4
<1>3. b \in Seq(Item) /\ Len(b) = Len(s) + 1 - n /\ \A m \in 1 .. Len(s) + 1 - n : b[m] = s[n + m - 1]
    <2>1. n \in Int /\ Len(s) \in Int /\ \A m \in n .. Len(s) : s[m] \in Item
        BY <1>1
    <2>2. /\ b \in Seq(Item) /\ Len(b) = (IF n <= Len(s) THEN Len(s) - n + 1 ELSE 0)
          /\ \A m \in 1 .. Len(s) - n + 1 : b[m] = s[n + m - 1]
        BY ONLY <2>1, SubSeqProperties
    <2> HIDE DEF b
    <2>3. Len(b) = Len(s) + 1 - n
        BY ONLY <1>1, <2>2
    <2>4. Len(s) - n + 1 = Len(s) + 1 - n
        BY ONLY <1>1
    <2> QED BY <2>2, <2>3, <2>4
<1> HIDE DEF a, b
<1> DEFINE c == a \o <<i>>
<1>4. c \in Seq(Item) /\ Len(c) = n /\ c[n] = i /\ \A m \in 1 .. n - 1 : c[m] = s[m]
    <2>1. c \in Seq(Item) /\ Len(c) = Len(a) + 1 /\ c[Len(a) + 1] = i /\ \A m \in 1 .. Len(a) : c[m] = a[m]
        BY ONLY <1>2, i \in Item
    <2>2. Len(a) + 1 = n
        BY ONLY <1>1, <1>2
    <2> HIDE DEF c
    <2> QED BY <1>2, <2>1, <2>2
<1> HIDE DEF c
<1> DEFINE d == c \o b
<1>5. /\ d \in Seq(Item) /\ Len(d) = Len(s) + 1
      /\ \A m \in 1 .. n : d[m] = c[m]
      /\ \A m \in n + 1 .. Len(s) + 1 : d[m] = b[m - n]
    <2>1. d \in Seq(Item) /\ Len(d) = Len(c) + Len(b) /\ (\A m \in 1 .. Len(c) : d[m] = c[m])
          /\ \A m \in Len(c) + 1 .. Len(c) + Len(b) : d[m] = b[m - Len(c)]
        <3>1. c \in Seq(Item) /\ b \in Seq(Item)
            BY <1>3, <1>4
        <3> QED BY ONLY <3>1
    <2>2. Len(c) + Len(b) = Len(s) + 1
        BY ONLY <1>1, <1>3, <1>4
    <2> HIDE DEF d
    <2> QED BY ONLY <1>4, <2>1, <2>2
<1>6. d = Lists!InsertAt(s, n, i)
    BY DEF a, b, c, d, Lists!InsertAt
<1> HIDE DEF d
<1>7. ASSUME NEW m \in n + 1 .. Len(s) + 1 PROVE d[m] = s[m - 1]
    <2>1. m - n \in 1 .. Len(s) + 1 - n /\ n + (m - n) - 1 = m - 1
        BY ONLY <1>1, m \in n + 1 .. Len(s) + 1
    <2>2. b[m - n] = s[n + (m - n) - 1]
        BY <1>3, <2>1
    <2> QED BY <1>5, <2>1, <2>2
<1>8. n \in 1 .. n /\ \A m \in 1 .. n - 1 : m \in 1 .. n
    BY <1>1
<1> QED BY <1>4, <1>5, <1>6, <1>7, <1>8

\* s without what is at place n.
LEMMA Removed ==
    ASSUME NEW s \in Seq(Item), NEW n \in 1 .. Len(s)
    PROVE  LET t == Lists!RemoveAt(s, n) IN
           /\ t \in Seq(Item) /\ Len(t) = Len(s) - 1
           /\ \A m \in 1 .. n - 1 : t[m] = s[m]
           /\ \A m \in n .. Len(s) - 1 : t[m] = s[m + 1]
<1> DEFINE a == SubSeq(s, 1, n - 1)
           b == SubSeq(s, n + 1, Len(s))
           d == a \o b
<1>1. Len(s) \in Nat /\ n \in Int /\ 1 <= n /\ n <= Len(s) /\ \A m \in 1 .. Len(s) : s[m] \in Item
    OBVIOUS
<1>2. a \in Seq(Item) /\ Len(a) = n - 1 /\ \A m \in 1 .. n - 1 : a[m] = s[m]
    <2>1. 1 \in Int /\ n - 1 \in Int /\ \A m \in 1 .. n - 1 : s[m] \in Item
        BY <1>1
    <2>2. /\ a \in Seq(Item) /\ Len(a) = (IF 1 <= n - 1 THEN n - 1 - 1 + 1 ELSE 0)
          /\ \A m \in 1 .. n - 1 - 1 + 1 : a[m] = s[1 + m - 1]
        BY ONLY <2>1, SubSeqProperties
    <2> HIDE DEF a
    <2>3. Len(a) = n - 1
        BY ONLY <1>1, <2>2
    <2>4. ASSUME NEW m \in 1 .. n - 1 PROVE a[m] = s[m]
        <3>1. m \in 1 .. n - 1 - 1 + 1 /\ 1 + m - 1 = m
            BY ONLY <1>1, m \in 1 .. n - 1
        <3> QED BY <2>2, <3>1
    <2> QED BY <2>2, <2>3, <2>4
<1>3. b \in Seq(Item) /\ Len(b) = Len(s) - n /\ \A m \in 1 .. Len(s) - n : b[m] = s[n + m]
    <2>1. n + 1 \in Int /\ Len(s) \in Int /\ \A m \in n + 1 .. Len(s) : s[m] \in Item
        BY <1>1
    <2>2. /\ b \in Seq(Item) /\ Len(b) = (IF n + 1 <= Len(s) THEN Len(s) - (n + 1) + 1 ELSE 0)
          /\ \A m \in 1 .. Len(s) - (n + 1) + 1 : b[m] = s[n + 1 + m - 1]
        BY ONLY <2>1, SubSeqProperties
    <2> HIDE DEF b
    <2>3. Len(b) = Len(s) - n
        BY ONLY <1>1, <2>2
    <2>4. ASSUME NEW m \in 1 .. Len(s) - n PROVE b[m] = s[n + m]
        <3>1. m \in 1 .. Len(s) - (n + 1) + 1 /\ n + 1 + m - 1 = n + m
            BY ONLY <1>1, m \in 1 .. Len(s) - n
        <3> QED BY <2>2, <3>1
    <2> QED BY <2>2, <2>3, <2>4
<1> HIDE DEF a, b
<1>4. /\ d \in Seq(Item) /\ Len(d) = Len(s) - 1
      /\ \A m \in 1 .. n - 1 : d[m] = a[m]
      /\ \A m \in n .. Len(s) - 1 : d[m] = b[m - (n - 1)]
    <2>1. d \in Seq(Item) /\ Len(d) = Len(a) + Len(b) /\ (\A m \in 1 .. Len(a) : d[m] = a[m])
          /\ \A m \in Len(a) + 1 .. Len(a) + Len(b) : d[m] = b[m - Len(a)]
        <3>1. a \in Seq(Item) /\ b \in Seq(Item)
            BY <1>2, <1>3
        <3> QED BY ONLY <3>1
    <2>2. Len(a) + Len(b) = Len(s) - 1 /\ Len(a) + 1 = n
        BY ONLY <1>1, <1>2, <1>3
    <2> HIDE DEF d
    <2> QED BY ONLY <1>2, <2>1, <2>2
<1>5. d = Lists!RemoveAt(s, n)
    BY DEF a, b, d, Lists!RemoveAt
<1> HIDE DEF d
<1>6. ASSUME NEW m \in n .. Len(s) - 1 PROVE d[m] = s[m + 1]
    <2>1. m - (n - 1) \in 1 .. Len(s) - n /\ n + (m - (n - 1)) = m + 1
        BY ONLY <1>1, m \in n .. Len(s) - 1
    <2>2. b[m - (n - 1)] = s[n + (m - (n - 1))]
        BY <1>3, <2>1
    <2> QED BY <1>4, <2>1, <2>2
<1> QED BY <1>2, <1>4, <1>5, <1>6

\* The pointers of a list that next reads stay: the list stays.
LEMMA ListingStays ==
    ASSUME NEW nx, NEW ny, NEW first, NEW s, Listing(s, first, nx),
           \A y \in Members(s) : ny[y] = nx[y]
    PROVE  Listing(s, first, ny)
<1>1. \A n \in 1 .. Len(s) : s[n] \in Members(s)
    BY DEF Members
<1> QED BY <1>1 DEF Listing

\* i comes to place n: what was before it leads to it, it leads on.
LEMMA ListingInserted ==
    ASSUME NEW nx, NEW ny, NEW first, NEW s, Listing(s, first, nx), NEW n \in 1 .. Len(s) + 1, NEW i \in Item,
           ny[i] = At(s, n), n # 1 => ny[At(s, n - 1)] = i,
           \A m \in 1 .. Len(s) : m # n - 1 => ny[s[m]] = nx[s[m]]
    PROVE  Listing(Lists!InsertAt(s, n, i), IF n = 1 THEN i ELSE first, ny)
<1> DEFINE t == Lists!InsertAt(s, n, i)
<1>1. s \in Seq(Item) /\ first = At(s, 1) /\ \A m \in 1 .. Len(s) : nx[s[m]] = At(s, m + 1)
    BY DEF Listing
<1>2. Len(s) \in Nat /\ n \in Int /\ 1 <= n /\ n <= Len(s) + 1
    BY <1>1
<1>3. /\ t \in Seq(Item) /\ Len(t) = Len(s) + 1
      /\ t[n] = i
      /\ \A m \in 1 .. n - 1 : t[m] = s[m]
      /\ \A m \in n + 1 .. Len(s) + 1 : t[m] = s[m - 1]
    BY ONLY <1>1, n \in 1 .. Len(s) + 1, i \in Item, Inserted
<1> HIDE DEF t
<1>4. At(t, n) = i
    BY <1>2, <1>3 DEF At
<1>5. ASSUME NEW m \in 1 .. n - 1 PROVE At(t, m) = s[m] /\ At(s, m) = s[m] /\ m \in 1 .. Len(s)
    <2>1. m \in 1 .. Len(s) /\ m \in 1 .. Len(s) + 1
        BY ONLY <1>2, m \in 1 .. n - 1
    <2> QED BY <1>3, <2>1 DEF At
<1>6. ASSUME NEW m \in n + 1 .. Len(s) + 2 PROVE At(t, m) = At(s, m - 1)
    <2>1. CASE m = Len(s) + 2
        <3>1. m \notin 1 .. Len(s) + 1 /\ m - 1 \notin 1 .. Len(s)
            BY ONLY <1>2, <2>1
        <3> QED BY <1>3, <3>1 DEF At
    <2>2. CASE m # Len(s) + 2
        <3>1. m \in n + 1 .. Len(s) + 1 /\ m \in 1 .. Len(s) + 1 /\ m - 1 \in 1 .. Len(s)
            BY ONLY <1>2, <2>2, m \in n + 1 .. Len(s) + 2
        <3> QED BY <1>3, <3>1 DEF At
    <2> QED BY <2>1, <2>2
<1>7. ASSUME NEW m \in 1 .. Len(t) PROVE ny[t[m]] = At(t, m + 1)
    <2>0. m \in 1 .. Len(s) + 1
        BY <1>3
    <2>1. CASE m = n
        <3>1. m + 1 \in n + 1 .. Len(s) + 2 /\ (m + 1) - 1 = n
            BY ONLY <1>2, <2>1
        <3>2. At(t, m + 1) = At(s, n)
            BY <1>6, <3>1
        <3> QED BY <1>3, <2>1, <3>2
    <2>2. CASE m = n - 1
        <3>1. m \in 1 .. n - 1 /\ m + 1 = n /\ n # 1
            BY ONLY <1>2, <2>0, <2>2
        <3>2. t[m] = s[m] /\ At(s, m) = s[m]
            BY <1>3, <1>5, <3>1
        <3>3. ny[At(s, n - 1)] = i
            BY <3>1
        <3> QED BY <1>4, <2>2, <3>1, <3>2, <3>3
    <2>3. CASE m < n - 1
        <3>1. m \in 1 .. n - 1 /\ m + 1 \in 1 .. n - 1 /\ m # n - 1
            BY ONLY <1>2, <2>0, <2>3
        <3>2. t[m] = s[m] /\ m \in 1 .. Len(s) /\ At(t, m + 1) = s[m + 1] /\ At(s, m + 1) = s[m + 1]
            BY <1>3, <1>5, <3>1
        <3>3. ny[s[m]] = nx[s[m]] /\ nx[s[m]] = At(s, m + 1)
            BY <1>1, <3>1, <3>2
        <3> QED BY <3>2, <3>3
    <2>4. CASE m > n
        <3>1. /\ m \in n + 1 .. Len(s) + 1 /\ m + 1 \in n + 1 .. Len(s) + 2
              /\ m - 1 \in 1 .. Len(s) /\ m - 1 # n - 1 /\ (m - 1) + 1 = m /\ (m + 1) - 1 = m
            BY ONLY <1>2, <2>0, <2>4
        <3>2. t[m] = s[m - 1] /\ At(t, m + 1) = At(s, m)
            BY <1>3, <1>6, <3>1
        <3>3. ny[s[m - 1]] = nx[s[m - 1]] /\ nx[s[m - 1]] = At(s, m)
            BY <1>1, <3>1
        <3> QED BY <3>2, <3>3
    <2>5. m = n \/ m = n - 1 \/ m < n - 1 \/ m > n
        BY ONLY <1>2, <2>0
    <2> QED BY <2>1, <2>2, <2>3, <2>4, <2>5
<1>8. At(t, 1) = IF n = 1 THEN i ELSE first
    <2>1. CASE n = 1
        BY <1>4, <2>1
    <2>2. CASE n # 1
        <3>1. 1 \in 1 .. n - 1
            BY ONLY <1>2, <2>2
        <3> QED BY <1>1, <1>5, <2>2, <3>1
    <2> QED BY <2>1, <2>2
<1>9. Listing(t, IF n = 1 THEN i ELSE first, ny)
    BY <1>3, <1>7, <1>8 DEF Listing
<1> QED BY <1>9 DEF t

\* What is at place n goes: what was before it leads to what comes after it.
LEMMA ListingRemoved ==
    ASSUME NEW nx, NEW ny, NEW first, NEW s, Listing(s, first, nx), NEW n \in 1 .. Len(s),
           n # 1 => ny[At(s, n - 1)] = At(s, n + 1),
           \A m \in 1 .. Len(s) : m # n - 1 /\ m # n => ny[s[m]] = nx[s[m]]
    PROVE  Listing(Lists!RemoveAt(s, n), IF n = 1 THEN At(s, 2) ELSE first, ny)
<1> DEFINE t == Lists!RemoveAt(s, n)
<1>1. s \in Seq(Item) /\ first = At(s, 1) /\ \A m \in 1 .. Len(s) : nx[s[m]] = At(s, m + 1)
    BY DEF Listing
<1>2. Len(s) \in Nat /\ n \in Int /\ 1 <= n /\ n <= Len(s)
    BY <1>1
<1>3. /\ t \in Seq(Item) /\ Len(t) = Len(s) - 1
      /\ \A m \in 1 .. n - 1 : t[m] = s[m]
      /\ \A m \in n .. Len(s) - 1 : t[m] = s[m + 1]
    BY ONLY <1>1, n \in 1 .. Len(s), Removed
<1> HIDE DEF t
<1>4. ASSUME NEW m \in 1 .. n - 1 PROVE At(t, m) = s[m] /\ At(s, m) = s[m] /\ m \in 1 .. Len(s)
    <2>1. m \in 1 .. Len(s) /\ m \in 1 .. Len(s) - 1
        BY ONLY <1>2, m \in 1 .. n - 1
    <2> QED BY <1>3, <2>1 DEF At
<1>5. ASSUME NEW m \in n .. Len(s) PROVE At(t, m) = At(s, m + 1)
    <2>1. CASE m = Len(s)
        <3>1. m \notin 1 .. Len(s) - 1 /\ m + 1 \notin 1 .. Len(s)
            BY ONLY <1>2, <2>1
        <3> QED BY <1>3, <3>1 DEF At
    <2>2. CASE m # Len(s)
        <3>1. m \in n .. Len(s) - 1 /\ m \in 1 .. Len(s) - 1 /\ m + 1 \in 1 .. Len(s)
            BY ONLY <1>2, <2>2, m \in n .. Len(s)
        <3> QED BY <1>3, <3>1 DEF At
    <2> QED BY <2>1, <2>2
<1>6. ASSUME NEW m \in 1 .. Len(t) PROVE ny[t[m]] = At(t, m + 1)
    <2>0. m \in 1 .. Len(s) - 1
        BY <1>3
    <2>1. CASE m = n - 1
        <3>1. m \in 1 .. n - 1 /\ m + 1 = n /\ n # 1 /\ n \in n .. Len(s)
            BY ONLY <1>2, <2>0, <2>1
        <3>2. t[m] = s[m] /\ At(s, m) = s[m] /\ At(t, n) = At(s, n + 1)
            BY <1>3, <1>4, <1>5, <3>1
        <3>3. ny[At(s, n - 1)] = At(s, n + 1)
            BY <3>1
        <3> QED BY <2>1, <3>1, <3>2, <3>3
    <2>2. CASE m < n - 1
        <3>1. m \in 1 .. n - 1 /\ m + 1 \in 1 .. n - 1 /\ m # n - 1 /\ m # n
            BY ONLY <1>2, <2>0, <2>2
        <3>2. t[m] = s[m] /\ m \in 1 .. Len(s) /\ At(t, m + 1) = s[m + 1] /\ At(s, m + 1) = s[m + 1]
            BY <1>3, <1>4, <3>1
        <3>3. ny[s[m]] = nx[s[m]] /\ nx[s[m]] = At(s, m + 1)
            BY <1>1, <3>1, <3>2
        <3> QED BY <3>2, <3>3
    <2>3. CASE m >= n
        <3>1. /\ m \in n .. Len(s) - 1 /\ m + 1 \in n .. Len(s)
              /\ m + 1 \in 1 .. Len(s) /\ m + 1 # n - 1 /\ m + 1 # n
            BY ONLY <1>2, <2>0, <2>3
        <3>2. t[m] = s[m + 1] /\ At(t, m + 1) = At(s, (m + 1) + 1)
            BY <1>3, <1>5, <3>1
        <3>3. ny[s[m + 1]] = nx[s[m + 1]] /\ nx[s[m + 1]] = At(s, (m + 1) + 1)
            BY <1>1, <3>1
        <3> QED BY <3>2, <3>3
    <2>4. m = n - 1 \/ m < n - 1 \/ m >= n
        BY ONLY <1>2, <2>0
    <2> QED BY <2>1, <2>2, <2>3, <2>4
<1>7. At(t, 1) = IF n = 1 THEN At(s, 2) ELSE first
    <2>1. CASE n = 1
        <3>1. 1 \in n .. Len(s) /\ 1 + 1 = 2
            BY ONLY <1>2, <2>1
        <3>2. At(t, 1) = At(s, 1 + 1)
            BY <1>5, <3>1
        <3> QED BY <2>1, <3>1, <3>2
    <2>2. CASE n # 1
        <3>1. 1 \in 1 .. n - 1
            BY ONLY <1>2, <2>2
        <3> QED BY <1>1, <1>4, <2>2, <3>1
    <2> QED BY <2>1, <2>2
<1>8. Listing(t, IF n = 1 THEN At(s, 2) ELSE first, ny)
    BY <1>3, <1>6, <1>7 DEF Listing
<1> QED BY <1>8 DEF t

\* i takes place n.
LEMMA ListingReplaced ==
    ASSUME NEW nx, NEW ny, NEW first, NEW s, Listing(s, first, nx), NEW n \in 1 .. Len(s), NEW i \in Item,
           ny[i] = At(s, n + 1), n # 1 => ny[At(s, n - 1)] = i,
           \A m \in 1 .. Len(s) : m # n - 1 /\ m # n => ny[s[m]] = nx[s[m]]
    PROVE  Listing(Lists!ReplaceAt(s, n, i), IF n = 1 THEN i ELSE first, ny)
<1> DEFINE t == Lists!ReplaceAt(s, n, i)
<1>1. s \in Seq(Item) /\ first = At(s, 1) /\ \A m \in 1 .. Len(s) : nx[s[m]] = At(s, m + 1)
    BY DEF Listing
<1>2. Len(s) \in Nat /\ n \in Int /\ 1 <= n /\ n <= Len(s)
    BY <1>1
<1>3. t \in Seq(Item) /\ Len(t) = Len(s) /\ t[n] = i /\ \A m \in 1 .. Len(s) : m # n => t[m] = s[m]
    BY ONLY <1>1, n \in 1 .. Len(s), i \in Item DEF Lists!ReplaceAt
<1> HIDE DEF t
<1>4. At(t, n) = i /\ \A m \in Nat : m # n => At(t, m) = At(s, m)
    BY <1>3 DEF At
<1>5. ASSUME NEW m \in 1 .. Len(t) PROVE ny[t[m]] = At(t, m + 1)
    <2>0. m \in 1 .. Len(s) /\ m + 1 \in Nat /\ n - 1 \in Nat
        BY <1>2, <1>3
    <2>1. CASE m = n
        <3>1. m + 1 # n
            BY ONLY <1>2, <2>0, <2>1
        <3> QED BY <1>3, <1>4, <2>0, <2>1, <3>1
    <2>2. CASE m = n - 1
        <3>1. m # n /\ m + 1 = n /\ n # 1
            BY ONLY <1>2, <2>0, <2>2
        <3>2. t[m] = s[m] /\ At(s, m) = s[m] /\ ny[At(s, n - 1)] = i
            BY <1>3, <2>0, <3>1 DEF At
        <3> QED BY <1>4, <2>2, <3>1, <3>2
    <2>3. CASE m # n /\ m # n - 1
        <3>1. m + 1 # n
            BY ONLY <1>2, <2>0, <2>3
        <3>2. t[m] = s[m] /\ At(t, m + 1) = At(s, m + 1) /\ ny[s[m]] = nx[s[m]]
            BY <1>3, <1>4, <2>0, <2>3, <3>1
        <3> QED BY <1>1, <2>0, <3>2
    <2> QED BY <2>1, <2>2, <2>3
<1>6. At(t, 1) = IF n = 1 THEN i ELSE first
    <2>1. CASE n = 1
        BY <1>4, <2>1
    <2>2. CASE n # 1
        BY <1>1, <1>4, <2>2
    <2> QED BY <2>1, <2>2
<1>7. Listing(t, IF n = 1 THEN i ELSE first, ny)
    BY <1>3, <1>5, <1>6 DEF Listing
<1> QED BY <1>7 DEF t

-----------------------------------------------------------------------------
(* What cJSON_Delete frees is the item and what is below it in the lists.  *)

\* The library and this module name the elements of a sequence differently.
LEMMA RangeMembers ==
    ASSUME NEW s \in Seq(Item)
    PROVE  Lists!Range(s) = Members(s) /\ DOMAIN s = 1 .. Len(s)
<1>1. DOMAIN s = 1 .. Len(s)
    OBVIOUS
<1> QED BY <1>1 DEF Lists!Range, Members

\* Nothing of the tree of i leads back to i.
LEMMA NoReturn ==
    ASSUME IInv, NEW i \in items
    PROVE  /\ \A y \in Tree(i) : label[y].ref \/ child[y] # i
           /\ \A y \in Tree(i) \ {i} : next[y] # i
<1>1. /\ Tree(i) \subseteq items /\ i \in Item /\ i \in Tree(i) /\ items \subseteq Item
      /\ \A x, y \in Item : next[x] = y <=> prev[y] = x
    BY TreeClosed, LinkFacts
<1>2. PICK z \in Tree(i) : \A x \in Tree(i) : next[x] # z /\ (label[x].ref \/ child[x] # z)
    <2>1. PICK z \in Tree(i) : \A x \in Tree(i) : <<x, z>> \notin Arcs
        BY <1>1, LinkFacts DEF NoCycle
    <2>2. \A x \in Tree(i) : next[x] # z /\ (label[x].ref \/ child[x] # z)
        BY <1>1, <2>1, NoArc
    <2> QED BY <2>2
<1>3. z = i
    <2> SUFFICES ASSUME z # i PROVE FALSE
        OBVIOUS
    <2>1. PICK y \in Tree(i) : (~label[y].ref /\ child[y] = z) \/ (y # i /\ next[y] = z)
        BY <1>1, TreeEntered
    <2> QED BY <1>2, <2>1
<1> QED BY <1>2, <1>3

\* The children of the tree's items are in it.
LEMMA TreeLists ==
    ASSUME IInv, NEW i \in items, NEW p \in Tree(i), Holds(p)
    PROVE  Children(p) \subseteq Tree(i) \ {i}
<1> DEFINE S == Tree(i) \ {i}
<1>1. i \in Item /\ Tree(i) \subseteq Item
    BY TreeClosed, LinkFacts
<1>2. child[p] \in S \cup {NULL}
    BY <1>1, TreeClosed, NoReturn DEF Holds
<1>3. \A y \in S : next[y] \in S \cup {NULL}
    BY <1>1, TreeClosed, NoReturn
<1>4. S \in SUBSET Item
    BY <1>1
<1> HIDE DEF S
<1>5. Children(p) \subseteq S
    BY <1>2, <1>3, <1>4, ChildrenLeast
<1> QED BY <1>5 DEF S

\* The family in the lists is what cJSON_Delete frees.
LEMMA FamilyIsTree ==
    ASSUME IInv, NEW i \in items
    PROVE  Lists!Family(i) = Tree(i)
<1> DEFINE F == Lists!Family(i)
           closed == {S \in SUBSET Item : i \in S /\ \A y \in S : Lists!Range(ChildLists[y]) \subseteq S}
<1>1. F = {x \in Item : \A S \in closed : x \in S}
    BY DEF Lists!Family
<1>2. i \in Item /\ Tree(i) \subseteq items /\ i \in Tree(i) /\ items \subseteq Item /\ NULL \notin Item
    BY TreeClosed, LinkFacts
<1>3. \A y \in Item : Lists!Range(ChildLists[y]) = IF Holds(y) THEN Children(y) ELSE {}
    BY ListLinked, RangeMembers DEF Linked
<1>4. Tree(i) \in closed
    <2>1. ASSUME NEW y \in Tree(i) PROVE Lists!Range(ChildLists[y]) \subseteq Tree(i)
        BY <1>2, <1>3, TreeLists
    <2> QED BY <1>2, <2>1
<1>5. F \subseteq Tree(i)
    BY <1>1, <1>4
<1>6. i \in F /\ F \subseteq Item
    BY <1>1, <1>2
<1>7. ASSUME NEW y \in F PROVE Lists!Range(ChildLists[y]) \subseteq F
    <2> SUFFICES ASSUME NEW x \in Lists!Range(ChildLists[y]) PROVE x \in F
        OBVIOUS
    <2>1. ASSUME NEW S \in closed PROVE x \in S
        <3>1. y \in S
            BY <1>1
        <3> QED BY <3>1
    <2>2. x \in Item
        BY <1>2, <1>4, <2>1
    <2> HIDE DEF closed, F
    <2> QED BY <1>1, <2>1, <2>2
<1>8. ASSUME NEW z \in F, z # i PROVE \E y \in F : z \in Lists!Range(ChildLists[y])
    <2> SUFFICES ASSUME \A y \in F : z \notin Lists!Range(ChildLists[y]) PROVE FALSE
        OBVIOUS
    <2>1. F \ {z} \in SUBSET Item /\ i \in F \ {z}
        BY <1>6, <1>8
    <2>2. \A y \in F \ {z} : Lists!Range(ChildLists[y]) \subseteq F \ {z}
        BY <1>7
    <2>3. F \ {z} \in closed
        BY <2>1, <2>2
    <2> QED BY <1>1, <2>3
<1> HIDE DEF F, closed
<1>9. \A y \in F : ~label[y].ref => child[y] \in F \cup {NULL}
    <2> SUFFICES ASSUME NEW y \in F, ~label[y].ref PROVE child[y] \in F \cup {NULL}
        OBVIOUS
    <2>1. CASE y \in items
        <3>1. Holds(y) /\ y \in Item
            BY <1>6, <2>1 DEF Holds
        <3>2. child[y] \in Children(y) \cup {NULL}
            BY <2>1, ChildrenClosed
        <3> QED BY <1>3, <1>7, <3>1, <3>2
    <2>2. CASE y \notin items
        BY <1>6, <2>2, LinkFacts
    <2> QED BY <2>1, <2>2
<1>10. \A y \in F \ {i} : next[y] \in F \cup {NULL}
    <2> SUFFICES ASSUME NEW y \in F, y # i PROVE next[y] \in F \cup {NULL}
        OBVIOUS
    <2>1. PICK x \in F : y \in Lists!Range(ChildLists[x])
        BY <1>8
    <2>2. Holds(x) /\ y \in Children(x) /\ x \in items
        BY <1>3, <1>6, <2>1 DEF Holds
    <2>3. next[y] \in Children(x) \cup {NULL}
        BY <2>2, ChildrenClosed
    <2> QED BY <1>3, <1>6, <1>7, <2>2, <2>3
<1>11. Tree(i) \subseteq F
    BY <1>2, <1>6, <1>9, <1>10, TreeLeast
<1>12. F = Tree(i)
    BY <1>5, <1>11
<1> QED BY <1>12 DEF F

\* A list outside the tree has at most its top.
LEMMA TreeAside ==
    ASSUME IInv, NEW i \in Item, NEW p \in Item, Holds(p), p \notin Tree(i)
    PROVE  Children(p) \cap Tree(i) \subseteq {i}
<1> DEFINE S == (Item \ Tree(i)) \cup {i}
<1>1. /\ i \in Item /\ items \subseteq Item /\ NULL \notin Item /\ p \in items /\ ~label[p].ref
      /\ \A y \in Item : child[y] \in Item \cup {NULL} /\ next[y] \in Item \cup {NULL}
    BY LinkFacts DEF Holds
<1>2. child[p] \in S \cup {NULL}
    BY <1>1, TreeApart
<1>3. \A y \in S : next[y] \in S \cup {NULL}
    BY <1>1, TreeApart
<1>4. S \in SUBSET Item
    BY <1>1
<1> HIDE DEF S
<1>5. Children(p) \subseteq S
    BY <1>1, <1>2, <1>3, <1>4, ChildrenLeast
<1> QED BY <1>5 DEF S

\* The abstract root is an item in no list.
LEMMA RootIsRoot ==
    ASSUME IInv, NEW i \in items, Root(i)
    PROVE  Lists!IsRoot(i)
<1>1. \A p \in Item : Lists!Range(ChildLists[p]) = Members(ChildLists[p])
    BY ListLinked, RangeMembers DEF Linked
<1>2. i \in Item /\ items \subseteq Item
    BY LinkFacts
<1>3. \A p \in Item : i \notin Members(ChildLists[p])
    BY <1>2, ListsPlace DEF PlacedOnce
<1> QED BY <1>1, <1>2, <1>3 DEF Lists!IsRoot

-----------------------------------------------------------------------------
(* What a call does to the lists.                                          *)

\* The links at place n.
LEMMA Neighbours ==
    ASSUME IInv, NEW p \in Item, Holds(p), NEW n \in 1 .. Len(ChildLists[p])
    PROVE  LET s == ChildLists[p] IN
           /\ s[n] \in items /\ s[n] \in Item /\ s[n] \in Children(p) /\ ~Root(s[n])
           /\ next[s[n]] = At(s, n + 1) /\ prev[s[n]] = At(s, n - 1)
           /\ child[p] = s[n] <=> n = 1
           /\ \A m \in 1 .. Len(s) : s[m] = s[n] <=> m = n
<1> DEFINE s == ChildLists[p]
<1>1. /\ s \in Seq(Item) /\ Listing(s, child[p], next) /\ Members(s) = Children(p)
      /\ \A m, k \in 1 .. Len(s) : s[m] = s[k] => m = k
    BY ListLinked DEF Linked
<1> HIDE DEF s
<1>2. /\ \A m \in 1 .. Len(s) : next[s[m]] = At(s, m + 1)
      /\ child[p] = At(s, 1) /\ Len(s) \in Nat /\ \A m \in 1 .. Len(s) : s[m] \in Item
    BY <1>1 DEF Listing
<1>3. n \in 1 .. Len(s)
    BY DEF s
<1>4. s[n] \in Children(p) /\ s[n] \in items /\ s[n] \in Item /\ ~Root(s[n])
    BY <1>1, <1>2, <1>3, Listed DEF Members, Holds
<1>5. child[p] = s[n] <=> n = 1
    <2>1. CASE n = 1
        BY <1>2, <1>3, <2>1 DEF At
    <2>2. CASE n # 1
        <3>1. 1 \in 1 .. Len(s)
            BY ONLY <1>2, <1>3
        <3> QED BY <1>1, <1>2, <1>3, <2>2, <3>1 DEF At
    <2> QED BY <2>1, <2>2
<1>6. prev[s[n]] = At(s, n - 1)
    <2>1. CASE n = 1
        <3>1. child[p] = s[n] /\ child[p] # NULL
            BY <1>4, <1>5, <2>1, LinkFacts
        <3> QED BY <2>1, <3>1, LinkFacts DEF At, Holds
    <2>2. CASE n # 1
        <3>1. n - 1 \in 1 .. Len(s) /\ (n - 1) + 1 = n
            BY ONLY <1>2, <1>3, <2>2
        <3>2. next[s[n - 1]] = s[n] /\ s[n - 1] \in Item /\ At(s, n - 1) = s[n - 1]
            BY <1>2, <1>3, <3>1 DEF At
        <3> QED BY <1>4, <3>2, LinkFacts
    <2> QED BY <2>1, <2>2
<1>7. next[s[n]] = At(s, n + 1) /\ \A m \in 1 .. Len(s) : s[m] = s[n] <=> m = n
    BY <1>1, <1>2, <1>3
<1> QED BY <1>4, <1>5, <1>6, <1>7 DEF s

\* A list whose links stay.
LEMMA ListStays ==
    ASSUME IInv, IInv', NEW p \in Item, Holds(p), p \in items', ~label'[p].ref,
           child'[p] = child[p], \A y \in Children(p) : next'[y] = next[y]
    PROVE  ChildLists'[p] = ChildLists[p]
<1> DEFINE s == ChildLists[p]
<1>1. Listing(s, child[p], next) /\ Members(s) = Children(p)
    BY ListLinked DEF Linked
<1> HIDE DEF s
<1>2. Listing(s, child[p], next')
    BY <1>1, ListingStays
<1>3. Listing(s, child'[p], next')
    BY <1>2
<1>4. ChildLists'[p] = s
    BY <1>3, ListOfNext
<1> QED BY <1>4 DEF s

\* add_item_to_array: i comes last.
LEMMA Appended ==
    ASSUME IInv, IInv', NEW i \in Item, Root(i), NEW p \in Item, Holds(p), p \notin Tree(i),
           NEW first, add_item_to_array(p, i, first), items' = items \cup {i},
           \A j \in Item \ {i} : label'[j] = label[j],
           \/ i \in items /\ first = child[i] /\ label'[i].ref = label[i].ref
           \/ i \notin items /\ (first = NULL \/ label'[i].ref)
    PROVE  \A q \in Item : ChildLists'[q] = IF q = p THEN Lists!InsertAt(ChildLists[p], Len(ChildLists[p]) + 1, i)
                                            ELSE ChildLists[q]
<1> DEFINE s == ChildLists[p]
           n == Len(s) + 1
<1>1. /\ s \in Seq(Item) /\ Listing(s, child[p], next) /\ Members(s) = Children(p) /\ Len(s) \in Nat
      /\ child[p] = At(s, 1) /\ \A m \in 1 .. Len(s) : next[s[m]] = At(s, m + 1)
    <2>1. /\ s \in Seq(Item) /\ Listing(s, child[p], next) /\ Members(s) = Children(p)
        BY ListLinked DEF Linked
    <2> QED BY <2>1 DEF Listing
<1>2. \A m \in 1 .. Len(s) : s[m] \in Item /\ s[m] # i /\ s[m] # NULL
    BY Neighbours, LinkFacts
<1>3. /\ p # i /\ NULL \notin Item /\ next[i] = NULL
      /\ p \in items /\ ~label[p].ref /\ \A y \in Children(p) : y \in items /\ y \in Item
    BY TreeClosed, ChildrenEntered, LinkFacts DEF Root, Holds
<1>4. child \in [Item -> Pointer] /\ next \in [Item -> Pointer]
    BY DEF IInv, ItemsTypeOK
<1>5. /\ child'[p] = IF child[p] = NULL THEN i ELSE child[p]
      /\ child'[i] = first
      /\ \A q \in Item \ {p, i} : child'[q] = child[q]
    BY <1>3, <1>4 DEF add_item_to_array
<1>6. \A y \in Item : next'[y] = IF child[p] # NULL /\ y \in Children(p) /\ next[y] = NULL THEN i ELSE next[y]
    <2>1. CASE child[p] = NULL
        BY <2>1 DEF add_item_to_array
    <2>2. CASE child[p] # NULL
        <3>1. PICK last \in Children(p) : next[last] = NULL /\ next' = [next EXCEPT ![last] = i]
            BY <2>2 DEF add_item_to_array
        <3>2. PICK k \in 1 .. Len(s) : last = s[k]
            BY <1>1 DEF Members
        <3>3. \A m \in 1 .. Len(s) : next[s[m]] = NULL => m = Len(s)
            <4> SUFFICES ASSUME NEW m \in 1 .. Len(s), m # Len(s) PROVE next[s[m]] # NULL
                OBVIOUS
            <4>1. m + 1 \in 1 .. Len(s)
                BY <1>1
            <4> QED BY <1>1, <1>2, <4>1 DEF At
        <3>4. \A y \in Children(p) : next[y] = NULL => y = last
            BY <1>1, <3>1, <3>2, <3>3 DEF Members
        <3> QED BY <1>3, <1>4, <2>2, <3>1, <3>4
    <2> QED BY <2>1, <2>2
<1>7. i \notin Children(p)
    BY <1>1, <1>2 DEF Members
<1>8. next'[i] = NULL
    BY <1>3, <1>6, <1>7
<1>9. Listing(Lists!InsertAt(s, n, i), child'[p], next')
    <2>1. n \in 1 .. Len(s) + 1 /\ At(s, n) = NULL
        BY <1>1 DEF At
    <2>2. n # 1 => next'[At(s, n - 1)] = i
        <3> SUFFICES ASSUME n # 1 PROVE next'[At(s, n - 1)] = i
            OBVIOUS
        <3>1. Len(s) \in 1 .. Len(s) /\ n - 1 = Len(s) /\ 1 \in 1 .. Len(s)
            BY ONLY <1>1, n # 1
        <3>2. At(s, n - 1) = s[Len(s)] /\ next[s[Len(s)]] = NULL /\ child[p] # NULL
            BY <1>1, <1>2, <2>1, <3>1 DEF At
        <3>3. s[Len(s)] \in Children(p)
            BY <1>1, <3>1 DEF Members
        <3> QED BY <1>2, <1>6, <3>1, <3>2, <3>3
    <2>3. \A m \in 1 .. Len(s) : m # n - 1 => next'[s[m]] = next[s[m]]
        <3> SUFFICES ASSUME NEW m \in 1 .. Len(s), m # n - 1 PROVE next'[s[m]] = next[s[m]]
            OBVIOUS
        <3>1. m + 1 \in 1 .. Len(s)
            BY <1>1
        <3>2. next[s[m]] # NULL
            BY <1>1, <1>2, <3>1 DEF At
        <3> QED BY <1>2, <1>6, <3>2
    <2>4. child'[p] = IF n = 1 THEN i ELSE child[p]
        <3>1. child[p] = NULL <=> n = 1
            <4>1. n = 1 <=> ~(1 \in 1 .. Len(s))
                BY <1>1
            <4> QED BY <1>1, <1>2, <4>1 DEF At
        <3> QED BY <1>5, <3>1
    <2> HIDE DEF n, s
    <2>5. Listing(Lists!InsertAt(s, n, i), IF n = 1 THEN i ELSE child[p], next')
        <3>1. next'[i] = At(s, n)
            BY <1>8, <2>1
        <3> QED BY ONLY <1>1, <2>1, <2>2, <2>3, <3>1, i \in Item, ListingInserted
    <2> QED BY <2>4, <2>5
<1>10. ChildLists'[p] = Lists!InsertAt(s, n, i)
    <2>1. p \in items' /\ ~label'[p].ref
        BY <1>3
    <2> HIDE DEF s, n
    <2> QED BY <1>9, <2>1, ListOfNext
<1>11. ASSUME NEW q \in Item \ {p} PROVE ChildLists'[q] = ChildLists[q]
    <2>1. CASE Holds(q)
        <3>1. \A y \in Children(q) : y \in Item /\ y \notin Children(p)
            BY <1>3, <2>1, AtMostOneParent, ChildrenEntered, LinkFacts DEF Holds
        <3>2. q \in items' /\ ~label'[q].ref /\ child'[q] = child[q]
            BY <1>5, <2>1 DEF Holds
        <3> QED BY <1>6, <2>1, <3>1, <3>2, ListStays
    <2>2. CASE ~Holds(q) /\ (q # i \/ i \in items \/ label'[i].ref)
        <3>1. q \notin items' \/ label'[q].ref
            BY <2>2 DEF Holds
        <3>2. ChildLists[q] = <<>>
            BY <2>2 DEF ChildLists, Holds
        <3> QED BY <3>1, <3>2, NoListNext
    <2>3. CASE ~Holds(q) /\ q = i /\ i \notin items /\ ~label'[i].ref
        <3>1. ChildLists[q] = <<>>
            BY <2>3 DEF ChildLists, Holds
        <3>2. child'[q] = NULL /\ q \in items'
            BY <1>5, <2>3
        <3>3. Listing(<<>>, child'[q], next')
            BY <3>2 DEF Listing, At
        <3> QED BY <2>3, <3>1, <3>2, <3>3, ListOfNext
    <2> QED BY <2>1, <2>2, <2>3
<1> QED BY <1>10, <1>11

\* cJSON_InsertItemInArray before after: i takes its place.
LEMMA PutBefore ==
    ASSUME IInv, IInv', NEW i \in Item, Root(i), NEW p \in Item, Holds(p), p \notin Tree(i),
           NEW n \in 1 .. Len(ChildLists[p]), InsertBefore(p, ChildLists[p][n], i),
           items' = items, label' = label
    PROVE  \A q \in Item : ChildLists'[q] = IF q = p THEN Lists!InsertAt(ChildLists[p], n, i) ELSE ChildLists[q]
<1> DEFINE s == ChildLists[p]
           after == s[n]
<1>1. s \in Seq(Item) /\ Listing(s, child[p], next) /\ Members(s) = Children(p) /\ Len(s) \in Nat
    <2>1. s \in Seq(Item) /\ Listing(s, child[p], next) /\ Members(s) = Children(p)
        BY ListLinked DEF Linked
    <2> QED BY <2>1
<1>2. /\ after \in Item /\ after \in Children(p) /\ after # i /\ after # NULL
      /\ prev[after] = At(s, n - 1) /\ (child[p] = after <=> n = 1)
      /\ \A m \in 1 .. Len(s) : s[m] = after <=> m = n
    BY Neighbours, LinkFacts
<1>3. \A m \in 1 .. Len(s) : s[m] \in Item /\ s[m] # i /\ s[m] # NULL /\ s[m] \in Children(p)
                            /\ \A k \in 1 .. Len(s) : s[k] = s[m] <=> k = m
    BY Neighbours, LinkFacts
<1>4. p # i /\ NULL \notin Item /\ p \in items /\ ~label[p].ref
    BY TreeClosed, LinkFacts DEF Holds
<1>5. child \in [Item -> Pointer] /\ next \in [Item -> Pointer] /\ prev \in [Item -> Pointer]
    BY DEF IInv, ItemsTypeOK
<1>6. n \in 1 .. Len(s) /\ InsertBefore(p, after, i)
    OBVIOUS
<1> HIDE DEF s
<1>7. child' = IF n = 1 THEN [child EXCEPT ![p] = i] ELSE child
    BY <1>2, <1>6 DEF InsertBefore
<1>8. \A y \in Item : next'[y] = IF n # 1 /\ y = At(s, n - 1) THEN i ELSE IF y = i THEN after ELSE next[y]
    <2>1. CASE n = 1
        <3>1. next' = [next EXCEPT ![i] = after]
            BY <1>2, <1>6, <2>1 DEF InsertBefore, Store
        <3> QED BY <1>5, <2>1, <3>1
    <2>2. CASE n # 1
        <3>1. n - 1 \in 1 .. Len(s)
            BY ONLY <1>1, <1>6, <2>2
        <3>2. prev[after] = s[n - 1] /\ At(s, n - 1) = s[n - 1] /\ s[n - 1] # NULL /\ s[n - 1] \in Item
            BY <1>2, <1>3, <3>1 DEF At
        <3>3. next' = [[next EXCEPT ![i] = after] EXCEPT ![s[n - 1]] = i]
            BY <1>2, <1>6, <2>2, <3>2 DEF InsertBefore, Store
        <3> QED BY <1>5, <2>2, <3>2, <3>3
    <2> QED BY <2>1, <2>2
<1>9. Listing(Lists!InsertAt(s, n, i), child'[p], next')
    <2>1. n \in 1 .. Len(s) + 1 /\ At(s, n) = after
        BY <1>1, <1>6 DEF At
    <2>2. n # 1 => At(s, n - 1) = s[n - 1] /\ s[n - 1] \in Item /\ s[n - 1] # i
        <3> SUFFICES ASSUME n # 1 PROVE At(s, n - 1) = s[n - 1] /\ s[n - 1] \in Item /\ s[n - 1] # i
            OBVIOUS
        <3>1. n - 1 \in 1 .. Len(s)
            BY ONLY <1>1, <1>6, n # 1
        <3> QED BY <1>3, <3>1 DEF At
    <2>3. n # 1 => next'[At(s, n - 1)] = i
        BY <1>8, <2>2
    <2>4. next'[i] = At(s, n)
        BY <1>8, <2>1, <2>2
    <2>5. \A m \in 1 .. Len(s) : m # n - 1 => next'[s[m]] = next[s[m]]
        <3> SUFFICES ASSUME NEW m \in 1 .. Len(s), m # n - 1 PROVE next'[s[m]] = next[s[m]]
            OBVIOUS
        <3>1. n # 1 => s[m] # At(s, n - 1)
            <4> SUFFICES ASSUME n # 1 PROVE s[m] # At(s, n - 1)
                OBVIOUS
            <4>1. n - 1 \in 1 .. Len(s)
                BY ONLY <1>1, <1>6, n # 1
            <4> QED BY <1>3, <4>1 DEF At
        <3> QED BY <1>3, <1>8, <3>1
    <2>6. child'[p] = IF n = 1 THEN i ELSE child[p]
        BY <1>5, <1>7
    <2>7. Listing(Lists!InsertAt(s, n, i), IF n = 1 THEN i ELSE child[p], next')
        BY ONLY <1>1, <2>1, <2>3, <2>4, <2>5, i \in Item, ListingInserted
    <2> QED BY <2>6, <2>7
<1>10. ChildLists'[p] = Lists!InsertAt(s, n, i)
    BY <1>4, <1>9, ListOfNext
<1>11. ASSUME NEW q \in Item \ {p} PROVE ChildLists'[q] = ChildLists[q]
    <2>1. CASE Holds(q)
        <3>1. \A y \in Children(q) : y \in Item /\ y \notin Children(p) /\ y # i
            BY <1>4, <2>1, AtMostOneParent, ChildrenEntered, LinkFacts, Listed DEF Holds
        <3>2. q \in items' /\ ~label'[q].ref /\ child'[q] = child[q]
            BY <1>5, <1>7, <2>1 DEF Holds
        <3>3. n # 1 => At(s, n - 1) \in Children(p) \cup {NULL}
            BY <1>3 DEF At
        <3>4. \A y \in Children(q) : next'[y] = next[y]
            BY <1>4, <1>8, <3>1, <3>3
        <3> QED BY <2>1, <3>2, <3>4, ListStays
    <2>2. CASE ~Holds(q)
        <3>1. q \notin items' \/ label'[q].ref
            BY <2>2 DEF Holds
        <3>2. ChildLists[q] = <<>>
            BY <2>2 DEF ChildLists, Holds
        <3> QED BY <3>1, <3>2, NoListNext
    <2> QED BY <2>1, <2>2
<1> QED BY <1>10, <1>11 DEF s

\* What is freed is no child of who stays, but for the item at the top.
FreedBelow(gone, i) == \A q \in Item \ gone : Holds(q) => Children(q) \cap gone \subseteq {i}

\* Place n of the list of p is taken out, or given to i, and gone loses its lists.
TakenOut(p, n, gone) ==
    \A q \in Item : ChildLists'[q] = IF q \in gone THEN <<>>
                                     ELSE IF q = p THEN Lists!RemoveAt(ChildLists[p], n)
                                     ELSE ChildLists[q]
GivenTo(p, n, i, gone) ==
    \A q \in Item : ChildLists'[q] = IF q \in gone THEN <<>>
                                     ELSE IF q = p THEN Lists!ReplaceAt(ChildLists[p], n, i)
                                     ELSE ChildLists[q]

\* cJSON_DetachItemViaPointer: what is at place n leaves the list, and what is
\* freed all lists.
LEMMA Unlinked ==
    ASSUME IInv, IInv', NEW p \in Item, Holds(p), NEW n \in 1 .. Len(ChildLists[p]), NEW i, i = ChildLists[p][n],
           NEW gone \in {{}, Tree(i)}, FreedBelow(gone, i), DetachItemViaPointer(p, i, gone),
           items' = items \ gone,
           \A j \in Item \ gone : label'[j] = label[j]
    PROVE  TakenOut(p, n, gone)
<1> USE DEF TakenOut
<1> DEFINE s == ChildLists[p]
<1>1. s \in Seq(Item) /\ Listing(s, child[p], next) /\ Members(s) = Children(p) /\ Len(s) \in Nat
    <2>1. s \in Seq(Item) /\ Listing(s, child[p], next) /\ Members(s) = Children(p)
        BY ListLinked DEF Linked
    <2> QED BY <2>1
<1>2. /\ i \in Item /\ i \in Children(p) /\ i # NULL
      /\ next[i] = At(s, n + 1) /\ prev[i] = At(s, n - 1) /\ (child[p] = i <=> n = 1)
      /\ \A m \in 1 .. Len(s) : s[m] = i <=> m = n
    BY Neighbours, LinkFacts
<1>3. \A m \in 1 .. Len(s) : s[m] \in Item /\ s[m] # NULL /\ s[m] \in Children(p)
                            /\ \A k \in 1 .. Len(s) : s[k] = s[m] <=> k = m
    BY Neighbours, LinkFacts
<1>4. NULL \notin Item /\ p \in items /\ ~label[p].ref
    BY LinkFacts DEF Holds
<1>5. /\ next' \in [Item -> Pointer] /\ prev' \in [Item -> Pointer] /\ child' \in [Item -> Pointer]
      /\ \A j \in Item : next'[j] = IF j \in gone \cup {i} THEN NULL
                                    ELSE IF j = prev[i] THEN next[i] ELSE next[j]
      /\ \A j \in Item : prev'[j] = IF j \in gone \cup {i} THEN NULL
                                    ELSE IF j = next[i] THEN prev[i] ELSE prev[j]
      /\ \A j \in Item : child'[j] = IF j \in gone THEN NULL
                                     ELSE IF ~label[j].ref /\ child[j] = i THEN next[i] ELSE child[j]
    <2>1. i \in Children(p) /\ p \in items /\ ~label[p].ref
        BY <1>2, <1>4
    <2>2. Unlinks(i, gone)
        BY <2>1, DetachedLinks
    <2> QED BY <2>2 DEF Unlinks
<1>6. n \in 1 .. Len(s) /\ i = s[n]
    OBVIOUS
<1> HIDE DEF s
<1>7. ASSUME p \notin gone
      PROVE  Listing(Lists!RemoveAt(s, n), child'[p], next')
    <2>1. \A m \in 1 .. Len(s) : m # n => s[m] \notin gone
        BY <1>2, <1>3, <1>6, <1>7 DEF FreedBelow
    <2>2. n # 1 => next'[At(s, n - 1)] = At(s, n + 1)
        <3> SUFFICES ASSUME n # 1 PROVE next'[At(s, n - 1)] = At(s, n + 1)
            OBVIOUS
        <3>1. n - 1 \in 1 .. Len(s) /\ n - 1 # n
            BY ONLY <1>1, <1>6, n # 1
        <3>2. At(s, n - 1) = s[n - 1] /\ s[n - 1] \notin gone /\ s[n - 1] # i /\ s[n - 1] \in Item
            BY <1>2, <1>3, <2>1, <3>1 DEF At
        <3> QED BY <1>2, <1>5, <3>2
    <2>3. \A m \in 1 .. Len(s) : m # n - 1 /\ m # n => next'[s[m]] = next[s[m]]
        <3> SUFFICES ASSUME NEW m \in 1 .. Len(s), m # n - 1, m # n PROVE next'[s[m]] = next[s[m]]
            OBVIOUS
        <3>1. s[m] # At(s, n - 1)
            BY <1>3 DEF At
        <3> QED BY <1>2, <1>3, <1>5, <2>1, <3>1
    <2>4. child'[p] = IF n = 1 THEN At(s, 2) ELSE child[p]
        BY <1>2, <1>4, <1>5, <1>7
    <2>5. Listing(Lists!RemoveAt(s, n), IF n = 1 THEN At(s, 2) ELSE child[p], next')
        BY ONLY <1>1, <1>6, <2>2, <2>3, ListingRemoved
    <2> QED BY <2>4, <2>5
<1>8. ASSUME p \notin gone PROVE ChildLists'[p] = Lists!RemoveAt(s, n)
    BY <1>4, <1>7, <1>8, ListOfNext
<1>9. ASSUME NEW q \in Item \ {p}, q \notin gone PROVE ChildLists'[q] = ChildLists[q]
    <2>1. CASE Holds(q)
        <3>1. \A y \in Children(q) : y \in Item /\ y \notin Children(p)
            BY <1>4, <2>1, AtMostOneParent, ChildrenEntered, LinkFacts DEF Holds
        <3>2. \A y \in Children(q) : y # i /\ y \notin gone
            BY <1>2, <1>6, <1>9, <2>1, <3>1 DEF FreedBelow
        <3>3. child[q] # i
            <4>1. child[q] \in Children(q) \cup {NULL}
                BY <2>1, ChildrenClosed DEF Holds
            <4> QED BY <1>2, <3>2, <4>1
        <3>4. q \in items' /\ ~label'[q].ref /\ child'[q] = child[q]
            BY <1>5, <1>9, <2>1, <3>3 DEF Holds
        <3>5. prev[i] \in Children(p) \cup {NULL}
            BY <1>2, <1>3 DEF At
        <3>6. \A y \in Children(q) : next'[y] = next[y]
            BY <1>4, <1>5, <3>1, <3>2, <3>5
        <3> QED BY <2>1, <3>4, <3>6, ListStays
    <2>2. CASE ~Holds(q)
        <3>1. q \notin items' \/ label'[q].ref
            BY <1>9, <2>2 DEF Holds
        <3>2. ChildLists[q] = <<>>
            BY <2>2 DEF ChildLists, Holds
        <3> QED BY <3>1, <3>2, NoListNext
    <2> QED BY <2>1, <2>2
<1>10. ASSUME NEW q \in Item, q \in gone PROVE ChildLists'[q] = <<>>
    BY <1>10, NoListNext
<1> QED BY <1>8, <1>9, <1>10 DEF s

\* A tree freed has, of who stays, no child but its top.
LEMMA TreeFreedBelow ==
    ASSUME IInv, NEW i \in Item
    PROVE  FreedBelow(Tree(i), i)
BY TreeAside DEF FreedBelow

\* No root is below another item.
LEMMA RootAside ==
    ASSUME IInv, NEW i \in items, Root(i), NEW j \in Item, j # i
    PROVE  i \notin Tree(j)
<1> SUFFICES ASSUME i \in Tree(j) PROVE FALSE
    OBVIOUS
<1>1. PICK y \in Tree(j) : (~label[y].ref /\ child[y] = i) \/ (y # j /\ next[y] = i)
    BY TreeEntered
<1>2. y \in Item /\ i \in Item /\ i # NULL
    BY TreeClosed, LinkFacts
<1> QED BY <1>1, <1>2, LinkFacts DEF Root

\* cJSON_ReplaceItemViaPointer: i takes the place of old.
LEMMA Replaced ==
    ASSUME IInv, IInv', NEW i \in items, Root(i), NEW p \in Item, Holds(p), p \notin Tree(i),
           NEW n \in 1 .. Len(ChildLists[p]), NEW old, old = ChildLists[p][n], NEW labels, NEW bufs,
           ReplaceItemViaPointer(p, old, i, labels, bufs), \A j \in Item : labels[j].ref = label[j].ref
    PROVE  GivenTo(p, n, i, Tree(old))
<1> USE DEF GivenTo
<1> DEFINE s == ChildLists[p]
           gone == Tree(old)
<1>1. s \in Seq(Item) /\ Listing(s, child[p], next) /\ Members(s) = Children(p) /\ Len(s) \in Nat
    <2>1. s \in Seq(Item) /\ Listing(s, child[p], next) /\ Members(s) = Children(p)
        BY ListLinked DEF Linked
    <2> QED BY <2>1
<1>2. /\ old \in Item /\ old \in Children(p) /\ old # NULL /\ ~Root(old)
      /\ next[old] = At(s, n + 1) /\ prev[old] = At(s, n - 1) /\ (child[p] = old <=> n = 1)
      /\ \A m \in 1 .. Len(s) : s[m] = old <=> m = n
    <2>1. /\ old \in items /\ old \in Item /\ old \in Children(p) /\ ~Root(old)
          /\ next[old] = At(s, n + 1) /\ prev[old] = At(s, n - 1)
          /\ child[p] = old <=> n = 1
          /\ \A m \in 1 .. Len(s) : s[m] = old <=> m = n
        BY Neighbours
    <2>2. old # NULL
        BY <2>1, LinkFacts
    <2> QED BY <2>1, <2>2
<1>3. \A m \in 1 .. Len(s) : s[m] \in Item /\ s[m] # NULL /\ s[m] # i /\ s[m] \in Children(p)
                            /\ \A k \in 1 .. Len(s) : s[k] = s[m] <=> k = m
    BY Neighbours, LinkFacts
<1>4. NULL \notin Item /\ p \in items /\ ~label[p].ref /\ p # i /\ i \in Item /\ i \notin gone /\ items \subseteq Item
    BY <1>2, RootAside, TreeClosed, LinkFacts DEF Holds
<1>5. child \in [Item -> Pointer] /\ next \in [Item -> Pointer]
    BY DEF IInv, ItemsTypeOK
<1>6. n \in 1 .. Len(s) /\ old = s[n]
    OBVIOUS
<1>7. FreedBelow(gone, old) /\ old \in gone
    BY <1>2, TreeFreedBelow, TreeClosed
<1> HIDE DEF s, gone
<1>8. /\ next' = Freed(Store([next EXCEPT ![i] = next[old]], prev[old], i), gone)
      /\ child' = Freed(IF child[p] = old THEN [child EXCEPT ![p] = i] ELSE child, gone)
      /\ items' = items \ gone
      /\ \A j \in Item \ gone : label'[j].ref = label[j].ref
    BY DEF ReplaceItemViaPointer, FreeItems, gone
<1>9. \A y \in Item \ gone : child'[y] = IF n = 1 /\ y = p THEN i ELSE child[y]
    BY <1>2, <1>4, <1>5, <1>8 DEF Freed
<1>10. \A y \in Item \ gone : next'[y] = IF y = At(s, n - 1) THEN i
                                         ELSE IF y = i THEN At(s, n + 1) ELSE next[y]
    <2> DEFINE f == Store([next EXCEPT ![i] = next[old]], prev[old], i)
    <2>1. \A y \in Item : f[y] = IF y = prev[old] THEN i ELSE IF y = i THEN next[old] ELSE next[y]
        <3>1. CASE prev[old] = NULL
            BY <1>4, <1>5, <3>1 DEF Store
        <3>2. CASE prev[old] # NULL
            BY <1>4, <1>5, <3>2 DEF Store
        <3> QED BY <3>1, <3>2
    <2> HIDE DEF f
    <2>2. \A y \in Item \ gone : next'[y] = f[y]
        BY <1>8 DEF Freed, f
    <2> QED BY <1>2, <2>1, <2>2
<1>11. ASSUME p \notin gone
       PROVE  Listing(Lists!ReplaceAt(s, n, i), child'[p], next')
    <2>1. \A m \in 1 .. Len(s) : m # n => s[m] \notin gone
        BY <1>2, <1>3, <1>4, <1>7, <1>11 DEF FreedBelow
    <2>2. At(s, n - 1) # i
        BY <1>3, <1>4 DEF At
    <2>3. next'[i] = At(s, n + 1)
        BY <1>4, <1>10, <2>2
    <2>4. n # 1 => next'[At(s, n - 1)] = i
        <3> SUFFICES ASSUME n # 1 PROVE next'[At(s, n - 1)] = i
            OBVIOUS
        <3>1. n - 1 \in 1 .. Len(s) /\ n - 1 # n
            BY ONLY <1>1, <1>6, n # 1
        <3>2. At(s, n - 1) = s[n - 1] /\ s[n - 1] \notin gone /\ s[n - 1] \in Item
            BY <1>3, <2>1, <3>1 DEF At
        <3> QED BY <1>10, <3>2
    <2>5. \A m \in 1 .. Len(s) : m # n - 1 /\ m # n => next'[s[m]] = next[s[m]]
        <3> SUFFICES ASSUME NEW m \in 1 .. Len(s), m # n - 1, m # n PROVE next'[s[m]] = next[s[m]]
            OBVIOUS
        <3>1. s[m] # At(s, n - 1)
            BY <1>3 DEF At
        <3> QED BY <1>3, <1>10, <2>1, <3>1
    <2>6. child'[p] = IF n = 1 THEN i ELSE child[p]
        BY <1>4, <1>9, <1>11
    <2>7. Listing(Lists!ReplaceAt(s, n, i), IF n = 1 THEN i ELSE child[p], next')
        BY ONLY <1>1, <1>4, <1>6, <2>3, <2>4, <2>5, ListingReplaced
    <2> QED BY <2>6, <2>7
<1>12. ASSUME p \notin gone PROVE ChildLists'[p] = Lists!ReplaceAt(s, n, i)
    BY <1>4, <1>8, <1>11, <1>12, ListOfNext
<1>13. ASSUME NEW q \in Item \ {p}, q \notin gone PROVE ChildLists'[q] = ChildLists[q]
    <2>1. CASE Holds(q)
        <3>1. \A y \in Children(q) : y \in Item /\ y \notin Children(p) /\ y # i
            BY <1>4, <2>1, AtMostOneParent, ChildrenEntered, LinkFacts, Listed DEF Holds
        <3>2. \A y \in Children(q) : y # old /\ y \notin gone
            BY <1>2, <1>7, <1>13, <2>1, <3>1 DEF FreedBelow
        <3>3. q \in items' /\ ~label'[q].ref /\ child'[q] = child[q]
            BY <1>8, <1>9, <1>13, <2>1 DEF Holds
        <3>4. At(s, n - 1) \in Children(p) \cup {NULL}
            BY <1>3 DEF At
        <3>5. \A y \in Children(q) : next'[y] = next[y]
            BY <1>4, <1>10, <3>1, <3>2, <3>4
        <3> QED BY <2>1, <3>3, <3>5, ListStays
    <2>2. CASE ~Holds(q)
        <3>1. q \notin items' \/ label'[q].ref
            BY <1>8, <1>13, <2>2 DEF Holds
        <3>2. ChildLists[q] = <<>>
            BY <2>2 DEF ChildLists, Holds
        <3> QED BY <3>1, <3>2, NoListNext
    <2> QED BY <2>1, <2>2
<1>14. ASSUME NEW q \in Item, q \in gone PROVE ChildLists'[q] = <<>>
    BY <1>8, <1>14, NoListNext
<1> QED BY <1>12, <1>13, <1>14 DEF s, gone

\* cJSON_Delete of a root: the lists of its tree go.
LEMMA Discarded ==
    ASSUME IInv, IInv', NEW i \in items, Root(i), items' = items \ Tree(i),
           \A j \in Item \ Tree(i) : next'[j] = next[j] /\ child'[j] = child[j] /\ label'[j] = label[j]
    PROVE  \A q \in Item : ChildLists'[q] = IF q \in Tree(i) THEN <<>> ELSE ChildLists[q]
<1>1. ASSUME NEW q \in Item, q \in Tree(i) PROVE ChildLists'[q] = <<>>
    BY <1>1, NoListNext
<1>2. ASSUME NEW q \in Item, q \notin Tree(i) PROVE ChildLists'[q] = ChildLists[q]
    <2>1. CASE Holds(q)
        <3>1. \A y \in Children(q) : y \in Item /\ y \notin Tree(i)
            BY <1>2, <2>1, ChildrenApart, ChildrenEntered, LinkFacts DEF Holds
        <3>2. q \in items' /\ ~label'[q].ref /\ child'[q] = child[q]
            BY <1>2, <2>1 DEF Holds
        <3> QED BY <2>1, <3>1, <3>2, ListStays
    <2>2. CASE ~Holds(q)
        <3>1. q \notin items' \/ label'[q].ref
            BY <1>2, <2>2 DEF Holds
        <3>2. ChildLists[q] = <<>>
            BY <2>2 DEF ChildLists, Holds
        <3> QED BY <3>1, <3>2, NoListNext
    <2> QED BY <2>1, <2>2
<1> QED BY <1>1, <1>2

\* A walk stays in a set that first and next stay in.
LEMMA ListingWithin ==
    ASSUME NEW nx, NEW first, NEW s, Listing(s, first, nx), NEW S, first \in S \cup {NULL},
           \A y \in S : nx[y] \in S \cup {NULL}
    PROVE  Members(s) \subseteq S
<1>1. /\ s \in Seq(Item) /\ first = At(s, 1) /\ \A n \in 1 .. Len(s) : nx[s[n]] = At(s, n + 1)
      /\ NULL \notin Item
    BY ItemAssumption DEF Listing
<1>2. Len(s) \in Nat /\ \A n \in 1 .. Len(s) : s[n] \in Item
    BY <1>1
<1> DEFINE N == {n \in 1 .. Len(s) : s[n] \notin S}
<1>3. N = {}
    <2> SUFFICES ASSUME N # {} PROVE FALSE
        OBVIOUS
    <2>1. PICK n \in N : \A m \in N : n <= m
        <3>1. N \in (SUBSET Nat) \ {{}}
            OBVIOUS
        <3> QED BY ONLY <3>1, LeastNumber
    <2>2. n \in 1 .. Len(s) /\ s[n] \notin S
        OBVIOUS
    <2>3. CASE n = 1
        BY <1>1, <1>2, <2>2, <2>3 DEF At
    <2>4. CASE n # 1
        <3>1. n - 1 \in 1 .. Len(s) /\ (n - 1) + 1 = n /\ ~(n <= n - 1)
            BY ONLY <1>2, <2>2, <2>4
        <3>2. s[n - 1] \in S /\ nx[s[n - 1]] = s[n]
            BY <1>1, <2>1, <2>2, <3>1 DEF At
        <3> QED BY <1>1, <1>2, <2>2, <3>2
    <2> QED BY <2>3, <2>4
<1> QED BY <1>3 DEF Members

\* The same after the call.
LEMMA ListsNext == IInv' => AllLinked' /\ PlacedOnce'
<1>1. IInv => AllLinked /\ PlacedOnce
    BY ListLinked, ListsPlace DEF AllLinked
<1> QED BY <1>1, PTL

\* A new item without a list.
LEMMA GrowRoot ==
    ASSUME IInv, IInv', NEW i \in Item \ items, items' = items \cup {i}, next' = next,
           \A j \in Item \ {i} : child'[j] = child[j] /\ label'[j] = label[j],
           child'[i] = NULL \/ label'[i].ref
    PROVE  Lists!Grow
<1>1. items \subseteq Item
    BY LinkFacts
<1>2. ASSUME NEW p \in Item \ {i} PROVE ChildLists'[p] = ChildLists[p]
    <2>1. CASE Holds(p)
        <3>1. p \in items' /\ ~label'[p].ref /\ child'[p] = child[p]
            BY <2>1 DEF Holds
        <3> QED BY <2>1, <3>1, ListStays
    <2>2. CASE ~Holds(p)
        <3>1. p \notin items' \/ label'[p].ref
            BY <2>2 DEF Holds
        <3>2. ChildLists[p] = <<>>
            BY <2>2 DEF ChildLists, Holds
        <3> QED BY <3>1, <3>2, NoListNext
    <2> QED BY <2>1, <2>2
<1>3. ChildLists'[i] = <<>>
    <2>1. CASE label'[i].ref
        BY <2>1, NoListNext
    <2>2. CASE ~label'[i].ref
        <3>1. Listing(<<>>, child'[i], next')
            BY <2>2 DEF Listing, At
        <3> QED BY <2>2, <3>1, ListOfNext
    <2> QED BY <2>1, <2>2
<1>4. items' \ items = {i} /\ items \subseteq items' /\ items' # items
    BY <1>1
<1>5. Lists!Range(ChildLists'[i]) = {} /\ Lists!IsInjective(ChildLists'[i])
    BY <1>3 DEF Lists!Range, Lists!IsInjective
<1>6. /\ \A p \in Item \ {i} : ChildLists'[p] = ChildLists[p]
      /\ \A p \in {i} : Lists!Range(ChildLists'[p]) \subseteq {i} \ {i} /\ Lists!IsInjective(ChildLists'[p])
      /\ \A j \in {i} \ {i} : \E p \in {i} :
            /\ j \in Lists!Range(ChildLists'[p])
            /\ \A q \in {i} \ {p} : j \notin Lists!Range(ChildLists'[q])
    BY <1>2, <1>5
<1> QED BY <1>4, <1>6 DEF Lists!Grow

\* New items that have no links with the others, below one that the caller gets.
NewTree(new, root) ==
    /\ new \in SUBSET (Item \ items) /\ root \in new /\ items' = items \cup new
    /\ \A j \in Item \ new : next'[j] = next[j] /\ child'[j] = child[j] /\ label'[j] = label[j]
    /\ \A j \in new : {next'[j], child'[j]} \subseteq new \cup {NULL} /\ ~label'[j].ref
    /\ \A j \in new : j \in held' <=> j = root

\* New items that are linked to each other only are a step of the lists.
LEMMA GrowTree ==
    ASSUME IInv, IInv', NEW new, NEW root, NewTree(new, root)
    PROVE  Lists!Grow
<1> USE DEF NewTree
<1>1. items \subseteq Item /\ items \cap new = {}
    BY LinkFacts
<1>2. ASSUME NEW p \in Item \ new PROVE ChildLists'[p] = ChildLists[p]
    <2>1. CASE Holds(p)
        <3>1. p \in items' /\ ~label'[p].ref /\ child'[p] = child[p]
            BY <2>1 DEF Holds
        <3>2. \A y \in Children(p) : y \in Item /\ y \notin new
            BY <1>1, <2>1, ChildrenEntered DEF Holds
        <3> QED BY <2>1, <3>1, <3>2, ListStays
    <2>2. CASE ~Holds(p)
        <3>1. p \notin items' \/ label'[p].ref
            BY <2>2 DEF Holds
        <3>2. ChildLists[p] = <<>>
            BY <2>2 DEF ChildLists, Holds
        <3> QED BY <3>1, <3>2, NoListNext
    <2> QED BY <2>1, <2>2
<1>3. \A p \in Item : ChildLists'[p] \in Seq(Item)
    BY ListsNext DEF AllLinked, Linked
<1>4. \A p \in Item : \A m, n \in 1 .. Len(ChildLists'[p]) : ChildLists'[p][m] = ChildLists'[p][n] => m = n
    BY ListsNext DEF AllLinked, Linked
<1>5. /\ \A p, q \in Item : Members(ChildLists'[p]) \cap Members(ChildLists'[q]) # {} => p = q
      /\ \A p \in Item : root \notin Members(ChildLists'[p])
      /\ \A j \in new \ {root} : \E p \in Item : j \in Members(ChildLists'[p])
    <2>1. \A p, q \in Item : Members(ChildLists'[p]) \cap Members(ChildLists'[q]) # {} => p = q
        BY ListsNext DEF PlacedOnce, Members
    <2>2. Root(root)'
        BY DEF IInv, HeldAreRoots
    <2>3. \A p \in Item : root \notin Members(ChildLists'[p])
        BY <2>2, ListsNext DEF PlacedOnce, Members
    <2>4. ASSUME NEW j \in new \ {root} PROVE \E p \in Item : j \in Members(ChildLists'[p])
        <3>1. j \in items' /\ j \notin held' /\ ~label'[j].ref
            OBVIOUS
        <3>2. Entered(j)' \/ Lost(j)'
            BY <3>1 DEF IInv, OthersEntered
        <3>3. Entered(j)'
            BY <3>1, <3>2 DEF Lost
        <3> QED BY <3>1, <3>3, ListsNext DEF PlacedOnce, Members
    <2> QED BY <2>1, <2>3, <2>4
<1>6. ASSUME NEW p \in new PROVE Members(ChildLists'[p]) \subseteq new \ {root}
    <2>1. Listing(ChildLists'[p], child'[p], next')
        <3>1. Holds(p)'
            BY DEF Holds
        <3> QED BY <3>1, ListsNext DEF AllLinked, Linked, Listing
    <2>2. child'[p] \in new \cup {NULL} /\ \A y \in new : next'[y] \in new \cup {NULL}
        OBVIOUS
    <2>3. Members(ChildLists'[p]) \subseteq new
        BY ONLY <2>1, <2>2, ListingWithin
    <2> QED BY <1>5, <2>3
<1>7. \A p \in Item : /\ Lists!Range(ChildLists'[p]) = Members(ChildLists'[p])
                      /\ Lists!IsInjective(ChildLists'[p])
    <2> SUFFICES ASSUME NEW p \in Item PROVE /\ Lists!Range(ChildLists'[p]) = Members(ChildLists'[p])
                                             /\ Lists!IsInjective(ChildLists'[p])
        OBVIOUS
    <2>1. Lists!Range(ChildLists'[p]) = Members(ChildLists'[p])
          /\ DOMAIN ChildLists'[p] = 1 .. Len(ChildLists'[p])
        BY <1>3, RangeMembers
    <2> QED BY <1>4, <2>1 DEF Lists!IsInjective
<1>8. ASSUME NEW j \in new \ {root}
      PROVE  \E p \in new : /\ j \in Lists!Range(ChildLists'[p])
                            /\ \A q \in new \ {p} : j \notin Lists!Range(ChildLists'[q])
    <2>1. PICK p \in Item : j \in Members(ChildLists'[p])
        BY <1>5
    <2>2. p \in new
        <3> SUFFICES ASSUME p \notin new PROVE FALSE
            OBVIOUS
        <3>1. Members(ChildLists[p]) \subseteq items
            <4>1. Members(ChildLists[p]) = IF Holds(p) THEN Children(p) ELSE {}
                BY ListLinked DEF Linked
            <4> QED BY <4>1, ChildrenEntered DEF Holds
        <3> QED BY <1>1, <1>2, <2>1, <3>1
    <2>3. \A q \in new \ {p} : j \notin Members(ChildLists'[q])
        BY <1>5, <2>1
    <2> QED BY <1>7, <2>1, <2>2, <2>3
<1>9. items' \ items = new /\ items \subseteq items' /\ items' # items
    BY <1>1
<1>10. /\ \A p \in Item \ new : ChildLists'[p] = ChildLists[p]
       /\ \A p \in new : Lists!Range(ChildLists'[p]) \subseteq new \ {root}
                         /\ Lists!IsInjective(ChildLists'[p])
       /\ \A i \in new \ {root} : \E p \in new :
             /\ i \in Lists!Range(ChildLists'[p])
             /\ \A q \in new \ {p} : i \notin Lists!Range(ChildLists'[q])
    <2>1. \A p \in new : p \in Item
        OBVIOUS
    <2> QED BY <1>2, <1>6, <1>7, <1>8, <2>1
<1> QED BY <1>9, <1>10 DEF Lists!Grow

\* cJSON_CreateIntArray ... StringArray: one list of new items.
LEMMA CreateArrayGrows ==
    ASSUME IInv, IInv', NEW count \in Nat \ {0}, NEW strings \in BOOLEAN,
           NEW at \in [0 .. count -> Item \ items], CreateArray(count, at, strings)
    PROVE  Lists!Grow
<1> DEFINE new    == {at[n] : n \in 0 .. count}
           Pos(i) == CHOOSE n \in 0 .. count : at[n] = i
<1>1. new \in SUBSET (Item \ items) /\ \A m, n \in 0 .. count : at[m] = at[n] => m = n
    BY DEF CreateArray
<1>2. \A n \in 0 .. count : Pos(at[n]) = n /\ at[n] \in new
    BY <1>1
<1>3. /\ items' = items \cup new /\ held' = held \cup {at[0]}
      /\ next' = [i \in Item |-> IF i \in new /\ Pos(i) \in 1 .. count - 1
                                 THEN at[Pos(i) + 1] ELSE next[i]]
      /\ child' = [child EXCEPT ![at[0]] = at[1]]
      /\ label' = [i \in Item |-> IF i \in new \ {at[0]} /\ strings
                                  THEN [Blank EXCEPT !.value = i] ELSE label[i]]
    BY DEF CreateArray
<1>4. 0 \in 0 .. count /\ 1 \in 0 .. count /\ at[0] \in new /\ at[1] \in new
    BY <1>2
<1>5. /\ \A j \in Item : child'[j] = IF j = at[0] THEN at[1] ELSE child[j]
      /\ \A j \in new : child[j] = NULL /\ next[j] = NULL /\ label[j] = Blank
    BY <1>1, <1>3 DEF IInv, ItemsTypeOK, Unallocated
<1>6. \A j \in new : Pos(j) \in 1 .. count - 1 => at[Pos(j) + 1] \in new
    <2> SUFFICES ASSUME NEW j \in new, Pos(j) \in 1 .. count - 1 PROVE at[Pos(j) + 1] \in new
        OBVIOUS
    <2>1. Pos(j) + 1 \in 0 .. count
        OBVIOUS
    <2> QED BY <2>1
<1>7. Blank.ref = FALSE /\ \A v : [Blank EXCEPT !.value = v].ref = FALSE
    BY DEF Blank
<1>8. held \subseteq items
    BY DEF IInv, ItemsTypeOK
<1> HIDE DEF new, Pos
<1>9. \A j \in Item \ new : next'[j] = next[j] /\ child'[j] = child[j] /\ label'[j] = label[j]
    BY <1>3, <1>4, <1>5
<1>10. \A j \in new : {next'[j], child'[j]} \subseteq new \cup {NULL} /\ ~label'[j].ref
    BY <1>1, <1>3, <1>4, <1>5, <1>6, <1>7
<1>11. \A j \in new : j \in held' <=> j = at[0]
    BY <1>1, <1>3, <1>8
<1>12. NewTree(new, at[0])
    BY <1>1, <1>3, <1>4, <1>9, <1>10, <1>11 DEF NewTree
<1> QED BY <1>12, GrowTree

\* cJSON_Duplicate: copies of the lists below.
LEMMA DuplicateGrows ==
    ASSUME IInv, IInv', NEW i \in items, NEW recurse \in BOOLEAN,
           NEW copy \in [IF recurse THEN Below(i) ELSE {i} -> Item \ items], Duplicate(i, recurse, copy)
    PROVE  Lists!Grow
<1> DEFINE T        == IF recurse THEN Below(i) ELSE {i}
           Orig(j)  == CHOOSE y \in T : copy[y] = j
           Image(x) == IF x \in T \ {i} THEN copy[x] ELSE NULL
           new      == {copy[y] : y \in T}
<1>1. i \in T /\ copy \in [T -> Item \ items] /\ \A x, y \in T : copy[x] = copy[y] => x = y
    <2>1. i \in T
        BY BelowClosed
    <2>2. \A x, y \in T : copy[x] = copy[y] => x = y
        BY Zenon DEF Duplicate
    <2> QED BY <2>1, <2>2
<1>2. /\ items' = items \cup new /\ held' = held \cup {copy[i]}
      /\ next' = [j \in Item |-> IF j \in new /\ Orig(j) # i THEN Image(next[Orig(j)]) ELSE next[j]]
      /\ child' = [j \in Item |-> IF j \in new THEN Image(child[Orig(j)]) ELSE child[j]]
      /\ label' = [j \in Item |->
                     IF j \notin new THEN label[j]
                     ELSE [label[Orig(j)] EXCEPT !.ref = FALSE,
                                                 !.value = IF @ = NULL THEN NULL ELSE j]]
    BY DEF Duplicate
<1> HIDE DEF T
<1>3. new \in SUBSET (Item \ items) /\ copy[i] \in new /\ \A x : Image(x) \in new \cup {NULL}
    BY <1>1
<1>4. \A j \in new : Orig(j) \in T
    BY <1>1
<1>5. T \subseteq Item
    BY BelowClosed, LinkFacts DEF T
<1>6. held \subseteq items /\ label \in [Item -> Label] /\ \A j \in new : next[j] = NULL
    BY <1>3, LinkFacts DEF IInv, ItemsTypeOK, Root
<1> HIDE DEF new, Orig, Image
<1>7. \A j \in Item \ new : next'[j] = next[j] /\ child'[j] = child[j] /\ label'[j] = label[j]
    BY <1>2
<1>8. \A j \in new : {next'[j], child'[j]} \subseteq new \cup {NULL} /\ ~label'[j].ref
    <2> SUFFICES ASSUME NEW j \in new PROVE {next'[j], child'[j]} \subseteq new \cup {NULL} /\ ~label'[j].ref
        OBVIOUS
    <2>1. j \in Item /\ label[Orig(j)] \in Label
        BY <1>3, <1>4, <1>5, <1>6
    <2>2. next'[j] \in new \cup {NULL} /\ child'[j] \in new \cup {NULL}
        BY <1>2, <1>3, <1>6, <2>1
    <2>3. label'[j] = [label[Orig(j)] EXCEPT !.ref = FALSE,
                                             !.value = IF label[Orig(j)].value = NULL THEN NULL ELSE j]
        BY <1>2, <2>1 DEF Label
    <2>4. label'[j].ref = FALSE
        BY <2>1, <2>3 DEF Label
    <2> QED BY <2>2, <2>4
<1>9. \A j \in new : j \in held' <=> j = copy[i]
    BY <1>2, <1>3, <1>6
<1>10. NewTree(new, copy[i])
    BY <1>2, <1>3, <1>7, <1>8, <1>9 DEF NewTree
<1> QED BY <1>10, GrowTree

-----------------------------------------------------------------------------
(* Every call is a step of ItemLists.                                      *)

\* One list changes.
LEMMA OneListChanged ==
    ASSUME NEW p \in Item, NEW t, \A q \in Item : ChildLists'[q] = IF q = p THEN t ELSE ChildLists[q]
    PROVE  ChildLists' = [ChildLists EXCEPT ![p] = t]
<1>1. ChildLists' = [q \in Item |-> ChildLists'[q]]
    BY DEF ChildLists
<1>2. ChildLists = [q \in Item |-> ChildLists[q]]
    BY DEF ChildLists
<1> QED BY <1>1, <1>2

\* Some lists are emptied.
LEMMA ListsWithout ==
    ASSUME NEW f, NEW gone, \A q \in Item : ChildLists'[q] = IF q \in gone THEN <<>> ELSE f[q]
    PROVE  ChildLists' = Lists!Without(f, gone)
<1>1. ChildLists' = [q \in Item |-> ChildLists'[q]]
    BY DEF ChildLists
<1> QED BY <1>1 DEF Lists!Without

\* The last place is one behind the last child.
LEMMA InsertLast ==
    ASSUME NEW s \in Seq(Item), NEW i \in Item
    PROVE  Lists!InsertAt(s, Len(s) + 1, i) = Append(s, i)
<1> DEFINE n == Len(s) + 1
           t == Lists!InsertAt(s, n, i)
           u == Append(s, i)
<1>1. Len(s) \in Nat /\ n \in 1 .. Len(s) + 1 /\ n - 1 = Len(s)
    OBVIOUS
<1>2. t \in Seq(Item) /\ Len(t) = Len(s) + 1 /\ t[n] = i /\ \A m \in 1 .. n - 1 : t[m] = s[m]
    <2> HIDE DEF n
    <2> QED BY <1>1, Inserted
<1>3. u \in Seq(Item) /\ Len(u) = Len(s) + 1 /\ u[n] = i /\ \A m \in 1 .. Len(s) : u[m] = s[m]
    OBVIOUS
<1> HIDE DEF t, u
<1>4. \A m \in 1 .. Len(t) : t[m] = u[m]
    <2> SUFFICES ASSUME NEW m \in 1 .. Len(s) + 1 PROVE t[m] = u[m]
        BY <1>2
    <2>1. m = n \/ m \in 1 .. Len(s)
        OBVIOUS
    <2> QED BY <1>1, <1>2, <1>3, <2>1
<1>5. Len(t) = Len(u)
    BY <1>2, <1>3
<1>6. t = u
    BY ONLY <1>2, <1>3, <1>4, <1>5, SeqEqual
<1> QED BY <1>6 DEF t, u

\* The caller's item comes into a list.
LEMMA InsertStep ==
    ASSUME IInv, NEW i \in items, Root(i), NEW p \in Item, Holds(p), p \notin Tree(i),
           NEW n \in 1 .. Len(ChildLists[p]) + 1, items' = items,
           \A q \in Item : ChildLists'[q] = IF q = p THEN Lists!InsertAt(ChildLists[p], n, i) ELSE ChildLists[q]
    PROVE  Lists!ListsNext
<1>1. ChildLists' = [ChildLists EXCEPT ![p] = Lists!InsertAt(ChildLists[p], n, i)]
    BY OneListChanged
<1>2. Lists!IsRoot(i) /\ p \in items \ Lists!Family(i)
    BY RootIsRoot, FamilyIsTree DEF Holds
<1>3. Lists!Insert(p, n, i)
    BY <1>1, <1>2 DEF Lists!Insert
<1>4. i \in Item
    BY LinkFacts
<1> QED BY <1>3, <1>4 DEF Lists!ListsNext

\* add_item_to_array of an item of the caller.
LEMMA AddHeldStep ==
    ASSUME IInv, IInv', NEW i \in items, Root(i), NEW p \in Item, Holds(p), p \notin Tree(i),
           add_item_to_array(p, i, child[i]), items' = items,
           \A j \in Item \ {i} : label'[j] = label[j], label'[i].ref = label[i].ref
    PROVE  Lists!ListsNext
<1>1. i \in Item /\ items' = items \cup {i}
    BY LinkFacts
<1>2. \A q \in Item : ChildLists'[q] = IF q = p THEN Lists!InsertAt(ChildLists[p], Len(ChildLists[p]) + 1, i)
                                       ELSE ChildLists[q]
    BY <1>1, Appended
<1>3. Len(ChildLists[p]) + 1 \in 1 .. Len(ChildLists[p]) + 1
    <2>1. ChildLists[p] \in Seq(Item)
        BY ListLinked DEF Linked
    <2>2. Len(ChildLists[p]) \in Nat
        BY <2>1
    <2> QED BY <2>2
<1> QED BY <1>2, <1>3, InsertStep

\* add_item_to_array of an item that the call allocates.
LEMMA AddNewStep ==
    ASSUME IInv, IInv', NEW r \in Item \ items, NEW p \in Places(r), NEW first,
           add_item_to_array(p, r, first), items' = items \cup {r},
           \A j \in Item \ {r} : label'[j] = label[j], first = NULL \/ label'[r].ref
    PROVE  Lists!ListsNext
<1>1. p \in Item /\ Holds(p) /\ p \notin Tree(r) /\ Root(r)
    BY LinkFacts DEF Places, Holds
<1>2. \A q \in Item : ChildLists'[q] = IF q = p THEN Lists!InsertAt(ChildLists[p], Len(ChildLists[p]) + 1, r)
                                       ELSE ChildLists[q]
    BY <1>1, Appended
<1>3. Lists!InsertAt(ChildLists[p], Len(ChildLists[p]) + 1, r) = Append(ChildLists[p], r)
    <2>1. ChildLists[p] \in Seq(Item)
        BY <1>1, ListLinked DEF Linked
    <2> QED BY <2>1, InsertLast
<1>4. ChildLists' = [ChildLists EXCEPT ![p] = Append(ChildLists[p], r)]
    BY <1>1, <1>2, <1>3, OneListChanged
<1>5. Lists!AppendNew(p, r)
    BY <1>1, <1>4 DEF Lists!AppendNew, Holds
<1> QED BY <1>1, <1>5 DEF Lists!ListsNext

\* cJSON_InsertItemInArray.
LEMMA InsertItemStep ==
    ASSUME IInv, IInv', NEW i \in items, Root(i), NEW p \in Item, Holds(p), p \notin Tree(i),
           NEW after \in Children(p), InsertBefore(p, after, i), items' = items, label' = label
    PROVE  Lists!ListsNext
<1>1. PICK n \in 1 .. Len(ChildLists[p]) : ChildLists[p][n] = after
    BY ListLinked DEF Linked, Members
<1>2. i \in Item
    BY LinkFacts
<1>3. \A q \in Item : ChildLists'[q] = IF q = p THEN Lists!InsertAt(ChildLists[p], n, i) ELSE ChildLists[q]
    BY <1>1, <1>2, PutBefore
<1>4. n \in 1 .. Len(ChildLists[p]) + 1
    <2>1. ChildLists[p] \in Seq(Item)
        BY ListLinked DEF Linked
    <2>2. Len(ChildLists[p]) \in Nat
        BY <2>1
    <2> QED BY <2>2
<1> QED BY <1>3, <1>4, InsertStep

\* cJSON_DetachItemFrom..., cJSON_DeleteItemFrom...
LEMMA TakeOutStep ==
    ASSUME IInv, IInv', NEW p \in items, ~label[p].ref, NEW i \in Children(p), NEW gone \in {{}, Tree(i)},
           DetachItemViaPointer(p, i, gone), items' = items \ gone,
           \A j \in Item \ gone : label'[j] = label[j]
    PROVE  Lists!ListsNext
<1>1. p \in Item /\ Holds(p) /\ i \in items /\ i \in Item
    BY ChildrenEntered, LinkFacts DEF Holds
<1>2. PICK n \in 1 .. Len(ChildLists[p]) : ChildLists[p][n] = i
    BY <1>1, ListLinked DEF Linked, Members
<1>3. FreedBelow(gone, i)
    <2>1. FreedBelow({}, i)
        BY DEF FreedBelow
    <2> QED BY <1>1, <2>1, TreeFreedBelow
<1>4. TakenOut(p, n, gone)
    BY <1>1, <1>2, <1>3, Unlinked
<1> DEFINE f == [ChildLists EXCEPT ![p] = Lists!RemoveAt(ChildLists[p], n)]
<1>5. \A q \in Item : f[q] = IF q = p THEN Lists!RemoveAt(ChildLists[p], n) ELSE ChildLists[q]
    BY DEF ChildLists
<1> HIDE DEF f
<1>6. ChildLists' = Lists!Without(f, gone)
    BY <1>4, <1>5, ListsWithout DEF TakenOut
<1>7. Lists!TakeOut(p, n, gone)
    BY <1>6 DEF Lists!TakeOut, f
<1>8. gone \in {{}, Lists!Family(ChildLists[p][n])}
    BY <1>1, <1>2, FamilyIsTree
<1>9. n \in DOMAIN ChildLists[p]
    <2>1. ChildLists[p] \in Seq(Item)
        BY <1>1, ListLinked DEF Linked
    <2> QED BY <1>2, <2>1
<1> QED BY <1>7, <1>8, <1>9 DEF Lists!ListsNext

\* cJSON_ReplaceItem...
LEMMA ReplaceStep ==
    ASSUME IInv, IInv', NEW i \in items, Root(i), NEW p \in Item, Holds(p), p \notin Tree(i),
           NEW old \in Children(p), NEW labels, NEW bufs, ReplaceItemViaPointer(p, old, i, labels, bufs),
           \A j \in Item : labels[j].ref = label[j].ref
    PROVE  Lists!ListsNext
<1>1. p \in items /\ old \in items /\ i \in Item
    BY ChildrenEntered, LinkFacts DEF Holds
<1>2. PICK n \in 1 .. Len(ChildLists[p]) : ChildLists[p][n] = old
    BY ListLinked DEF Linked, Members
<1>3. GivenTo(p, n, i, Tree(old))
    BY <1>2, Replaced
<1> DEFINE f == [ChildLists EXCEPT ![p] = Lists!ReplaceAt(ChildLists[p], n, i)]
           gone == Tree(old)
<1>4. \A q \in Item : f[q] = IF q = p THEN Lists!ReplaceAt(ChildLists[p], n, i) ELSE ChildLists[q]
    BY DEF ChildLists
<1>5. gone = Lists!Family(ChildLists[p][n]) /\ items' = items \ gone
    BY <1>1, <1>2, FamilyIsTree DEF ReplaceItemViaPointer, FreeItems
<1>6. ChildLists' = Lists!Without(f, gone)
    <2> HIDE DEF f, gone
    <2>1. \A q \in Item : ChildLists'[q] = IF q \in gone THEN <<>> ELSE f[q]
        BY <1>3, <1>4 DEF GivenTo, gone
    <2> QED BY <2>1, ListsWithout
<1>7. Lists!IsRoot(i) /\ p \notin Lists!Family(i)
    BY RootIsRoot, FamilyIsTree
<1> HIDE DEF gone
<1>8. Lists!Replace(p, n, i)
    BY <1>5, <1>6, <1>7 DEF Lists!Replace, f
<1>9. n \in DOMAIN ChildLists[p]
    <2>1. ChildLists[p] \in Seq(Item)
        BY ListLinked DEF Linked
    <2> QED BY <1>2, <2>1
<1> QED BY <1>1, <1>8, <1>9 DEF Lists!ListsNext

\* cJSON_Delete.
LEMMA DiscardStep ==
    ASSUME IInv, IInv', NEW i \in held, Delete(i)
    PROVE  Lists!ListsNext
<1>1. i \in items /\ Root(i)
    BY DEF IInv, ItemsTypeOK, HeldAreRoots
<1> DEFINE gone == Tree(i)
<1>2. /\ items' = items \ gone
      /\ \A j \in Item \ gone : next'[j] = next[j] /\ child'[j] = child[j] /\ label'[j] = label[j]
    BY DEF Delete, FreeItems, Freed
<1>3. \A q \in Item : ChildLists'[q] = IF q \in gone THEN <<>> ELSE ChildLists[q]
    BY <1>1, <1>2, Discarded
<1>4. gone = Lists!Family(i) /\ Lists!IsRoot(i)
    BY <1>1, FamilyIsTree, RootIsRoot
<1> HIDE DEF gone
<1>5. ChildLists' = Lists!Without(ChildLists, gone)
    BY <1>3, ListsWithout
<1>6. Lists!Discard(i)
    BY <1>2, <1>4, <1>5 DEF Lists!Discard
<1> QED BY <1>1, <1>6 DEF Lists!ListsNext

\* Calls that only write labels.
LEMMA ListsUnchanged ==
    ASSUME IInv, IInv', items' = items, next' = next, child' = child,
           \A j \in Item : label'[j].ref = label[j].ref
    PROVE  ChildLists' = ChildLists
<1>1. ASSUME NEW p \in Item PROVE ChildLists'[p] = ChildLists[p]
    <2>1. CASE Holds(p)
        <3>1. p \in items' /\ ~label'[p].ref
            BY <2>1 DEF Holds
        <3> QED BY <2>1, <3>1, ListStays
    <2>2. CASE ~Holds(p)
        <3>1. p \notin items' \/ label'[p].ref
            BY <2>2 DEF Holds
        <3>2. ChildLists'[p] = <<>>
            BY <3>1, NoListNext
        <3>3. ChildLists[p] = <<>>
            BY <2>2 DEF ChildLists, Holds
        <3> QED BY <3>2, <3>3
    <2> QED BY <2>1, <2>2
<1>2. ChildLists' = [q \in Item |-> ChildLists'[q]]
    BY DEF ChildLists
<1>3. ChildLists = [q \in Item |-> ChildLists[q]]
    BY DEF ChildLists
<1> QED BY <1>1, <1>2, <1>3

\* The calls that allocate roots.
LEMMA CreateNextStep ==
    ASSUME IInv, IInv', CreateNext
    PROVE  Lists!ListsNext
<1>1. ASSUME NEW i \in Item \ items, NEW value \in BOOLEAN, Create(i, value)
      PROVE  Lists!Grow
    <2>1. items' = items \cup {i} /\ next' = next /\ child' = child /\ child[i] = NULL
        BY <1>1, LinkFacts DEF Create, linkVars
    <2>2. \A j \in Item \ {i} : child'[j] = child[j] /\ label'[j] = label[j]
        BY <1>1, <2>1 DEF IInv, ItemsTypeOK, Create
    <2> QED BY <2>1, <2>2, GrowRoot
<1>2. ASSUME NEW i \in Item \ items, NEW first \in items, CreateReference(i, first)
      PROVE  Lists!Grow
    <2>1. items' = items \cup {i} /\ next' = next
        BY <1>2 DEF CreateReference
    <2>2. \A j \in Item \ {i} : child'[j] = child[j] /\ label'[j] = label[j]
        BY <1>2 DEF IInv, ItemsTypeOK, CreateReference
    <2>3. label'[i].ref
        <3>1. label[i] \in Label /\ label \in [Item -> Label]
            BY LabelFacts
        <3>2. [label[i] EXCEPT !.ref = TRUE].ref
            BY <3>1 DEF Label
        <3>3. label' = [label EXCEPT ![i] = [label[i] EXCEPT !.ref = TRUE]]
            BY <1>2 DEF CreateReference
        <3> QED BY <3>1, <3>2, <3>3
    <2> QED BY <2>1, <2>2, <2>3, GrowRoot
<1>3. ASSUME NEW i \in Item \ items, NEW from \in items, CreateStringReference(i, from)
      PROVE  Lists!Grow
    <2>1. items' = items \cup {i} /\ next' = next /\ child' = child /\ child[i] = NULL
        BY <1>3, LinkFacts DEF CreateStringReference, linkVars
    <2>2. label' = [label EXCEPT ![i] = [label[i] EXCEPT !.ref = TRUE, !.value = label[from].value]]
        BY <1>3, LabelFacts DEF CreateStringReference
    <2>3. \A j \in Item \ {i} : child'[j] = child[j] /\ label'[j] = label[j]
        BY <2>1, <2>2, LabelFacts
    <2> QED BY <2>1, <2>3, GrowRoot
<1>4. ASSUME NEW count \in 1 .. Cardinality(Item) - 1, NEW strings \in BOOLEAN,
             NEW at \in [0 .. count -> Item \ items], CreateArray(count, at, strings)
      PROVE  Lists!Grow
    <2>1. Cardinality(Item) \in Nat
        BY FS_CardinalityType, ItemAssumption
    <2>2. count \in Nat \ {0}
        BY <2>1
    <2> QED BY <1>4, <2>2, CreateArrayGrows
<1>5. ASSUME NEW i \in items, NEW recurse \in BOOLEAN,
             NEW copy \in [IF recurse THEN Below(i) ELSE {i} -> Item \ items], Duplicate(i, recurse, copy)
      PROVE  Lists!Grow
    BY <1>5, DuplicateGrows
<1>6. Lists!Grow
    BY <1>1, <1>2, <1>3, <1>4, <1>5, Zenon DEF CreateNext
<1> QED BY <1>6 DEF Lists!ListsNext

\* The calls that allocate an item and add it: where the name of a reference
\* could not be copied it is a root that nobody holds.
LEMMA AddNewNextStep ==
    ASSUME IInv, IInv', AddNewNext
    PROVE  Lists!ListsNext
<1> PICK r \in Item \ items : \E p \in Places(r) :
        \/ \E name \in Key, value \in BOOLEAN : AddNewToObject(p, name, r, value)
        \/ \E i \in items : AddItemReferenceToArray(p, i, r)
        \/ \E i \in items, name \in Key : AddItemReferenceToObject(p, name, i, r)
    BY Zenon DEF AddNewNext
<1> PICK p \in Places(r) :
        \/ \E name \in Key, value \in BOOLEAN : AddNewToObject(p, name, r, value)
        \/ \E i \in items : AddItemReferenceToArray(p, i, r)
        \/ \E i \in items, name \in Key : AddItemReferenceToObject(p, name, i, r)
    BY Zenon
<1>1. r \in Item /\ label[r] \in Label /\ label \in [Item -> Label]
    BY LabelFacts DEF IInv, ItemsTypeOK
<1>2. ASSUME NEW name \in Key, NEW value \in BOOLEAN, AddNewToObject(p, name, r, value)
      PROVE  Lists!ListsNext
    <2>1. label' = [label EXCEPT ![r] = [label[r] EXCEPT !.string = name, !.value = IF value THEN r ELSE NULL]]
        BY <1>1, <1>2 DEF AddNewToObject
    <2>2. \A j \in Item \ {r} : label'[j] = label[j]
        BY <1>1, <2>1, LabelFacts
    <2>3. add_item_to_array(p, r, NULL) /\ items' = items \cup {r}
        BY <1>2 DEF AddNewToObject
    <2> QED BY <2>2, <2>3, AddNewStep
<1>3. ASSUME NEW i \in items
      PROVE  create_reference(i) \in Label /\ create_reference(i).ref
    <2>1. label[i] \in Label
        BY <1>1, LinkFacts
    <2> QED BY <2>1, LabelFacts DEF create_reference
<1>4. ASSUME NEW i \in items, AddItemReferenceToArray(p, i, r)
      PROVE  Lists!ListsNext
    <2>1. label' = [label EXCEPT ![r] = create_reference(i)] /\ items' = items \cup {r}
        BY <1>4 DEF AddItemReferenceToArray
    <2>2. label'[r].ref /\ \A j \in Item \ {r} : label'[j] = label[j]
        BY <1>1, <1>3, <2>1
    <2>3. add_item_to_array(p, r, child[i])
        BY <1>4 DEF AddItemReferenceToArray
    <2> QED BY <2>1, <2>2, <2>3, AddNewStep
<1>5. ASSUME NEW i \in items, NEW name \in Key, AddItemReferenceToObject(p, name, i, r)
      PROVE  Lists!ListsNext
    <2> DEFINE l == [create_reference(i) EXCEPT !.string = name, !.const = FALSE]
    <2>1. l.ref
        <3>1. create_reference(i) \in Label /\ create_reference(i).ref
            BY <1>3
        <3> QED BY <3>1 DEF Label
    <2>2. items' = items \cup {r}
        BY <1>5 DEF AddItemReferenceToObject
    <2>3. CASE label' = [label EXCEPT ![r] = l] /\ add_item_to_array(p, r, child[i])
        <3> HIDE DEF l
        <3>1. label'[r].ref /\ \A j \in Item \ {r} : label'[j] = label[j]
            BY <1>1, <2>1, <2>3
        <3> QED BY <2>2, <2>3, <3>1, AddNewStep
    <2>4. CASE label' = [label EXCEPT ![r] = create_reference(i)] /\ child' = [child EXCEPT ![r] = child[i]]
               /\ next' = next
        <3>1. label'[r].ref /\ \A j \in Item \ {r} : label'[j] = label[j]
            BY <1>1, <1>3, <2>4
        <3>2. \A j \in Item \ {r} : child'[j] = child[j]
            BY <2>4 DEF IInv, ItemsTypeOK
        <3>3. Lists!Grow
            BY <2>2, <2>4, <3>1, <3>2, GrowRoot
        <3> QED BY <3>3 DEF Lists!ListsNext
    <2> QED BY <1>5, <2>3, <2>4 DEF AddItemReferenceToObject
<1> QED BY <1>2, <1>4, <1>5

\* The calls that the caller hands an item over to.  One that renames the
\* replacement and finds nothing to replace is no step of the lists.
LEMMA AddHeldNextStep ==
    ASSUME IInv, IInv', AddHeldNext
    PROVE  Lists!ListsNext \/ (items' = items /\ ChildLists' = ChildLists)
<1> PICK i \in held :
        \/ \E p \in Places(i) :
              \/ AddItemToArray(p, i)
              \/ \E name \in Key, constant \in BOOLEAN : AddItemToObject(p, name, constant, i)
              \/ InsertItemInArray(p, i)
              \/ ReplaceItemInArray(p, i)
        \/ \E name \in Key : ReplaceItemInObject(name, i)
    BY Zenon DEF AddHeldNext
<1>1. i \in items /\ Root(i)
    BY DEF IInv, ItemsTypeOK, HeldAreRoots
<1>2. i \in Item /\ label \in [Item -> Label] /\ label[i] \in Label
    BY LinkFacts DEF IInv, ItemsTypeOK
<1>3. ASSUME NEW p \in Places(i)
      PROVE  p \in Item /\ Holds(p) /\ p \notin Tree(i)
    BY LinkFacts DEF Places, Holds
<1>4. ASSUME NEW p \in Places(i), add_item_to_array(p, i, child[i]), items' = items, label' = label
      PROVE  Lists!ListsNext
    BY <1>1, <1>3, <1>4, AddHeldStep
<1>5. ASSUME NEW p \in Places(i), AddItemToArray(p, i)
      PROVE  Lists!ListsNext
    BY <1>4, <1>5, Zenon DEF AddItemToArray
<1>6. ASSUME NEW p \in Places(i), NEW name \in Key, NEW constant \in BOOLEAN,
             AddItemToObject(p, name, constant, i)
      PROVE  Lists!ListsNext
    <2> DEFINE l == [label[i] EXCEPT !.string = name, !.const = constant]
    <2>1. l.ref = label[i].ref
        BY <1>2 DEF Label
    <2>2. label' = [label EXCEPT ![i] = l]
        BY <1>2, <1>6 DEF AddItemToObject
    <2> HIDE DEF l
    <2>3. label'[i].ref = label[i].ref /\ \A j \in Item \ {i} : label'[j] = label[j]
        BY <1>2, <2>1, <2>2
    <2>4. add_item_to_array(p, i, child[i]) /\ items' = items
        BY <1>6 DEF AddItemToObject
    <2> QED BY <1>1, <1>3, <2>3, <2>4, AddHeldStep
<1>7. ASSUME NEW p \in Places(i), InsertItemInArray(p, i)
      PROVE  Lists!ListsNext
    <2>1. items' = items /\ label' = label
        BY <1>7 DEF InsertItemInArray
    <2>2. CASE add_item_to_array(p, i, child[i])
        BY <1>4, <2>1, <2>2
    <2>3. ASSUME NEW after \in Children(p), InsertBefore(p, after, i)
          PROVE  Lists!ListsNext
        BY <1>1, <1>3, <2>1, <2>3, InsertItemStep
    <2> QED BY <1>7, <2>2, <2>3, Zenon DEF InsertItemInArray
<1>8. ASSUME NEW p \in Places(i), ReplaceItemInArray(p, i)
      PROVE  Lists!ListsNext
    <2>1. PICK old \in Children(p) : ReplaceItemViaPointer(p, old, i, label, buffers)
        BY <1>8, Zenon DEF ReplaceItemInArray
    <2> QED BY <1>1, <1>3, <2>1, ReplaceStep
<1>9. ASSUME NEW name \in Key, ReplaceItemInObject(name, i)
      PROVE  Lists!ListsNext \/ (items' = items /\ ChildLists' = ChildLists)
    <2> DEFINE bufs(copy) == buffers + One(copy # NULL) - NameFreed(i)
    <2>1. \A copy \in {name, NULL} : \A j \in Item : NewName(i, copy)[j].ref = label[j].ref
        <3> SUFFICES ASSUME NEW copy \in {name, NULL}, NEW j \in Item
                     PROVE  NewName(i, copy)[j].ref = label[j].ref
            OBVIOUS
        <3>1. copy \in Key \cup {NULL}
            OBVIOUS
        <3> QED BY <1>2, <3>1, RenamedTypes
    <2>2. ASSUME NEW p \in Places(i), NEW old \in Children(p), NEW copy \in {name, NULL},
                 ReplaceItemViaPointer(p, old, i, NewName(i, copy), bufs(copy))
          PROVE  Lists!ListsNext
        <3> HIDE DEF bufs
        <3> QED BY <1>1, <1>3, <2>1, <2>2, ReplaceStep
    <2>3. ASSUME NEW copy \in {name, NULL}, label' = NewName(i, copy), UNCHANGED <<items, linkVars, held>>
          PROVE  items' = items /\ ChildLists' = ChildLists
        <3>1. \A j \in Item : label'[j].ref = label[j].ref
            BY <2>1, <2>3
        <3>2. items' = items /\ next' = next /\ child' = child
            BY <2>3 DEF linkVars
        <3> QED BY <3>1, <3>2, ListsUnchanged
    <2> QED BY <1>9, <2>2, <2>3, Zenon DEF ReplaceItemInObject
<1> QED BY <1>5, <1>6, <1>7, <1>8, <1>9

\* The calls that detach and delete.
LEMMA RemoveNextStep ==
    ASSUME IInv, IInv', RemoveNext
    PROVE  Lists!ListsNext
<1>1. ASSUME NEW i \in held, Delete(i)
      PROVE  Lists!ListsNext
    BY <1>1, DiscardStep
<1>2. ASSUME NEW p \in items, ~label[p].ref, NEW i \in Children(p) \cap Found(p), Detach(p, i)
      PROVE  Lists!ListsNext
    <2>1. DetachItemViaPointer(p, i, {}) /\ items' = items \ {} /\ label' = label
        BY <1>2 DEF Detach
    <2>2. i \in Children(p) /\ {} \in {{}, Tree(i)} /\ \A j \in Item \ {} : label'[j] = label[j]
        BY <2>1
    <2> QED BY <1>2, <2>1, <2>2, TakeOutStep
<1>3. ASSUME NEW p \in items, ~label[p].ref, NEW i \in Children(p) \cap Found(p), DetachAndDelete(p, i)
      PROVE  Lists!ListsNext
    <2> DEFINE gone == Tree(i)
    <2>1. DetachItemViaPointer(p, i, gone) /\ items' = items \ gone
          /\ \A j \in Item \ gone : label'[j] = label[j]
        BY <1>3 DEF DetachAndDelete, FreeItems
    <2>2. i \in Children(p) /\ gone \in {{}, Tree(i)}
        OBVIOUS
    <2> HIDE DEF gone
    <2> QED BY <1>3, <2>1, <2>2, TakeOutStep
<1> QED BY <1>1, <1>2, <1>3, Zenon DEF RemoveNext

\* Every call.
LEMMA ListsStep == IInv /\ IInv' /\ [ItemsNext]_itemVars => [Lists!ListsNext]_(Lists!listVars)
<1> SUFFICES ASSUME IInv, IInv', [ItemsNext]_itemVars
             PROVE  Lists!ListsNext \/ (items' = items /\ ChildLists' = ChildLists)
    BY DEF Lists!listVars
<1>1. CASE CreateNext
    BY <1>1, CreateNextStep
<1>2. CASE AddNewNext
    BY <1>2, AddNewNextStep
<1>3. CASE AddHeldNext
    BY <1>3, AddHeldNextStep
<1>4. CASE RemoveNext
    BY <1>4, RemoveNextStep
<1>5. CASE UNCHANGED itemVars
    BY <1>5, ListsUnchanged DEF itemVars
<1> QED BY <1>1, <1>2, <1>3, <1>4, <1>5 DEF ItemsNext

\* No item has a list before the first call.
LEMMA ListsInitially == ItemsInit => Lists!ListsInit
<1> SUFFICES ASSUME ItemsInit PROVE Lists!ListsInit
    OBVIOUS
<1>1. items = {}
    BY DEF ItemsInit
<1> QED BY <1>1 DEF Lists!ListsInit, ChildLists

\* cJSON_ArrayForEach, get_array_item and the printers follow next from child
\* to NULL: that walk ends, it meets every child once, and no item is met on
\* the walks of two parents, for every number of items.
THEOREM WalksMeetEveryChildOnce == ItemsSpec => [](AllLinked /\ PlacedOnce)
<1>1. IInv => AllLinked /\ PlacedOnce
    BY ListLinked, ListsPlace DEF AllLinked
<1> QED BY <1>1, Invariant, PTL

\* Every cJSON_Create..., cJSON_Add..., cJSON_Insert..., cJSON_Detach...,
\* cJSON_Replace..., cJSON_Delete... and cJSON_Duplicate on the linked items is
\* one operation on sequences of children: one element comes, goes or is
\* replaced at its place, all other lists stay as they are, and what is deleted
\* is the family of an item that is in no list afterwards.
THEOREM RefinesItemListsHolds == ItemsSpec => RefinesItemLists
<1>1. ItemsSpec => []IInv
    BY Invariant
<1> QED BY <1>1, ListsStep, ListsInitially, PTL DEF ItemsSpec, RefinesItemLists, Lists!ListsSpec
=============================================================================
