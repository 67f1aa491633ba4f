------------------------------ MODULE JsonItems ------------------------------
(***************************************************************************)
(* jsonRead/cJSON.c, the items: each is a node of a doubly linked list of   *)
(* siblings and the head of the list of its children.  One action per      *)
(* function that creates, adds, detaches, replaces, copies or deletes.     *)
(*                                                                         *)
(* Of an item's data the model keeps what memory management looks at: the  *)
(* name, whether it is constant, whether the item is a reference, and      *)
(* whose valuestring it holds.  Types without a valuestring (null, true,   *)
(* false, number, array, object) are one: the code adds children to any.   *)
(* A call that fails because malloc does changes nothing, unless an action *)
(* says otherwise.                                                         *)
(*                                                                         *)
(* The caller is the one the API asks for: it hands over only items it     *)
(* holds, puts no item below itself, edits no list through a reference,    *)
(* and deletes nothing a reference still borrows.                          *)
(***************************************************************************)
EXTENDS Integers, FiniteSets, SequencesExt

CONSTANTS
    Item,   \* addresses malloc may return
    NULL,
    Key,    \* names of members
    Folded, \* Folded[k]: k as case_insensitive_strcmp sees it
    MaxLabelled \* bound: items that have a name or a value or are references

ASSUME ItemAssumption ==
    /\ IsFiniteSet(Item)
    /\ NULL \notin Item
    /\ NULL \notin Key
    /\ DOMAIN Folded = Key
    /\ MaxLabelled \in Nat

VARIABLES
    items,    \* the allocated items
    next, prev, child,
    label,    \* the rest of an item
    held,     \* the items whose pointer only the caller has
    buffers   \* number of character buffers allocated for names and values
linkVars == <<next, prev, child>>
itemVars == <<items, next, prev, child, label, held, buffers>>

Pointer == Item \cup {NULL}
Label   == [ref: BOOLEAN, string: Key \cup {NULL}, const: BOOLEAN, value: Pointer]
\* What memset leaves; also what stands for a freed item.
Blank   == [ref |-> FALSE, string |-> NULL, const |-> FALSE, value |-> NULL]

ItemsTypeOK ==
    /\ items \subseteq Item
    /\ next \in [Item -> Pointer] /\ prev \in [Item -> Pointer] /\ child \in [Item -> Pointer]
    /\ label \in [Item -> Label]
    /\ held \subseteq items
    /\ buffers \in Int

ItemsInit ==
    /\ items = {}
    /\ next = [i \in Item |-> NULL]
    /\ prev = [i \in Item |-> NULL]
    /\ child = [i \in Item |-> NULL]
    /\ label = [i \in Item |-> Blank]
    /\ held = {}
    /\ buffers = 0

-----------------------------------------------------------------------------
(* Walking the lists.                                                      *)

\* The smallest set that holds the items of start and, with an item, those of
\* Succ(item).
Closure(start, Succ(_)) ==
    LET closed == {S \in SUBSET Item : start \subseteq S /\ \A y \in S : Succ(y) \ {NULL} \subseteq S}
    IN  {x \in Item : \A S \in closed : x \in S}

\* The list of children of p.
Children(p) == Closure({child[p]} \ {NULL}, LAMBDA y : {next[y]})

\* Mutant: cJSON_Delete goes into what a reference borrows.
OwnedAndBorrowed(y) == {child[y]}

\* What cJSON_Delete(i) frees when i has no siblings: it follows next, and
\* child unless the item is a reference.
Owned(y) == IF label[y].ref THEN {} ELSE {child[y]}
Tree(i)  == Closure({i}, LAMBDA y : Owned(y) \cup (IF y = i THEN {} ELSE {next[y]}))

get_array_item(p, index) ==
    LET at[n \in 0 .. index] ==
            IF n = 0 THEN child[p]
            ELSE IF at[n - 1] = NULL THEN NULL ELSE next[at[n - 1]]
    IN  at[index]

\* A list never has all the memory.
Index == 0 .. Cardinality(Item) - 1

\* The search stops at the first match.  The case-sensitive one also stops,
\* with no result, at an item without a name; the other one passes it.
get_object_item(p, name, caseSensitive) ==
    LET at(n)    == get_array_item(p, n)
        Stops(i) == IF label[i].string = NULL THEN caseSensitive
                    ELSE IF caseSensitive THEN label[i].string = name
                    ELSE Folded[label[i].string] = Folded[name]
        stops    == {n \in Index : at(n) # NULL /\ Stops(at(n))}
    IN  IF stops = {} THEN NULL
        ELSE LET first == at(CHOOSE n \in stops : \A m \in stops : n <= m)
             IN  IF label[first].string = NULL THEN NULL ELSE first

\* What a caller gets for one position or another, for a name with one search
\* or the other, and what cJSON_Detach... and cJSON_Delete... may find.
ItemsAt(p)          == {get_array_item(p, which) : which \in Index}
ItemsNamed(p, name) == {get_object_item(p, name, cs) : cs \in BOOLEAN}
Found(p)            == ItemsAt(p) \cup UNION {ItemsNamed(p, name) : name \in Key}

-----------------------------------------------------------------------------
(* Memory.                                                                 *)

OwnsName(l)  == l.string # NULL /\ ~l.const
OwnsValue(l) == l.value # NULL /\ ~l.ref
BuffersOf(S) == Cardinality({i \in S : OwnsName(label[i])})
                  + Cardinality({i \in S : OwnsValue(label[i])})

Freed(f, gone) == [i \in Item |-> IF i \in gone THEN NULL ELSE f[i]]
\* x->field = y, where x may be NULL and then nothing is stored.
Store(f, x, y) == IF x = NULL THEN f ELSE [f EXCEPT ![x] = y]

\* The caller's duty: no reference that stays borrows from what goes.
NotBorrowed(gone) ==
    \A r \in items \ gone : label[r].ref => {child[r], label[r].value} \cap gone = {}

\* cJSON_Delete of the items gone, while the labels become labels.
FreeItems(gone, labels) ==
    /\ items' = items \ gone
    /\ label' = [i \in Item |-> IF i \in gone THEN Blank ELSE labels[i]]

\* Where the caller may put i: an item that may have children, not below i.
Places(i) == {p \in items : ~label[p].ref /\ label[p].value = NULL} \ Tree(i)

NewName(i, name) == [label EXCEPT ![i].string = name, ![i].const = FALSE]
NameFreed(i)     == IF OwnsName(label[i]) THEN 1 ELSE 0
One(b)           == IF b THEN 1 ELSE 0

-----------------------------------------------------------------------------
(* Creating.                                                               *)

\* cJSON_CreateNull ... cJSON_CreateObject; with a value: String, Raw.
Create(i, value) ==
    /\ i \notin items
    /\ items' = items \cup {i}
    /\ label' = [label EXCEPT ![i].value = IF value THEN i ELSE NULL]
    /\ held' = held \cup {i}
    /\ buffers' = buffers + One(value)
    /\ UNCHANGED linkVars

\* cJSON_CreateArrayReference, cJSON_CreateObjectReference of a list.
CreateReference(i, first) ==
    /\ i \notin items
    /\ first \in items
    /\ items' = items \cup {i}
    /\ label' = [label EXCEPT ![i].ref = TRUE]
    /\ child' = [child EXCEPT ![i] = first]
    /\ held' = held \cup {i}
    /\ UNCHANGED <<next, prev, buffers>>

\* cJSON_CreateStringReference of the string of an item.
CreateStringReference(i, from) ==
    /\ i \notin items
    /\ label[from].value # NULL
    /\ items' = items \cup {i}
    /\ label' = [label EXCEPT ![i].ref = TRUE, ![i].value = label[from].value]
    /\ held' = held \cup {i}
    /\ UNCHANGED <<linkVars, buffers>>

\* cJSON_CreateIntArray ... StringArray: at[0] is the array, the others its
\* elements, chained with suffix_object.
CreateArray(count, at, strings) ==
    LET new == {at[n] : n \in 0 .. count}
        Pos(i) == CHOOSE n \in 0 .. count : at[n] = i
    IN
    /\ new \cap items = {}
    /\ \A m, n \in 0 .. count : at[m] = at[n] => m = n
    /\ items' = items \cup new
    /\ next' = [i \in Item |-> IF i \in new /\ Pos(i) \in 1 .. count - 1
                               THEN at[Pos(i) + 1] ELSE next[i]]
    /\ prev' = [i \in Item |-> IF i \in new /\ Pos(i) \in 2 .. count
                               THEN at[Pos(i) - 1] ELSE prev[i]]
    /\ child' = [child EXCEPT ![at[0]] = at[1]]
    /\ label' = [i \in Item |-> IF i \in new \ {at[0]} /\ strings
                                THEN [Blank EXCEPT !.value = i] ELSE label[i]]
    /\ held' = held \cup {at[0]}
    /\ buffers' = buffers + (IF strings THEN count ELSE 0)

\* cJSON_Duplicate with recurse: a copy of i and of everything below it, the
\* lists that references borrow included; copies are no references.
Below(i) == Closure({i}, LAMBDA y : {child[y]} \cup (IF y = i THEN {} ELSE {next[y]}))
\* Nothing is reached twice, and i not from below: otherwise the copy repeats
\* items or the recursion has no end.
IsTree(i) ==
    LET T == Below(i) IN
    /\ \A y \in T : child[y] # i
    /\ \A y \in T \ {i} : next[y] # i
    /\ \A x, y \in T : child[x] = child[y] /\ child[x] # NULL => x = y
    /\ \A x, y \in T : x # i /\ next[x] # NULL => next[x] # child[y]

Duplicate(i, recurse, copy) ==
    LET T        == IF recurse THEN Below(i) ELSE {i}
        Orig(j)  == CHOOSE y \in T : copy[y] = j
        Image(x) == IF x \in T \ {i} THEN copy[x] ELSE NULL
        new      == {copy[y] : y \in T}
    IN
    /\ i \in items
    /\ recurse => IsTree(i)
    /\ new \cap items = {}
    /\ \A x, y \in T : copy[x] = copy[y] => x = y
    /\ items' = items \cup new
    /\ next' = [j \in Item |-> IF j \in new /\ Orig(j) # i THEN Image(next[Orig(j)]) ELSE next[j]]
    /\ prev' = [j \in Item |-> IF j \in new /\ Orig(j) # i THEN Image(prev[Orig(j)]) ELSE prev[j]]
    /\ child' = [j \in Item |-> IF j \in new THEN Image(child[Orig(j)]) ELSE child[j]]
    /\ label' = [j \in Item |->
                   IF j \notin new THEN label[j]
                   ELSE [label[Orig(j)] EXCEPT !.ref = FALSE,
                                               !.value = IF @ = NULL THEN NULL ELSE j]]
    /\ held' = held \cup {copy[i]}
    /\ buffers' = buffers + Cardinality({y \in T : OwnsName(label[y])})
                          + Cardinality({y \in T : label[y].value # NULL})

-----------------------------------------------------------------------------
(* Adding.  first is what the new element's child pointer holds.           *)

add_item_to_array(p, i, first) ==
    \/ /\ child[p] = NULL
       /\ child' = [child EXCEPT ![p] = i, ![i] = first]
       /\ UNCHANGED <<next, prev>>
    \/ /\ child[p] # NULL
       /\ \E last \in Children(p) :
              /\ next[last] = NULL
              /\ next' = [next EXCEPT ![last] = i]
              /\ prev' = [prev EXCEPT ![i] = last]
       /\ child' = [child EXCEPT ![i] = first]

AddItemToArray(p, i) ==
    /\ add_item_to_array(p, i, child[i])
    /\ held' = held \ {i}
    /\ UNCHANGED <<items, label, buffers>>

\* cJSON_AddItemToObject, and with a constant name cJSON_AddItemToObjectCS.
AddItemToObject(p, name, constant, i) ==
    /\ label' = [label EXCEPT ![i].string = name, ![i].const = constant]
    /\ buffers' = buffers + One(~constant) - NameFreed(i)
    /\ add_item_to_array(p, i, child[i])
    /\ held' = held \ {i}
    /\ UNCHANGED items

\* cJSON_AddNullToObject ... cJSON_AddArrayToObject.
AddNewToObject(p, name, i, value) ==
    /\ items' = items \cup {i}
    /\ label' = [label EXCEPT ![i].string = name, ![i].value = IF value THEN i ELSE NULL]
    /\ buffers' = buffers + 1 + One(value)
    /\ add_item_to_array(p, i, NULL)
    /\ UNCHANGED held

\* Mutant: the copy is not marked as a reference.
create_copy(i) == [label[i] EXCEPT !.string = NULL]

create_reference(i) == [label[i] EXCEPT !.ref = TRUE, !.string = NULL]

AddItemReferenceToArray(p, i, r) ==
    /\ items' = items \cup {r}
    /\ label' = [label EXCEPT ![r] = create_reference(i)]
    /\ add_item_to_array(p, r, child[i])
    /\ UNCHANGED <<held, buffers>>

\* The copy of the name may fail: add_item_to_object returns false and nobody
\* has the reference any more.
AddItemReferenceToObject(p, name, i, r) ==
    /\ items' = items \cup {r}
    /\ \/ /\ label' = [label EXCEPT ![r] = [create_reference(i) EXCEPT !.string = name,
                                                                    !.const = FALSE]]
          /\ buffers' = buffers + 1
          /\ add_item_to_array(p, r, child[i])
       \/ /\ label' = [label EXCEPT ![r] = create_reference(i)]
          /\ child' = [child EXCEPT ![r] = child[i]]
          /\ UNCHANGED <<next, prev, buffers>>
    /\ UNCHANGED held

InsertBefore(p, after, i) ==
    /\ next' = Store([next EXCEPT ![i] = after], IF after = child[p] THEN NULL ELSE prev[after], i)
    /\ prev' = [prev EXCEPT ![i] = prev[after], ![after] = i]
    /\ child' = IF after = child[p] THEN [child EXCEPT ![p] = i] ELSE child

InsertItemInArray(p, i) ==
    /\ \/ NULL \in ItemsAt(p) /\ add_item_to_array(p, i, child[i])
       \/ \E after \in Children(p) \cap ItemsAt(p) : InsertBefore(p, after, i)
    /\ held' = held \ {i}
    /\ UNCHANGED <<items, label, buffers>>

-----------------------------------------------------------------------------
(* Detaching, deleting, replacing.                                         *)

\* cJSON_Delete of an item the caller holds.
Delete(i) ==
    LET gone == Tree(i) IN
    /\ NotBorrowed(gone)
    /\ FreeItems(gone, label)
    /\ next' = Freed(next, gone)
    /\ prev' = Freed(prev, gone)
    /\ child' = Freed(child, gone)
    /\ held' = held \ {i}
    /\ buffers' = buffers - BuffersOf(gone)

\* Mutant: the item after the detached one keeps its prev.
DetachKeepingPrev(p, i, gone) ==
    /\ next' = Freed([Store(next, prev[i], next[i]) EXCEPT ![i] = NULL], gone)
    /\ prev' = Freed([prev EXCEPT ![i] = NULL], gone)
    /\ child' = Freed(IF i = child[p] THEN [child EXCEPT ![p] = next[i]] ELSE child, gone)

\* Mutant: the parent loses all children with its first.
DetachEmptying(p, i, gone) ==
    /\ next' = Freed([Store(next, prev[i], next[i]) EXCEPT ![i] = NULL], gone)
    /\ prev' = Freed([Store(prev, next[i], prev[i]) EXCEPT ![i] = NULL], gone)
    /\ child' = Freed(IF i = child[p] THEN [child EXCEPT ![p] = NULL] ELSE child, gone)

\* cJSON_DetachItemViaPointer, followed by cJSON_Delete of the items gone.
DetachItemViaPointer(p, i, gone) ==
    /\ next' = Freed([Store(next, prev[i], next[i]) EXCEPT ![i] = NULL], gone)
    /\ prev' = Freed([Store(prev, next[i], prev[i]) EXCEPT ![i] = NULL], gone)
    /\ child' = Freed(IF i = child[p] THEN [child EXCEPT ![p] = next[i]] ELSE child, gone)

Detach(p, i) ==
    /\ DetachItemViaPointer(p, i, {})
    /\ held' = held \cup {i}
    /\ UNCHANGED <<items, label, buffers>>

DetachAndDelete(p, i) ==
    LET gone == Tree(i) IN
    /\ NotBorrowed(gone)
    /\ DetachItemViaPointer(p, i, gone)
    /\ FreeItems(gone, label)
    /\ buffers' = buffers - BuffersOf(gone)
    /\ UNCHANGED held

\* Mutant: the parent's pointer to its first child is not changed.
ReplaceBehindParent(p, old, i, labels, bufs) ==
    LET gone == Tree(old) IN
    /\ NotBorrowed(gone)
    /\ next' = Freed(Store([next EXCEPT ![i] = next[old]], prev[old], i), gone)
    /\ prev' = Freed(Store([prev EXCEPT ![i] = prev[old]], next[old], i), gone)
    /\ child' = Freed(child, gone)
    /\ FreeItems(gone, labels)
    /\ held' = held \ {i}
    /\ buffers' = bufs - BuffersOf(gone)

\* cJSON_ReplaceItemViaPointer: i takes the place of old, which is deleted.
ReplaceItemViaPointer(p, old, i, labels, bufs) ==
    LET gone == Tree(old) IN
    /\ NotBorrowed(gone)
    /\ next' = Freed(Store([next EXCEPT ![i] = next[old]], prev[old], i), gone)
    /\ prev' = Freed(Store([prev EXCEPT ![i] = prev[old]], next[old], i), gone)
    /\ child' = Freed(IF child[p] = old THEN [child EXCEPT ![p] = i] ELSE child, gone)
    /\ FreeItems(gone, labels)
    /\ held' = held \ {i}
    /\ buffers' = bufs - BuffersOf(gone)

ReplaceItemInArray(p, i) ==
    \E old \in Children(p) \cap ItemsAt(p) : ReplaceItemViaPointer(p, old, i, label, buffers)

\* replace_item_in_object renames the replacement first, with a copy of the
\* name that may fail, and whether or not there is a member to replace.
ReplaceItemInObject(name, i) ==
    LET bufs(copy) == buffers + One(copy # NULL) - NameFreed(i) IN
    \/ \E p \in Places(i) :
          \E old \in Children(p) \cap ItemsNamed(p, name), copy \in {name, NULL} :
              ReplaceItemViaPointer(p, old, i, NewName(i, copy), bufs(copy))
    \/ /\ \E p \in Places(i) : NULL \in ItemsNamed(p, name)
       /\ \E copy \in {name, NULL} : label' = NewName(i, copy) /\ buffers' = bufs(copy)
       /\ UNCHANGED <<items, linkVars, held>>

-----------------------------------------------------------------------------

CreateNext ==
    \/ \E i \in Item \ items :
          \/ \E value \in BOOLEAN : Create(i, value)
          \/ \E first \in items : prev[first] = NULL /\ CreateReference(i, first)
          \/ \E from \in items : CreateStringReference(i, from)
    \/ \E count \in 1 .. Cardinality(Item) - 1, strings \in BOOLEAN :
          \E at \in [0 .. count -> Item \ items] : CreateArray(count, at, strings)
    \/ \E i \in items, recurse \in BOOLEAN :
          \E copy \in [IF recurse THEN Below(i) ELSE {i} -> Item \ items] :
              Duplicate(i, recurse, copy)

\* An item that a call allocates and adds.
AddNewNext ==
    \E r \in Item \ items : \E p \in Places(r) :
        \/ \E name \in Key, value \in BOOLEAN : AddNewToObject(p, name, r, value)
        \/ \E i \in items : AddItemReferenceToArray(p, i, r)
        \/ \E i \in items, name \in Key : AddItemReferenceToObject(p, name, i, r)

\* An item that the caller hands over.
AddHeldNext ==
    \E i \in held :
        \/ \E p \in Places(i) :
              \/ AddItemToArray(p, i)
              \/ \E name \in Key, constant \in BOOLEAN : AddItemToObject(p, name, constant, i)
              \/ InsertItemInArray(p, i)
              \/ ReplaceItemInArray(p, i)
        \/ \E name \in Key : ReplaceItemInObject(name, i)

RemoveNext ==
    \/ \E i \in held : Delete(i)
    \/ \E p \in items : /\ ~label[p].ref
                        /\ \E i \in Children(p) \cap Found(p) : Detach(p, i) \/ DetachAndDelete(p, i)

Labelled  == {i \in items : label[i] # Blank}
ItemsNext == /\ CreateNext \/ AddNewNext \/ AddHeldNext \/ RemoveNext
             /\ Cardinality(Labelled') <= MaxLabelled
ItemsSpec == ItemsInit /\ [][ItemsNext]_itemVars

-----------------------------------------------------------------------------
(* What the functions must keep true of every item together.               *)

\* Whatever items are taken, one of them has neither its predecessor nor its
\* parent among them: no list and no chain of parents is a cycle.
Acyclic ==
    \A S \in (SUBSET items) \ {{}} :
        \E y \in S : prev[y] \notin S /\ \A p \in S : label[p].ref \/ child[p] # y

\* Detach, insert, replace and append each store into up to five pointers of
\* three items: afterwards next and prev are inverse, only allocated items are
\* pointed at, what is first in the list of its parent has no prev, and every
\* walk that cJSON_Delete, the printers or a search makes comes to an end.
LinksMatch ==
    /\ \A i \in items : {next[i], prev[i], child[i]} \subseteq items \cup {NULL}
    /\ \A i, j \in items : next[i] = j <=> prev[j] = i
    /\ \A p \in items : ~label[p].ref /\ child[p] # NULL => prev[child[p]] = NULL
    /\ Acyclic

\* cJSON_Delete frees every item once and leaves none behind: an item is the
\* caller's or in exactly one list, except for a reference whose name could
\* not be copied (cJSON_AddItemReferenceToObject loses it).
OwnedOnce ==
    \A i \in items :
        LET parents == {p \in items : ~label[p].ref /\ i \in Children(p)} IN
        \/ i \in held /\ parents = {}
        \/ i \notin held /\ Cardinality(parents) = 1
        \/ i \notin held /\ parents = {} /\ label[i].ref /\ label[i].string = NULL

\* The flags cJSON_IsReference and cJSON_StringIsConst decide what is freed with
\* an item; copies, references and renamed items must carry them so that every
\* buffer allocated for a name or a value belongs to exactly one item.
BuffersOwned == buffers = BuffersOf(items)

\* The children of p in the order cJSON_ArrayForEach meets them.
Kids(p) ==
    LET from[i \in Pointer] == IF i = NULL THEN <<>> ELSE <<i>> \o from[next[i]]
    IN  from[child[p]]

\* What a reference borrows is no list of its own.
ChildLists == [p \in Item |-> IF p \in items /\ ~label[p].ref THEN Kids(p) ELSE <<>>]

Lists == INSTANCE ItemLists WITH kids <- ChildLists

\* Each call on the linked items is one operation on the sequences of
\* children, whatever its place in the list and whatever is freed with it.
RefinesItemLists == Lists!ListsSpec
=============================================================================
