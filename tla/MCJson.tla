------------------------------- MODULE MCJson -------------------------------
(***************************************************************************)
(* Instances of the modules of jsonRead/cJSON.c.  The two share no state:   *)
(* while no text is handled the caller edits items, and texts are handled   *)
(* while there are none.                                                   *)
(***************************************************************************)
EXTENDS JsonItems, JsonText

CONSTANTS i1, i2, i3, i4

\* Two names that cJSON_GetObjectItem takes for one.
MCFolded == [k \in Key |-> "a"]
Addresses == Permutations(Item)

-----------------------------------------------------------------------------
(* Trees of two levels with every kind of leaf, some of three; the texts    *)
(* they are printed as, each with any one byte lost or replaced, with a     *)
(* comment in it, or behind a byte order mark; every text of up to three    *)
(* tokens; string literals of up to two units.                              *)

Null    == Node("null", <<>>, <<>>)
True    == Node("true", <<>>, <<>>)
False   == Node("false", <<>>, <<>>)
One1    == Node("number", <<Minus, 49>>, <<>>)
Str(s)  == Node("string", s, <<>>)
Raw     == Node("raw", <<OpenA, Space, 49, CloseA>>, <<>>)
Leaf    == {Null, True, False, One1, Raw,
            Str(<<>>), Str(<<97, Quote, LineEnd>>), Str(<<1, 31>>), Str(<<Slash, Backslash>>)}
Named(name, node) == [node EXCEPT !.name = name]
Members == {Named(<<97>>, l) : l \in Leaf} \cup {Named(<<>>, Null), Named(<<65>>, One1)}
Upto2(S) == {<<>>} \cup {<<a>> : a \in S} \cup {<<a, b>> : a \in S, b \in S}
Flat    == {Node("array", <<>>, k) : k \in Upto2(Leaf)} \cup {Node("object", <<>>, k) : k \in Upto2(Members)}
Small   == {Null, Node("array", <<>>, <<>>), Node("array", <<>>, <<One1, True>>),
            Node("object", <<>>, <<>>), Node("object", <<>>, <<Named(<<97>>, Null)>>)}
Deep    == {Node("array", <<>>, k) : k \in Upto2(Small)}
             \cup {Node("object", <<>>, <<Named(<<97>>, a), Named(<<98>>, b)>>) : a \in Small, b \in Small}
MCTrees == Leaf \cup Flat \cup Deep

Text(tree, format) == print_value(tree, PrintBuffer(16 * IntMax, TRUE, format, "realloc")).out
Bytes  == {OpenA, CloseA, OpenO, CloseO, Comma, Colon, Quote, Backslash, 49, Minus, Space}
Tokens == {<<byte>> : byte \in Bytes} \cup {Words.null, SubSeq(Words.true, 1, 3)}
Docs   == {Text(t, f) : t \in Deep, f \in BOOLEAN}
Edited == {Text(t, FALSE) : t \in Deep} \cup {Text(t, TRUE) : t \in Small \cup {True, False}}
Edits(s) == {RemoveAt(s, n) : n \in DOMAIN s} \cup {[s EXCEPT ![n] = c] : n \in DOMAIN s, c \in Bytes}
Wrap(t, o) == IF o THEN Node("object", <<>>, <<Named(<<97>>, t)>>) ELSE Node("array", <<>>, <<t>>)
Nested == {<<OpenA, OpenA, OpenA, CloseA, CloseA, CloseA>>,
           <<OpenA, OpenA, OpenA, OpenA, CloseA, CloseA, CloseA, CloseA>>}
          \cup {Text(Wrap(Wrap(Wrap(t, o3), o2), o1), FALSE) :
                   t \in {Null, Node("object", <<>>, <<>>)}, o1 \in BOOLEAN, o2 \in BOOLEAN, o3 \in BOOLEAN}

\* In strings: units with the bounds of UTF-8's lengths and of the surrogates,
\* \u with less than four digits, and what looks like a comment.
Escape(a, b, c, d) == <<Backslash, 117, a, b, c, d>>
Units  == {<<97>>, <<Space>>, <<Slash, Star>>, <<Backslash, Quote>>, <<Backslash, Backslash>>,
           <<Backslash>>, <<Backslash, 97>>, <<Backslash, 117, 48>>, <<Backslash, 117, 48, 48, 48>>,
           Escape(103, 48, 48, 48), Escape(48, 48, 55, 102), Escape(48, 48, 56, 48),
           Escape(48, 55, 70, 70), Escape(48, 56, 48, 48), Escape(50, 48, 65, 67),
           Escape(100, 55, 102, 102), Escape(100, 56, 48, 48), Escape(100, 56, 51, 100),
           Escape(100, 66, 102, 102), Escape(68, 67, 48, 48), Escape(100, 102, 102, 102),
           Escape(101, 48, 48, 48), Escape(102, 102, 102, 102), Escape(48, 48, 48, 48)}
Literals == {<<Quote>> \o a \o b \o <<Quote>> : a \in Units \cup {<<>>}, b \in Units}

Comments == {<<Slash, Slash, Quote, Slash, Star, LineEnd>>, <<Slash, Star, Star, Slash>>,
             <<Slash, Star, Quote, LineEnd, Slash, Slash, Star, Slash>>, <<Slash, Star, Slash, Star, Slash>>,
             <<Slash, Star>>, <<Slash>>}
WithComments(s) == {SubSeq(s, 1, n) \o c \o SubSeq(s, n + 1, Len(s)) : n \in 0 .. Len(s), c \in Comments}
Commented == UNION {WithComments(Text(t, f)) :
                       t \in Small \cup {Str(<<Slash, Slash, Star, Quote>>)}, f \in BOOLEAN}
Marked == {SubSeq(BOM, 1, n) \o s : n \in 1 .. 3, s \in {<<>>, <<49>>, <<Space, 49, 49>>} \cup {BOM \o <<49>>}}
             \cup {BOM \o Text(t, FALSE) : t \in Small \cup {Str(<<97>>)}}
MCTexts == {FlattenSeq(t) : t \in UNION {[1 .. n -> Tokens] : n \in 0 .. 3}} \cup Docs
             \cup UNION {Edits(s) : s \in Edited} \cup Nested \cup Literals \cup Commented \cup Marked

Init == ItemsInit /\ TextInit
Next == \/ call = NoCall /\ ItemsNext /\ UNCHANGED call
        \/ items = {} /\ TextNext /\ UNCHANGED itemVars
Spec == Init /\ [][Next]_<<itemVars, call>>
=============================================================================
