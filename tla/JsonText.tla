------------------------------ MODULE JsonText ------------------------------
(***************************************************************************)
(* jsonRead/cJSON.c, the text: the parser, the printers with their buffer, *)
(* the escapes of strings, cJSON_Minify and cJSON_Compare.                 *)
(*                                                                         *)
(* A text is a sequence of bytes.  An item is what the code reads of it:   *)
(* type, bytes of the value, children and name; a number keeps the bytes   *)
(* it was read from.  Each call runs to its end, so that it is one step.   *)
(***************************************************************************)
EXTENDS Integers, SequencesExt

CONSTANTS
    Texts,          \* what is parsed and minified
    Trees,          \* what is printed
    Buffers,        \* lengths of buffer the printers start with
    NestingLimit,   \* CJSON_NESTING_LIMIT
    IntMax,         \* INT_MAX as the growth of the buffer sees it
    Reallocs        \* how often a printer is given memory before malloc fails

VARIABLE call       \* the last call and what it returned

\* Bytes.
NUL       == 0
Space     == 32
Quote     == 34
Comma     == 44
Minus     == 45
Slash     == 47
Star      == 42
Colon     == 58
OpenA     == 91
CloseA    == 93
OpenO     == 123
CloseO    == 125
Backslash == 92
LineEnd   == 10
Tab       == 9
Digits    == 48 .. 57
Words     == [null  |-> <<110, 117, 108, 108>>,
              true  |-> <<116, 114, 117, 101>>,
              false |-> <<102, 97, 108, 115, 101>>]
BOM       == <<239, 187, 191>>

Node(type, value, kids) == [type |-> type, value |-> value, kids |-> kids, name |-> <<>>]
\* inside: nothing was stored past the memory allocated for it.
Failed(at) == [ok |-> FALSE, at |-> at, node |-> Node("none", <<>>, <<>>), inside |-> TRUE]
Parsed(at, node) == [ok |-> TRUE, at |-> at, node |-> node, inside |-> TRUE]
Within(r, inside) == [r EXCEPT !.inside = @ /\ inside]
\* Every failure goes to the label fail.
Then(r, Continue(_)) == Within(IF r.ok THEN Continue(r) ELSE Failed(r.at), r.inside)

-----------------------------------------------------------------------------
(* Parsing.  b is the text with its NUL; at is the offset, from 0.         *)

CanAccess(b, at) == at < Len(b)
Byte(b, at)      == b[at + 1]
Starts(b, at, c) == CanAccess(b, at) /\ Byte(b, at) = c
Reads(b, at, word) == CanAccess(b, at + Len(word) - 1) /\ SubSeq(b, at + 1, at + Len(word)) = word

\* The first offset from at on that Stops, or the end of the buffer.
FirstAt(b, at, Stops(_)) ==
    LET found == {n \in at .. Len(b) - 1 : Stops(n)}
    IN  IF found = {} THEN Len(b) ELSE CHOOSE n \in found : \A m \in found : n <= m

\* Everything up to 32 is white, the NUL too; the offset stays in the buffer.
buffer_skip_whitespace(b, at) ==
    LET n == FirstAt(b, at, LAMBDA k : Byte(b, k) > Space)
    IN  IF n = Len(b) THEN n - 1 ELSE n

\* Only in front of a text, and only if something follows it.
skip_utf8_bom(b) == IF CanAccess(b, 4) /\ Reads(b, 0, BOM) THEN Len(BOM) ELSE 0

\* strtod takes an optional sign and digits.
parse_number(b, at) ==
    LET first == IF Byte(b, at) = Minus THEN at + 1 ELSE at
        end   == FirstAt(b, first, LAMBDA k : Byte(b, k) \notin Digits)
    IN  IF end = first THEN Failed(at)
        ELSE Parsed(end, Node("number", SubSeq(b, at + 1, end), <<>>))

HexValue(c) == IF c \in Digits THEN c - 48
               ELSE IF c \in 65 .. 70 THEN c - 55
               ELSE IF c \in 97 .. 102 THEN c - 87 ELSE -1

\* A digit that is none makes the whole number 0.
FromDigits(d) == IF \E n \in 0 .. 3 : d[n] < 0 THEN 0
                 ELSE 4096 * d[0] + 256 * d[1] + 16 * d[2] + d[3]
parse_hex4(b, at) == FromDigits([n \in 0 .. 3 |-> HexValue(Byte(b, at + n))])

\* Mutant: the continuation bytes from the first to the last.
Utf8Reversed(code) ==
    LET rest(n) == 128 + ((code \div (64^n)) % 64) IN
    IF code < 128 THEN <<code>>
    ELSE IF code < 2048 THEN <<192 + code \div 64, rest(0)>>
    ELSE IF code < 65536 THEN <<224 + code \div 4096, rest(0), rest(1)>>
    ELSE <<240 + code \div 262144, rest(0), rest(1), rest(2)>>

\* The loop that fills the continuation bytes from the last to the first.
Utf8(code) ==
    LET rest(n) == 128 + ((code \div (64^n)) % 64) IN
    IF code < 128 THEN <<code>>
    ELSE IF code < 2048 THEN <<192 + code \div 64, rest(0)>>
    ELSE IF code < 65536 THEN <<224 + code \div 4096, rest(1), rest(0)>>
    ELSE <<240 + code \div 262144, rest(2), rest(1), rest(0)>>

\* \uXXXX or a pair of surrogates at offset at of the literal that ends at
\* end; length 0 when there is none.
utf16_literal_to_utf8(b, at, end) ==
    LET first  == parse_hex4(b, at + 2)
        second == parse_hex4(b, at + 8)
        none   == [length |-> 0, bytes |-> <<>>]
    IN  IF end - at < 6 THEN none
        ELSE IF first \in 56320 .. 57343 THEN none
        ELSE IF first \notin 55296 .. 56319 THEN [length |-> 6, bytes |-> Utf8(first)]
        ELSE IF end - at < 12 THEN none
        ELSE IF Byte(b, at + 6) # Backslash \/ Byte(b, at + 7) # 117 THEN none
        ELSE IF second \notin 56320 .. 57343 THEN none
        ELSE [length |-> 12,
              bytes |-> Utf8(65536 + (1024 * (first % 1024)) + (second % 1024))]

\* What a backslash and a letter stand for.
Escapes == {<<98, 8>>, <<102, 12>>, <<110, 10>>, <<114, 13>>, <<116, 9>>,
            <<Quote, Quote>>, <<Backslash, Backslash>>, <<Slash, Slash>>}

RECURSIVE EndOfString(_, _, _), Unescape(_, _, _, _, _)
\* The closing quote: a backslash hides, and skips, the byte after it.
EndOfString(b, at, skipped) ==
    IF ~CanAccess(b, at) \/ Byte(b, at) = Quote THEN [at |-> at, skipped |-> skipped]
    ELSE IF Byte(b, at) # Backslash THEN EndOfString(b, at + 1, skipped)
    ELSE IF CanAccess(b, at + 1) THEN EndOfString(b, at + 2, skipped + 1)
    ELSE [at |-> Len(b), skipped |-> skipped]

\* out is what is stored in the room allocated.  After a \u without four
\* digits, at may be inside the next escape, and pass the closing quote.
Unescape(b, at, end, out, room) ==
    LET fail == Within(Failed(at), Len(out) <= room)
    IN  IF at >= end THEN Within(Parsed(at, Node("string", out, <<>>)), Len(out) + 1 <= room)
        ELSE IF Byte(b, at) # Backslash THEN Unescape(b, at + 1, end, Append(out, Byte(b, at)), room)
        ELSE IF Byte(b, at + 1) = 117
             THEN LET u == utf16_literal_to_utf8(b, at, end)
                  IN  IF u.length = 0 THEN fail
                      ELSE Unescape(b, at + u.length, end, out \o u.bytes, room)
        ELSE IF \E e \in Escapes : e[1] = Byte(b, at + 1)
             THEN LET e == CHOOSE e \in Escapes : e[1] = Byte(b, at + 1)
                  IN  Unescape(b, at + 2, end, Append(out, e[2]), room)
        ELSE fail

\* A C string ends at its first NUL.
CString(s) == LET zeros == {n \in DOMAIN s : s[n] = NUL}
              IN  IF zeros = {} THEN s
                  ELSE SubSeq(s, 1, (CHOOSE n \in zeros : \A m \in zeros : n <= m) - 1)

parse_string(b, at) ==
    LET scan == EndOfString(b, at + 1, 0)
        end  == scan.at
        allocation_length == end - at - scan.skipped
    IN  IF ~Starts(b, at, Quote) \/ ~CanAccess(b, end) THEN Failed(at + 1)
        ELSE Then(Unescape(b, at + 1, end, <<>>, allocation_length + 1),
                  LAMBDA u : Parsed(end + 1, Node("string", CString(u.node.value), <<>>)))

RECURSIVE parse_value(_, _, _), ParseElements(_, _, _, _, _)
\* An element of an array, or a member with its name.
Element(b, at, depth, object) ==
    IF ~object THEN parse_value(b, at, depth)
    ELSE Then(parse_string(b, at), LAMBDA key :
             LET colon == buffer_skip_whitespace(b, key.at)
             IN  IF ~Starts(b, colon, Colon) THEN Failed(colon)
                 ELSE Then(parse_value(b, buffer_skip_whitespace(b, colon + 1), depth),
                           LAMBDA v : Parsed(v.at, [v.node EXCEPT !.name = key.node.value])))

\* The loops of parse_array and parse_object: at is in front of an element,
\* kids are those already read.
ParseElements(b, at, depth, object, kids) ==
    Then(Element(b, buffer_skip_whitespace(b, at + 1), depth, object), LAMBDA v :
        LET after == buffer_skip_whitespace(b, v.at)
            all   == Append(kids, v.node)
        IN  IF Starts(b, after, Comma) THEN ParseElements(b, after, depth, object, all)
            ELSE IF ~Starts(b, after, IF object THEN CloseO ELSE CloseA) THEN Failed(after)
            ELSE Parsed(after + 1, Node(IF object THEN "object" ELSE "array", <<>>, all)))

parse_array(b, at, depth) ==
    LET inside == buffer_skip_whitespace(b, at + 1)
    IN  IF depth >= NestingLimit THEN Failed(at)
        ELSE IF Starts(b, inside, CloseA) THEN Parsed(inside + 1, Node("array", <<>>, <<>>))
        ELSE ParseElements(b, inside - 1, depth + 1, FALSE, <<>>)

\* Mutant: an object does not count as a level.
parse_flat_object(b, at, depth) ==
    LET inside == buffer_skip_whitespace(b, at + 1)
    IN  IF depth >= NestingLimit THEN Failed(at)
        ELSE IF Starts(b, inside, CloseO) THEN Parsed(inside + 1, Node("object", <<>>, <<>>))
        ELSE ParseElements(b, inside - 1, depth, TRUE, <<>>)

parse_object(b, at, depth) ==
    LET inside == buffer_skip_whitespace(b, at + 1)
    IN  IF depth >= NestingLimit THEN Failed(at)
        ELSE IF Starts(b, inside, CloseO) THEN Parsed(inside + 1, Node("object", <<>>, <<>>))
        ELSE ParseElements(b, inside - 1, depth + 1, TRUE, <<>>)

parse_value(b, at, depth) ==
    IF \E w \in DOMAIN Words : Reads(b, at, Words[w])
    THEN LET w == CHOOSE w \in DOMAIN Words : Reads(b, at, Words[w])
         IN  Parsed(at + Len(Words[w]), Node(w, <<>>, <<>>))
    ELSE IF Starts(b, at, Quote) THEN parse_string(b, at)
    ELSE IF Starts(b, at, Minus) \/ \E d \in Digits : Starts(b, at, d) THEN parse_number(b, at)
    ELSE IF Starts(b, at, OpenA) THEN parse_array(b, at, depth)
    ELSE IF Starts(b, at, OpenO) THEN parse_object(b, at, depth)
    ELSE Failed(at)

\* Without required end, whatever follows the value is left alone.
AtEnd(b, v) == LET end == buffer_skip_whitespace(b, v.at)
               IN  IF Byte(b, end) = NUL THEN Parsed(end, v.node) ELSE Failed(end)
Reported(b, r) == IF r.ok \/ r.at < Len(b) THEN r ELSE [r EXCEPT !.at = Len(b) - 1]

cJSON_ParseWithOpts(text, requireEnd) ==
    LET b == text \o <<NUL>>
    IN  Reported(b, Then(parse_value(b, buffer_skip_whitespace(b, skip_utf8_bom(b)), 0),
                         LAMBDA v : IF requireEnd THEN AtEnd(b, v) ELSE v))

-----------------------------------------------------------------------------
(* Printing.  A print buffer p has the bytes out up to the last NUL stored, *)
(* the offset, the length allocated, whether all was stored inside, and ok. *)

\* hooks: whether there is a realloc; else the buffer is copied to a new one.
PrintBuffer(length, noalloc, format, hooks) ==
    [ok |-> TRUE, out |-> <<>>, offset |-> 0, length |-> length, depth |-> 0, given |-> 0,
     noalloc |-> noalloc, format |-> format, hooks |-> hooks, inside |-> TRUE]

Least(m, n) == IF m < n THEN m ELSE n
\* More memory, or none: then the old buffer is freed.  kept bytes are copied.
Reallocated(p, length, kept) ==
    IF p.given = Reallocs THEN [p EXCEPT !.ok = FALSE, !.length = 0]
    ELSE [p EXCEPT !.given = @ + 1, !.length = length,
                   !.out = IF p.hooks = "realloc" THEN SubSeq(@, 1, Least(length, Len(@)))
                           ELSE SubSeq(@, 1, Least(kept, Len(@)))]

\* Mutant: what is already in the buffer is not counted.
ensure_from_start(p, needed) ==
    LET n == needed + 1 IN
    IF n <= p.length THEN p
    ELSE IF p.noalloc \/ n > IntMax THEN [p EXCEPT !.ok = FALSE]
    ELSE Reallocated(p, IF n > IntMax \div 2 THEN IntMax ELSE 2 * n, p.offset + 1)

\* At least needed bytes more, and one.
ensure(p, needed) ==
    LET n == needed + p.offset + 1 IN
    IF p.length > 0 /\ p.offset >= p.length THEN [p EXCEPT !.ok = FALSE]
    ELSE IF needed > IntMax THEN [p EXCEPT !.ok = FALSE]
    ELSE IF n <= p.length THEN p
    ELSE IF p.noalloc \/ n > IntMax THEN [p EXCEPT !.ok = FALSE]
    ELSE Reallocated(p, IF n > IntMax \div 2 THEN IntMax ELSE 2 * n, p.offset + 1)

\* ensure(needed), then store bytes, and nul more bytes 0, at the offset.
Put(p, needed, bytes, nul, advance) ==
    LET q   == ensure(p, needed)
        end == q.offset + Len(bytes) + nul
    IN  IF ~p.ok \/ ~q.ok THEN [q EXCEPT !.ok = FALSE]
        ELSE [q EXCEPT !.out = SubSeq(@, 1, q.offset) \o bytes,
                       !.inside = @ /\ end <= q.length,
                       !.offset = @ + advance]

\* strlen from the offset on.
update_offset(p) == [p EXCEPT !.offset = Len(p.out)]

Hex(n) == IF n < 10 THEN 48 + n ELSE 87 + n
\* Mutant: a backslash is printed as it is.
EscapedQuotesOnly(c) == IF c = Quote THEN <<Backslash, c>> ELSE <<c>>

Escaped(c) ==
    IF \E e \in Escapes : e[2] = c /\ c # Slash
    THEN <<Backslash, (CHOOSE e \in Escapes : e[2] = c)[1]>>
    ELSE IF c < Space THEN <<Backslash, 117, 48, 48, Hex(c \div 16), Hex(c % 16)>>
    ELSE <<c>>

print_string_ptr(string, p) ==
    LET body == FlattenSeq([n \in DOMAIN string |-> Escaped(string[n])])
    IN  Put(p, Len(body) + 3, <<Quote>> \o body \o <<Quote>>, 1, 0)

print_number(digits, p) == Put(p, Len(digits) + 1, digits, 1, Len(digits))

Tabs(n)   == [k \in 1 .. n |-> Tab]
F(p, a, b) == IF p.format THEN a ELSE b
Deeper(p, n) == [p EXCEPT !.depth = @ + n]

RECURSIVE print_value(_, _), PrintElements(_, _, _), PrintMembers(_, _, _)
PrintElements(kids, n, p) ==
    IF n > Len(kids) \/ ~p.ok THEN p
    ELSE LET q == update_offset(print_value(kids[n], p))
         IN  PrintElements(kids, n + 1,
                 IF n = Len(kids) THEN q
                 ELSE Put(q, F(p, 3, 2), F(p, <<Comma, Space>>, <<Comma>>), 1, F(p, 2, 1)))

print_array(kids, p) ==
    LET open  == Deeper(Put(p, 1, <<OpenA>>, 0, 1), 1)
        inner == PrintElements(kids, 1, open)
    IN  Deeper(Put(inner, 2, <<CloseA>>, 1, 0), -1)

PrintMembers(kids, n, p) ==
    IF n > Len(kids) \/ ~p.ok THEN p
    ELSE LET indent == F(p, Put(p, p.depth, Tabs(p.depth), 0, p.depth), p)
             name   == update_offset(print_string_ptr(kids[n].name, indent))
             colon  == Put(name, F(p, 2, 1), F(p, <<Colon, Tab>>, <<Colon>>), 0, F(p, 2, 1))
             value  == update_offset(print_value(kids[n], colon))
             comma  == IF n < Len(kids) THEN <<Comma>> ELSE <<>>
             end    == comma \o F(p, <<LineEnd>>, <<>>)
         IN  PrintMembers(kids, n + 1, Put(value, Len(end) + 1, end, 1, Len(end)))

print_object(kids, p) ==
    LET open  == F(p, <<OpenO, LineEnd>>, <<OpenO>>)
        inner == PrintMembers(kids, 1, Deeper(Put(p, Len(open) + 1, open, 0, Len(open)), 1))
        tabs  == F(p, Tabs(inner.depth - 1), <<>>)
    IN  Deeper(Put(inner, F(p, inner.depth + 1, 2), tabs \o <<CloseO>>, 1, 0), -1)

print_value(node, p) ==
    IF ~p.ok THEN p
    ELSE CASE node.type = "null"   -> Put(p, 5, Words.null, 1, 0)
           [] node.type = "false"  -> Put(p, 6, Words.false, 1, 0)
           [] node.type = "true"   -> Put(p, 5, Words.true, 1, 0)
           [] node.type = "number" -> print_number(node.value, p)
           [] node.type = "raw"    -> Put(p, Len(node.value) + 1, node.value, 1, 0)
           [] node.type = "string" -> print_string_ptr(node.value, p)
           [] node.type = "array"  -> print_array(node.kids, p)
           [] node.type = "object" -> print_object(node.kids, p)
           [] OTHER                -> [p EXCEPT !.ok = FALSE]

\* cJSON_Print and cJSON_PrintUnformatted: the result is cut to its length.
print(node, p) ==
    LET q == update_offset(print_value(node, p))
    IN  IF ~q.ok THEN q ELSE Reallocated(q, q.offset + 1, Least(q.length, q.offset + 1))

-----------------------------------------------------------------------------
(* cJSON_Compare and cJSON_Minify.                                         *)

\* tolower, as case_insensitive_strcmp uses it.
Lower(name) == [n \in DOMAIN name |-> IF name[n] \in 65 .. 90 THEN name[n] + 32 ELSE name[n]]
SameName(s, t, sensitive) == IF sensitive THEN s = t ELSE Lower(s) = Lower(t)
Member(object, name, sensitive) ==
    LET found == {n \in DOMAIN object.kids : SameName(object.kids[n].name, name, sensitive)}
    IN  IF found = {} THEN 0 ELSE CHOOSE n \in found : \A m \in found : n <= m

RECURSIVE cJSON_Compare(_, _, _)
cJSON_Compare(a, b, sensitive) ==
    LET Same(x, y) == cJSON_Compare(x, y, sensitive)
        Covered(x, y) == \A n \in DOMAIN x.kids :
                             LET m == Member(y, x.kids[n].name, sensitive)
                             IN  m # 0 /\ Same(x.kids[n], y.kids[m])
    IN  /\ a.type = b.type
        /\ a.type \in {"number", "string", "raw"} => a.value = b.value
        /\ a.type = "array" => /\ Len(a.kids) = Len(b.kids)
                              /\ \A n \in DOMAIN a.kids : Same(a.kids[n], b.kids[n])
        /\ a.type = "object" => Covered(a, b) /\ Covered(b, a)

\* b is the text as it is by now: json is at, into is where it is written.
\* The byte read is stored, and both go on.
Kept(b, at, into) == [b EXCEPT ![into + 1] = Byte(b, at)]

RECURSIVE MinifyFrom(_, _, _, _)
\* Mutant: white space goes inside strings too.
MinifyBlindly(b, at, into, mode) ==
    IF ~CanAccess(b, at) THEN [inside |-> FALSE, out |-> b]
    ELSE IF Byte(b, at) = NUL THEN [inside |-> TRUE, out |-> SubSeq(b, 1, into)]
    ELSE IF Byte(b, at) <= Space THEN MinifyFrom(b, at + 1, into, mode)
    ELSE MinifyFrom(Kept(b, at, into), at + 1, into + 1, mode)

\* mode: outside of strings ("text"), inside, or behind a backslash inside.
\* Reading stops at the NUL, unless a comment or a string without end steps
\* over it.
MinifyFrom(b, at, into, mode) ==
    LET c     == Byte(b, at)
        line  == FirstAt(b, at, LAMBDA k : Byte(b, k) \in {LineEnd, NUL})
        block == FirstAt(b, at, LAMBDA k : \/ Byte(b, k) = NUL
                                           \/ Byte(b, k) = Star /\ Byte(b, k + 1) = Slash)
        Keep(next) == MinifyFrom(Kept(b, at, into), at + 1, into + 1, next)
    IN  IF ~CanAccess(b, at) THEN [inside |-> FALSE, out |-> b]
        ELSE IF mode = "escape" THEN Keep("string")
        ELSE IF mode = "string"
             THEN Keep(IF c = Backslash THEN "escape" ELSE IF c \in {Quote, NUL} THEN "text" ELSE mode)
        ELSE IF c = NUL THEN [inside |-> TRUE, out |-> SubSeq(b, 1, into)]
        ELSE IF c \in {Space, Tab, 13, LineEnd} THEN MinifyFrom(b, at + 1, into, mode)
        ELSE IF c = Slash /\ Byte(b, at + 1) = Slash THEN MinifyFrom(b, line, into, mode)
        ELSE IF c = Slash /\ Byte(b, at + 1) = Star THEN MinifyFrom(b, block + 2, into, mode)
        ELSE Keep(IF c = Quote THEN "string" ELSE mode)

cJSON_Minify(text) == MinifyFrom(text \o <<NUL>>, 0, 0, "text")

-----------------------------------------------------------------------------
(* The calls.                                                              *)

NoCall == [op |-> "none"]
TextInit == call = NoCall

Parse(text) ==
    \E requireEnd \in BOOLEAN :
        call' = [op |-> "parse", text |-> text, end |-> requireEnd,
                 result |-> cJSON_ParseWithOpts(text, requireEnd)]

Minify(text) == call' = [op |-> "minify", text |-> text, result |-> cJSON_Minify(text)]

\* cJSON_Print and cJSON_PrintUnformatted; their 256 bytes are any length here.
Render(tree) ==
    \E length \in Buffers, format \in BOOLEAN, hooks \in {"realloc", "copy"} :
        call' = [op |-> "print", tree |-> tree,
                 result |-> print(tree, PrintBuffer(length, FALSE, format, hooks))]

\* cJSON_PrintBuffered, and cJSON_PrintPreallocated, which never allocates.
RenderInto(tree) ==
    \E length \in Buffers, noalloc \in BOOLEAN, format \in BOOLEAN, hooks \in {"realloc", "copy"} :
        call' = [op |-> "print", tree |-> tree,
                 result |-> print_value(tree, PrintBuffer(length, noalloc, format, hooks))]

TextNext ==
    /\ call = NoCall
    /\ \/ \E text \in Texts : Parse(text) \/ Minify(text)
       \/ \E tree \in Trees : Render(tree) \/ RenderInto(tree)

-----------------------------------------------------------------------------
(* What a text means, stated without offsets and buffers.                  *)

Slice(s, m, n) == SubSeq(s, m, n)
Trim(s) == LET solid == {n \in DOMAIN s : s[n] > Space}
           IN  IF solid = {} THEN <<>>
               ELSE Slice(s, CHOOSE n \in solid : \A k \in solid : n <= k,
                             CHOOSE n \in solid : \A k \in solid : n >= k)
Enclosed(s, open, close) == Len(s) >= 2 /\ s[1] = open /\ s[Len(s)] = close
Inner(s) == Slice(s, 2, Len(s) - 1)

IsNumber(s) == LET t == IF s # <<>> /\ s[1] = Minus THEN Tail(s) ELSE s
               IN  t # <<>> /\ \A n \in DOMAIN t : t[n] \in Digits

\* RFC 8259 asks for four hexadecimal digits behind \u.  The code takes any four
\* bytes; if they are none it reads U+0000, which ends the C string.  What
\* follows in such a literal is then read out of step with its escapes, and
\* may or may not be refused: strict says that there is none of them.
RECURSIVE Chars(_, _)
\* The code points of the inside of a string; <<-1>> stands for an error.
Chars(s, strict) ==
    LET then(first, n) == LET rest == Chars(Slice(s, n + 1, Len(s)), strict)
                          IN  IF rest = <<-1>> THEN rest ELSE <<first>> \o rest
        digits == \A n \in 3 .. 6 : HexValue(s[n]) >= 0
        unit(n) == parse_hex4(s, n)
    IN  IF s = <<>> THEN <<>>
        ELSE IF s[1] = Quote THEN <<-1>>
        ELSE IF s[1] # Backslash THEN then(s[1], 1)
        ELSE IF Len(s) >= 2 /\ \E e \in Escapes : e[1] = s[2]
             THEN then((CHOOSE e \in Escapes : e[1] = s[2])[2], 2)
        ELSE IF Len(s) < 6 \/ s[2] # 117 THEN <<-1>>
        ELSE IF ~digits THEN IF strict THEN <<-1>> ELSE <<NUL>>
        ELSE IF unit(2) \notin 55296 .. 57343 THEN then(unit(2), 6)
        ELSE IF /\ Len(s) >= 12 /\ s[7] = Backslash /\ s[8] = 117
                /\ unit(2) <= 56319 /\ unit(8) \in 56320 .. 57343
             THEN then(65536 + 1024 * (unit(2) - 55296) + (unit(8) - 56320), 12)
        ELSE <<-1>>

\* The byte at n follows an odd number of backslashes.
Hidden(s, n) == Cardinality({k \in 1 .. n - 1 : \A j \in k .. n - 1 : s[j] = Backslash}) % 2 = 1
IsString(s, strict) ==
    /\ Enclosed(s, Quote, Quote)
    /\ \A n \in 2 .. Len(s) : s[n] = Quote => (Hidden(s, n) <=> n < Len(s))
    /\ Chars(Inner(s), strict) # <<-1>>

RECURSIVE IsValue(_, _, _), IsList(_, _, _, _)
\* depth arrays and objects may be open around s.
IsValue(s, depth, strict) ==
    \/ \E w \in DOMAIN Words : s = Words[w]
    \/ IsNumber(s)
    \/ IsString(s, strict)
    \/ \E object \in BOOLEAN :
          /\ depth > 0
          /\ IF object THEN Enclosed(s, OpenO, CloseO) ELSE Enclosed(s, OpenA, CloseA)
          /\ Trim(Inner(s)) = <<>> \/ IsList(Inner(s), object, depth - 1, strict)

IsList(s, object, depth, strict) ==
    \E end \in {n \in DOMAIN s : s[n] = Comma} \cup {Len(s) + 1} :
        LET first == Slice(s, 1, end - 1) IN
        /\ IF object
           THEN \E n \in {n \in DOMAIN first : first[n] = Colon} :
                    /\ IsString(Trim(Slice(first, 1, n - 1)), strict)
                    /\ IsValue(Trim(Slice(first, n + 1, Len(first))), depth, strict)
           ELSE IsValue(Trim(first), depth, strict)
        /\ end <= Len(s) => IsList(Slice(s, end + 1, Len(s)), object, depth, strict)

\* A byte order mark is not part of the text behind it.
Body(text, n) == Trim(Slice(text, IF IsPrefix(BOM, text) THEN Len(BOM) + 1 ELSE 1, n))
IsText(text, n, strict) == IsValue(Body(text, n), NestingLimit, strict)

\* The bytes of s, read as UTF-8.
RECURSIVE Decoded(_)
Decoded(s) ==
    IF s = <<>> THEN <<>>
    ELSE LET more == IF s[1] < 128 THEN 0 ELSE IF s[1] < 224 THEN 1 ELSE IF s[1] < 240 THEN 2 ELSE 3
             lead == IF more = 0 THEN s[1] ELSE s[1] % (2^(6 - more))
             code == FoldLeft(LAMBDA c, byte : (64 * c) + (byte % 64), lead, Slice(s, 2, more + 1))
         IN  <<code>> \o Decoded(Slice(s, more + 2, Len(s)))

-----------------------------------------------------------------------------
(* What the code must do.                                                  *)

\* The recursive descent, its step back in front of an element, its clamp at the
\* end of the buffer and its depth counter accept every text that is a value
\* (or, without required end, starts with one), none that is not, and report
\* an offset inside the text.  Where a \u has no four digits there is room
\* between the two: such a literal is accepted or refused.
ParserAgrees ==
    call.op = "parse" =>
        LET r == call.result
            ends == IF call.end THEN {Len(call.text)} ELSE DOMAIN call.text
        IN  /\ r.at \in 0 .. Len(call.text)
            /\ (\E n \in ends : IsText(call.text, n, TRUE)) => r.ok
            /\ r.ok => /\ IsText(call.text, r.at, FALSE)
                       /\ call.end => r.at = Len(call.text)

\* A literal, its surrogates and the bytes stored from the last to the first
\* give back its code points up to the first NUL, as which a \u without four
\* digits counts; and parse_string's estimate of the length, one byte less for
\* each backslash, is enough for what is stored.
EscapesDecode ==
    call.op = "parse" =>
        /\ call.result.inside
        /\ call.result.ok /\ call.result.node.type = "string" =>
              LET s == Body(call.text, call.result.at)
              IN  Decoded(call.result.node.value) = CString(Chars(Inner(s), FALSE))

\* Every ensure asks for as much as is then stored, also where a printer stores
\* without a NUL: nothing is written past the buffer, and a preallocated one
\* suffices when it has the five bytes more that cJSON.h asks for.
PrintFits ==
    call.op = "print" =>
        /\ call.result.inside
        /\ call.result.noalloc /\ ~call.result.ok =>
              LET full == PrintBuffer(16 * IntMax, TRUE, call.result.format, call.result.hooks)
              IN  call.result.length < Len(print_value(call.tree, full).out) + 1 + 5

RECURSIVE DistinctNames(_, _), Meant(_)
DistinctNames(node, sensitive) ==
    /\ node.type = "object" =>
          \A m, n \in DOMAIN node.kids :
              SameName(node.kids[m].name, node.kids[n].name, sensitive) => m = n
    /\ \A n \in DOMAIN node.kids : DistinctNames(node.kids[n], sensitive)

\* A raw item stands for what its text says.
Meant(node) ==
    IF node.type = "raw"
    THEN [cJSON_ParseWithOpts(node.value, TRUE).node EXCEPT !.name = node.name]
    ELSE [node EXCEPT !.kids = [n \in DOMAIN @ |-> Meant(@[n])]]

\* What is printed, in either format, however often the buffer was moved or
\* copied up to its offset, and cut to its length at the end, is parsed to the
\* same items again; and cJSON_Compare takes them for equal unless an object
\* has a name twice, in the sense of its third argument.
PrintRoundTrip ==
    call.op = "print" /\ call.result.ok =>
        LET r == cJSON_ParseWithOpts(call.result.out, TRUE)
        IN  /\ r.ok
            /\ r.node = Meant(call.tree)
            /\ \A sensitive \in BOOLEAN : DistinctNames(r.node, sensitive) =>
                   cJSON_Compare(r.node, Meant(call.tree), sensitive)

\* From // to the end of the line, or from /* to the first */ behind it.  (The
\* code takes the star of /* for that of */ too, and ends a comment that
\* starts with /*/ there: comments that do are left out.)
IsComment(c) ==
    \/ c = <<>>
    \/ /\ IsPrefix(<<Slash, Slash>>, c) /\ c[Len(c)] = LineEnd
       /\ \A n \in 1 .. Len(c) - 1 : c[n] # LineEnd
    \/ /\ Len(c) >= 4 /\ IsPrefix(<<Slash, Star>>, c) /\ IsSuffix(<<Star, Slash>>, c)
       /\ \A n \in 2 .. Len(c) - 2 : ~(c[n] = Star /\ c[n + 1] = Slash)

\* Minify works in place on a text with a comment between its tokens, and with
\* strings that hold what looks like white space, an end or a comment: the
\* value keeps its meaning, so that the writer never overtook the reader, and
\* reading never leaves the text.
MinifyKeeps ==
    call.op = "minify" =>
        \A m \in 0 .. Len(call.text) : \A n \in m .. Len(call.text) :
            LET before == Slice(call.text, 1, m)
                plain  == before \o <<Space>> \o Slice(call.text, n + 1, Len(call.text))
                quotes == {k \in DOMAIN before : before[k] = Quote /\ ~Hidden(before, k)}
            IN  /\ IsComment(Slice(call.text, m + 1, n))
                /\ Cardinality(quotes) % 2 = 0
                /\ IsText(plain, Len(plain), TRUE)
                => /\ call.result.inside
                   /\ LET r == cJSON_ParseWithOpts(call.result.out, TRUE)
                      IN  r.ok /\ r.node = cJSON_ParseWithOpts(plain, TRUE).node
=============================================================================
