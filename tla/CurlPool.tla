------------------------------ MODULE CurlPool ------------------------------
(***************************************************************************)
(* curl/curl-static.c: the memory functions that main gives libcurl.  The  *)
(* pool is only ever taken from its front; free does nothing.              *)
(*                                                                         *)
(* The caller is libcurl: it writes only into blocks it holds, and starts  *)
(* or leaves (main resets the pool then) holding none.                     *)
(***************************************************************************)
EXTENDS Integers

CONSTANTS
    CURL_MEMORY_POOL_SIZE,
    SizeMax,    \* largest size_t
    Sizes,      \* what libcurl asks for
    Bytes,      \* contents it stores
    Nothing     \* in the place of contents that are not defined

ASSUME PoolAssumption ==
    /\ CURL_MEMORY_POOL_SIZE \in Nat
    /\ SizeMax \in Nat
    /\ Sizes \subseteq Nat
    /\ \A size \in Sizes : CURL_MEMORY_POOL_SIZE + size <= SizeMax
    /\ 0 \in Bytes /\ Nothing \notin Bytes

VARIABLES
    curl_memory_pool,
    memory_pool_index,
    blocks,     \* what libcurl holds: where each block is and how large
    stored      \* what libcurl last stored at an address, or Nothing
poolVars == <<curl_memory_pool, memory_pool_index, blocks, stored>>

Address  == 0 .. CURL_MEMORY_POOL_SIZE - 1
Block    == [at: Nat, size: Nat]
\* The addresses from a on, size of them.
Span(a, size) == {x \in Address : a <= x /\ x < a + size}

PoolTypeOK ==
    /\ curl_memory_pool \in [Address -> Bytes]
    /\ memory_pool_index \in Nat
    /\ blocks \subseteq Block
    /\ stored \in [Address -> Bytes \cup {Nothing}]

PoolInit ==
    /\ curl_memory_pool = [a \in Address |-> 0]
    /\ memory_pool_index = 0
    /\ blocks = {}
    /\ stored = [a \in Address |-> Nothing]

-----------------------------------------------------------------------------

\* size_t + size_t.
Plus(m, n) == IF m + n <= SizeMax THEN m + n ELSE m + n - SizeMax - 1

Available(size) == Plus(memory_pool_index, size) <= CURL_MEMORY_POOL_SIZE
New(size)       == [at |-> memory_pool_index, size |-> size]
Take(size)      == memory_pool_index' = memory_pool_index + size

static_malloc(size) ==
    /\ Available(size)
    /\ Take(size)
    /\ blocks' = blocks \cup {New(size)}
    /\ UNCHANGED <<curl_memory_pool, stored>>

Filled(size, byte) ==
    /\ Available(size)
    /\ Take(size)
    /\ blocks' = blocks \cup {New(size)}
    /\ curl_memory_pool' = [a \in Address |->
           IF a \in Span(memory_pool_index, size) THEN byte ELSE curl_memory_pool[a]]
    /\ stored' = [a \in Address |->
           IF a \in Span(memory_pool_index, size) THEN byte ELSE stored[a]]

\* The length of a string and its NUL; nmemb * size, which libcurl keeps in range.
static_strup(len, byte)  == len > 0 /\ Filled(len, byte)
static_calloc(total)     == Filled(total, 0)

\* memcpy of size bytes from the old block, which may be shorter than that: from
\* the end of the pool's used part on, source and destination overlap, and
\* what arrives there depends on the order in which memcpy copies.
static_realloc(old, size) ==
    LET new == Span(memory_pool_index, size)
        From(a) == old.at + (a - memory_pool_index)
    IN
    /\ Available(size)
    /\ Take(size)
    /\ blocks' = (blocks \ {old}) \cup {New(size)}
    /\ \E copied \in [new -> Bytes] :
          /\ \A a \in new : From(a) < memory_pool_index => copied[a] = curl_memory_pool[From(a)]
          /\ curl_memory_pool' = [a \in Address |->
                 IF a \in new THEN copied[a] ELSE curl_memory_pool[a]]
    /\ stored' = [a \in Address |->
           IF a \in new THEN IF From(a) < old.at + old.size THEN stored[From(a)] ELSE Nothing
           ELSE IF a \in Span(old.at, old.size) THEN Nothing
           ELSE stored[a]]

\* Mutant: the pool goes back to where the freed block was.
static_free_rewinding(block) ==
    /\ blocks' = blocks \ {block}
    /\ stored' = [a \in Address |-> IF a \in Span(block.at, block.size) THEN Nothing ELSE stored[a]]
    /\ memory_pool_index' = block.at
    /\ UNCHANGED curl_memory_pool

static_free(block) ==
    /\ blocks' = blocks \ {block}
    /\ stored' = [a \in Address |-> IF a \in Span(block.at, block.size) THEN Nothing ELSE stored[a]]
    /\ UNCHANGED <<curl_memory_pool, memory_pool_index>>

reset_memory_pool ==
    /\ blocks = {}
    /\ memory_pool_index' = 0
    /\ curl_memory_pool' = [a \in Address |-> 0]
    /\ UNCHANGED <<blocks, stored>>

\* libcurl writes into one of its blocks.
Write(block, byte) ==
    /\ curl_memory_pool' = [a \in Address |->
           IF a \in Span(block.at, block.size) THEN byte ELSE curl_memory_pool[a]]
    /\ stored' = [a \in Address |-> IF a \in Span(block.at, block.size) THEN byte ELSE stored[a]]
    /\ UNCHANGED <<memory_pool_index, blocks>>

PoolNext ==
    \/ \E size \in Sizes :
          \/ static_malloc(size)
          \/ \E byte \in Bytes : static_strup(size, byte)
          \/ static_calloc(size)
          \/ \E old \in blocks : static_realloc(old, size)
    \/ \E block \in blocks : static_free(block) \/ \E byte \in Bytes : Write(block, byte)
    \/ reset_memory_pool

PoolSpec == PoolInit /\ [][PoolNext]_poolVars

-----------------------------------------------------------------------------

Apart(b, c) == b.at + b.size <= c.at \/ c.at + c.size <= b.at

\* Blocks lie in the used part of the pool and share no byte, so that what
\* libcurl stored in one is still there whatever happens to the others, and
\* survives static_realloc although that copies too much.
StoredIsThere ==
    /\ \A b \in blocks : b.at + b.size <= memory_pool_index
    /\ memory_pool_index <= CURL_MEMORY_POOL_SIZE
    /\ \A b, c \in blocks : b # c => Apart(b, c)
    /\ \A a \in Address : stored[a] # Nothing => curl_memory_pool[a] = stored[a]
=============================================================================
