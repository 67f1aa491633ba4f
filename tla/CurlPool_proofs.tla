-------------------------- MODULE CurlPool_proofs --------------------------
(***************************************************************************)
(* The memory functions of curl-static.c keep what libcurl stored, for     *)
(* every size of the pool and all requests whose sum with it is a size_t.  *)
(***************************************************************************)
EXTENDS CurlPool, TLAPS

\* What is stored lies in a block that is held: reset_memory_pool, which comes
\* when none is, loses nothing, and the front of the pool holds nothing.
Covered == \A a \in Address : stored[a] # Nothing => \E b \in blocks : a \in Span(b.at, b.size)

IInv == PoolTypeOK /\ StoredIsThere /\ Covered

-----------------------------------------------------------------------------

\* When static_malloc finds room, the sum did not wrap around and the block fits.
LEMMA Fits ==
    ASSUME IInv, NEW size \in Sizes, Available(size)
    PROVE  /\ size \in Nat
           /\ memory_pool_index \in Nat
           /\ memory_pool_index + size \in Nat
           /\ memory_pool_index + size <= CURL_MEMORY_POOL_SIZE
           /\ New(size) \in Block
<1>1. size \in Nat /\ memory_pool_index \in Nat /\ CURL_MEMORY_POOL_SIZE \in Nat /\ SizeMax \in Nat
    BY PoolAssumption DEF IInv, PoolTypeOK
<1>2. memory_pool_index <= CURL_MEMORY_POOL_SIZE
    BY DEF IInv, StoredIsThere
<1>3. CURL_MEMORY_POOL_SIZE + size <= SizeMax
    BY PoolAssumption
<1>4. memory_pool_index + size <= SizeMax
    BY <1>1, <1>2, <1>3
<1>5. memory_pool_index + size <= CURL_MEMORY_POOL_SIZE
    BY <1>1, <1>4 DEF Available, Plus
<1> QED BY <1>1, <1>5 DEF New, Block

\* The block taken from the front shares nothing with those that are held, or
\* with those that are left of them.
LEMMA NewBlock ==
    ASSUME IInv, NEW size \in Sizes, Available(size), Take(size),
           NEW kept, kept \subseteq blocks, blocks' = kept \cup {New(size)}
    PROVE  /\ memory_pool_index' \in Nat
           /\ memory_pool_index' <= CURL_MEMORY_POOL_SIZE
           /\ blocks' \subseteq Block
           /\ \A b \in blocks' : b.at + b.size <= memory_pool_index'
           /\ \A b, c \in blocks' : b # c => Apart(b, c)
<1>1. /\ size \in Nat /\ memory_pool_index \in Nat
      /\ memory_pool_index' = memory_pool_index + size
      /\ memory_pool_index' <= CURL_MEMORY_POOL_SIZE
      /\ New(size) \in Block /\ New(size).at = memory_pool_index /\ New(size).size = size
    BY Fits DEF Take, New
<1>2. kept \subseteq Block /\ \A b \in kept : b.at \in Nat /\ b.size \in Nat
    BY DEF IInv, PoolTypeOK, Block
<1>3. \A b \in kept : b.at + b.size <= memory_pool_index
    BY DEF IInv, StoredIsThere
<1>4. \A b \in blocks' : b.at + b.size <= memory_pool_index'
    BY <1>1, <1>2, <1>3
<1>5. ASSUME NEW b \in blocks', NEW c \in blocks', b # c
      PROVE  Apart(b, c)
    <2>1. CASE b \in kept /\ c \in kept
        BY <2>1, <1>5 DEF IInv, StoredIsThere
    <2>2. CASE b \in kept /\ c = New(size)
        BY <2>2, <1>1, <1>3 DEF Apart
    <2>3. CASE c \in kept /\ b = New(size)
        BY <2>3, <1>1, <1>3 DEF Apart
    <2> QED BY <1>5, <2>1, <2>2, <2>3
<1> QED BY <1>1, <1>2, <1>4, <1>5

\* Nothing is stored from the front of the pool on.
LEMMA FrontIsFree ==
    ASSUME IInv, NEW a \in Address, a >= memory_pool_index
    PROVE  stored[a] = Nothing
<1> SUFFICES ASSUME stored[a] # Nothing PROVE FALSE
    OBVIOUS
<1>1. PICK b \in blocks : a \in Span(b.at, b.size)
    BY DEF IInv, Covered
<1>2. b.at \in Nat /\ b.size \in Nat /\ memory_pool_index \in Nat /\ b.at + b.size <= memory_pool_index
    BY DEF IInv, PoolTypeOK, Block, StoredIsThere
<1>3. a < b.at + b.size /\ a \in Int
    BY <1>1 DEF Span, Address
<1> QED BY <1>2, <1>3

\* Every request, release and write of libcurl, and the reset between its runs,
\* keeps the invariant.
LEMMA InitHolds == PoolInit => IInv
<1> SUFFICES ASSUME PoolInit PROVE IInv
    OBVIOUS
<1>1. PoolTypeOK
    BY PoolAssumption DEF PoolInit, PoolTypeOK
<1>2. StoredIsThere
    BY PoolAssumption DEF PoolInit, StoredIsThere, Address
<1>3. Covered
    BY DEF PoolInit, Covered
<1> QED BY <1>1, <1>2, <1>3 DEF IInv

LEMMA MallocKeeps ==
    ASSUME IInv, NEW size \in Sizes, static_malloc(size)
    PROVE  IInv'
<1>1. Available(size) /\ Take(size) /\ blocks' = blocks \cup {New(size)}
      /\ curl_memory_pool' = curl_memory_pool /\ stored' = stored
    BY DEF static_malloc
<1>2. /\ memory_pool_index' \in Nat /\ memory_pool_index' <= CURL_MEMORY_POOL_SIZE
      /\ blocks' \subseteq Block
      /\ \A b \in blocks' : b.at + b.size <= memory_pool_index'
      /\ \A b, c \in blocks' : b # c => Apart(b, c)
    BY <1>1, NewBlock
<1>3. PoolTypeOK'
    BY <1>1, <1>2 DEF IInv, PoolTypeOK
<1>4. StoredIsThere'
    BY <1>1, <1>2 DEF IInv, StoredIsThere, Apart
<1>5. Covered'
    BY <1>1 DEF IInv, Covered
<1> QED BY <1>3, <1>4, <1>5 DEF IInv

LEMMA FilledKeeps ==
    ASSUME IInv, NEW size \in Sizes, NEW byte \in Bytes, Filled(size, byte)
    PROVE  IInv'
<1>1. Available(size) /\ Take(size) /\ blocks' = blocks \cup {New(size)}
    BY DEF Filled
<1>2. /\ memory_pool_index' \in Nat /\ memory_pool_index' <= CURL_MEMORY_POOL_SIZE
      /\ blocks' \subseteq Block
      /\ \A b \in blocks' : b.at + b.size <= memory_pool_index'
      /\ \A b, c \in blocks' : b # c => Apart(b, c)
    BY <1>1, NewBlock
<1>3. \A a \in Address :
          IF a \in Span(memory_pool_index, size)
          THEN curl_memory_pool'[a] = byte /\ stored'[a] = byte
          ELSE curl_memory_pool'[a] = curl_memory_pool[a] /\ stored'[a] = stored[a]
    BY DEF Filled
<1>4. curl_memory_pool' \in [Address -> Bytes] /\ stored' \in [Address -> Bytes \cup {Nothing}]
    BY DEF Filled, IInv, PoolTypeOK
<1>5. PoolTypeOK'
    BY <1>2, <1>4 DEF PoolTypeOK
<1>6. StoredIsThere'
    <2>1. \A a \in Address : stored'[a] # Nothing => curl_memory_pool'[a] = stored'[a]
        BY <1>3 DEF IInv, StoredIsThere
    <2> QED BY <1>2, <2>1 DEF StoredIsThere, Apart
<1>7. Covered'
    <2> SUFFICES ASSUME NEW a \in Address, stored'[a] # Nothing
                 PROVE  \E b \in blocks' : a \in Span(b.at, b.size)
        BY DEF Covered
    <2>1. CASE a \in Span(memory_pool_index, size)
        <3>1. New(size) \in blocks' /\ New(size).at = memory_pool_index /\ New(size).size = size
            BY <1>1 DEF New
        <3>2. a \in Span(New(size).at, New(size).size)
            BY <2>1, <3>1
        <3> QED BY <3>1, <3>2
    <2>2. CASE a \notin Span(memory_pool_index, size)
        BY <2>2, <1>1, <1>3 DEF IInv, Covered
    <2> QED BY <2>1, <2>2
<1> QED BY <1>5, <1>6, <1>7 DEF IInv

\* The old block is shorter than what is copied, or longer: what libcurl
\* stored in it and still has room for arrives, the rest is undefined.
LEMMA ReallocKeeps ==
    ASSUME IInv, NEW size \in Sizes, NEW old \in blocks, static_realloc(old, size)
    PROVE  IInv'
<1> DEFINE new     == Span(memory_pool_index, size)
           From(a) == old.at + (a - memory_pool_index)
<1>1. Available(size) /\ Take(size) /\ blocks' = (blocks \ {old}) \cup {New(size)}
    BY DEF static_realloc
<1>2. /\ memory_pool_index' \in Nat /\ memory_pool_index' <= CURL_MEMORY_POOL_SIZE
      /\ blocks' \subseteq Block
      /\ \A b \in blocks' : b.at + b.size <= memory_pool_index'
      /\ \A b, c \in blocks' : b # c => Apart(b, c)
    <2> DEFINE kept == blocks \ {old}
    <2>1. kept \subseteq blocks /\ blocks' = kept \cup {New(size)}
        BY <1>1
    <2> HIDE DEF kept
    <2> QED BY <1>1, <2>1, NewBlock
<1>3. PICK copied \in [new -> Bytes] :
          /\ \A a \in new : From(a) < memory_pool_index => copied[a] = curl_memory_pool[From(a)]
          /\ curl_memory_pool' = [a \in Address |-> IF a \in new THEN copied[a] ELSE curl_memory_pool[a]]
    BY DEF static_realloc
<1>4. \A a \in Address :
          stored'[a] = IF a \in new THEN IF From(a) < old.at + old.size THEN stored[From(a)] ELSE Nothing
                       ELSE IF a \in Span(old.at, old.size) THEN Nothing
                       ELSE stored[a]
    BY DEF static_realloc
<1>5. /\ old.at \in Nat /\ old.size \in Nat /\ old.at + old.size <= memory_pool_index
      /\ memory_pool_index \in Nat /\ memory_pool_index <= CURL_MEMORY_POOL_SIZE
      /\ CURL_MEMORY_POOL_SIZE \in Nat
    BY PoolAssumption DEF IInv, PoolTypeOK, StoredIsThere, Block
<1>6. ASSUME NEW a \in new, From(a) < old.at + old.size
      PROVE  From(a) \in Address /\ From(a) < memory_pool_index
    BY <1>5, <1>6 DEF Span, Address
<1>7. curl_memory_pool' \in [Address -> Bytes]
    BY <1>3 DEF IInv, PoolTypeOK
<1>8. stored' \in [Address -> Bytes \cup {Nothing}]
    <2>1. \A a \in Address : stored'[a] \in Bytes \cup {Nothing}
        BY <1>4, <1>6 DEF IInv, PoolTypeOK
    <2>2. stored' = [a \in Address |-> stored'[a]]
        BY DEF static_realloc
    <2> QED BY <2>1, <2>2
<1>9. PoolTypeOK'
    BY <1>2, <1>7, <1>8 DEF PoolTypeOK
<1>10. StoredIsThere'
    <2>1. ASSUME NEW a \in Address, stored'[a] # Nothing
          PROVE  curl_memory_pool'[a] = stored'[a]
        <3>1. CASE a \in new
            <4>1. From(a) < old.at + old.size /\ stored'[a] = stored[From(a)]
                BY <1>4, <2>1, <3>1
            <4>2. From(a) \in Address /\ From(a) < memory_pool_index
                BY <1>6, <3>1, <4>1
            <4>3. curl_memory_pool'[a] = curl_memory_pool[From(a)]
                BY <1>3, <3>1, <4>2
            <4> QED BY <2>1, <4>1, <4>2, <4>3 DEF IInv, StoredIsThere
        <3>2. CASE a \notin new
            BY <1>3, <1>4, <2>1, <3>2 DEF IInv, StoredIsThere
        <3> QED BY <3>1, <3>2
    <2> QED BY <1>2, <2>1 DEF StoredIsThere, Apart
<1>11. Covered'
    <2> SUFFICES ASSUME NEW a \in Address, stored'[a] # Nothing
                 PROVE  \E b \in blocks' : a \in Span(b.at, b.size)
        BY DEF Covered
    <2>1. CASE a \in new
        <3>1. New(size) \in blocks' /\ New(size).at = memory_pool_index /\ New(size).size = size
            BY <1>1 DEF New
        <3>2. a \in Span(New(size).at, New(size).size)
            BY <2>1, <3>1
        <3> QED BY <3>1, <3>2
    <2>2. CASE a \notin new
        <3>1. a \notin Span(old.at, old.size) /\ stored[a] # Nothing
            BY <1>4, <2>2
        <3>2. PICK b \in blocks : a \in Span(b.at, b.size)
            BY <3>1 DEF IInv, Covered
        <3> QED BY <1>1, <3>1, <3>2
    <2> QED BY <2>1, <2>2
<1> QED BY <1>9, <1>10, <1>11 DEF IInv

\* A released block is not used again, and nothing of it is held.
LEMMA FreeKeeps ==
    ASSUME IInv, NEW block \in blocks, static_free(block)
    PROVE  IInv'
<1>1. /\ blocks' = blocks \ {block} /\ memory_pool_index' = memory_pool_index
      /\ curl_memory_pool' = curl_memory_pool
      /\ \A a \in Address :
            stored'[a] = IF a \in Span(block.at, block.size) THEN Nothing ELSE stored[a]
    BY DEF static_free
<1>2. PoolTypeOK'
    <2>1. stored' \in [Address -> Bytes \cup {Nothing}]
        BY DEF static_free, IInv, PoolTypeOK
    <2> QED BY <1>1, <2>1 DEF IInv, PoolTypeOK
<1>3. StoredIsThere'
    BY <1>1 DEF IInv, StoredIsThere, Apart
<1>4. Covered'
    <2> SUFFICES ASSUME NEW a \in Address, stored'[a] # Nothing
                 PROVE  \E b \in blocks' : a \in Span(b.at, b.size)
        BY DEF Covered
    <2>1. a \notin Span(block.at, block.size) /\ stored[a] # Nothing
        BY <1>1
    <2>2. PICK b \in blocks : a \in Span(b.at, b.size)
        BY <2>1 DEF IInv, Covered
    <2> QED BY <1>1, <2>1, <2>2
<1> QED BY <1>2, <1>3, <1>4 DEF IInv

\* The pool is reset when no block is held: nothing is stored then.
LEMMA ResetKeeps ==
    ASSUME IInv, reset_memory_pool
    PROVE  IInv'
<1>1. /\ blocks = {} /\ blocks' = {} /\ memory_pool_index' = 0 /\ stored' = stored
      /\ curl_memory_pool' = [a \in Address |-> 0]
    BY DEF reset_memory_pool
<1>2. \A a \in Address : stored'[a] = Nothing
    BY <1>1 DEF IInv, Covered
<1>3. PoolTypeOK'
    BY <1>1, PoolAssumption DEF IInv, PoolTypeOK
<1>4. StoredIsThere'
    BY <1>1, <1>2, PoolAssumption DEF StoredIsThere
<1>5. Covered'
    BY <1>2 DEF Covered
<1> QED BY <1>3, <1>4, <1>5 DEF IInv

\* libcurl writes into a block of its own.
LEMMA WriteKeeps ==
    ASSUME IInv, NEW block \in blocks, NEW byte \in Bytes, Write(block, byte)
    PROVE  IInv'
<1>1. /\ blocks' = blocks /\ memory_pool_index' = memory_pool_index
      /\ \A a \in Address :
            IF a \in Span(block.at, block.size)
            THEN curl_memory_pool'[a] = byte /\ stored'[a] = byte
            ELSE curl_memory_pool'[a] = curl_memory_pool[a] /\ stored'[a] = stored[a]
    BY DEF Write
<1>2. PoolTypeOK'
    <2>1. curl_memory_pool' \in [Address -> Bytes] /\ stored' \in [Address -> Bytes \cup {Nothing}]
        BY DEF Write, IInv, PoolTypeOK
    <2> QED BY <1>1, <2>1 DEF IInv, PoolTypeOK
<1>3. StoredIsThere'
    <2>1. \A a \in Address : stored'[a] # Nothing => curl_memory_pool'[a] = stored'[a]
        BY <1>1 DEF IInv, StoredIsThere
    <2> QED BY <1>1, <2>1 DEF IInv, StoredIsThere, Apart
<1>4. Covered'
    BY <1>1 DEF IInv, Covered
<1> QED BY <1>2, <1>3, <1>4 DEF IInv

-----------------------------------------------------------------------------

\* Each operation of the pool preserves the invariant.
LEMMA NextKeeps == IInv /\ [PoolNext]_poolVars => IInv'
<1> SUFFICES ASSUME IInv, [PoolNext]_poolVars PROVE IInv'
    OBVIOUS
<1>1. ASSUME NEW size \in Sizes, static_malloc(size) PROVE IInv'
    BY <1>1, MallocKeeps
<1>2. ASSUME NEW size \in Sizes, NEW byte \in Bytes, static_strup(size, byte) PROVE IInv'
    BY <1>2, FilledKeeps DEF static_strup
<1>3. ASSUME NEW size \in Sizes, static_calloc(size) PROVE IInv'
    BY <1>3, FilledKeeps, PoolAssumption DEF static_calloc
<1>4. ASSUME NEW size \in Sizes, NEW old \in blocks, static_realloc(old, size) PROVE IInv'
    BY <1>4, ReallocKeeps
<1>5. ASSUME NEW block \in blocks, static_free(block) PROVE IInv'
    BY <1>5, FreeKeeps
<1>6. ASSUME NEW block \in blocks, NEW byte \in Bytes, Write(block, byte) PROVE IInv'
    BY <1>6, WriteKeeps
<1>7. CASE reset_memory_pool
    BY <1>7, ResetKeeps
<1>8. CASE UNCHANGED poolVars
    BY <1>8 DEF poolVars, IInv, PoolTypeOK, StoredIsThere, Covered, Apart
<1> QED BY <1>1, <1>2, <1>3, <1>4, <1>5, <1>6, <1>7, <1>8 DEF PoolNext

\* Index, blocks and bytes of the pool keep their types.
THEOREM PoolTypeCorrect == PoolSpec => []PoolTypeOK
<1>1. IInv => PoolTypeOK
    BY DEF IInv
<1> QED BY <1>1, InitHolds, NextKeeps, PTL DEF PoolSpec

\* static_malloc, static_realloc and the others never hand out a byte twice,
\* and whatever libcurl stored and has not given back is still in the pool.
THEOREM StoredStays == PoolSpec => []StoredIsThere
<1>1. IInv => StoredIsThere
    BY DEF IInv
<1> QED BY <1>1, InitHolds, NextKeeps, PTL DEF PoolSpec
=============================================================================
