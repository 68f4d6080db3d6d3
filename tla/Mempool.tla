------------------------------- MODULE Mempool -------------------------------
(***************************************************************************)
(* The memory pools of dp/core/mempool.c and inc/ix/mempool.h: a datastore  *)
(* of chunks behind a spin lock, and a pool per core that takes a chunk     *)
(* when its free list is empty and gives one back when it has too many.     *)
(*                                                                          *)
(* An element is its offset in the datastore's buffer.  A free list is a    *)
(* sequence of elements, its head first; a NULL list is the empty sequence. *)
(* What runs under the lock of the datastore is part of one step.           *)
(***************************************************************************)
EXTENDS Integers, Sequences, FiniteSets

CONSTANTS
  Cores,
  PGSIZE,       \* the size of a page (PGSIZE_2MB)
  NrElems, ElemLens, ChunkSizes,    \* arguments of mempool_create_datastore
  AnyOrder,     \* FALSE bounds an instance: elements are freed highest first
  NULL

(* What the constants are.                                                  *)
MempoolAssumption ==
  /\ PGSIZE \in Nat \ {0} /\ NULL \notin Nat
  /\ NrElems \subseteq Nat /\ ChunkSizes \subseteq Nat \ {0}
  /\ ElemLens \subseteq 0 .. PGSIZE
  /\ AnyOrder \in BOOLEAN

VARIABLES
  mds,      \* the datastore
  pool,     \* the pool of each core
  owned,    \* the elements that each core has allocated
  ret       \* what mempool_alloc last returned to each core

vars == <<mds, pool, owned, ret>>

NoStore == [magic |-> FALSE, chunks |-> <<>>, num_chunks |-> 0,
            free_chunks |-> 0, chunk_size |-> 1, elem_len |-> 0, nr_pages |-> 0,
            nr_elems |-> 0, nostraddle |-> FALSE]

NoPool == [magic |-> FALSE, head |-> <<>>, private_chunk |-> <<>>,
           num_free |-> 0]

Init ==
  /\ mds = NoStore
  /\ pool = [c \in Cores |-> NoPool]
  /\ owned = [c \in Cores |-> {}]
  /\ ret = [c \in Cores |-> NULL]

div_up(a, b) == (a + b - 1) \div b

(* The elements of all pages in order, cut in chunks; the last chunk made   *)
(* is the first of the list, and an incomplete one is not listed.           *)
mempool_init_buf_with_pages(elems_per_page, nr_pages, elem_len, chunk_size) ==
  LET n == (elems_per_page * nr_pages) \div chunk_size
      cur(i) == (i \div elems_per_page) * PGSIZE + (i % elems_per_page) * elem_len
  IN [k \in 1 .. n |-> [j \in 1 .. chunk_size |->
       cur((n - k) * chunk_size + j - 1)]]

(* mempool_create_datastore for objects that may straddle pages (FALSE) or  *)
(* may not (TRUE).  Failing to get memory ends the process.                 *)
mempool_create_datastore(nr_elems, elem_len, nostraddle, chunk_size) ==
  LET elems_per_page == PGSIZE \div elem_len
      nr_pages == IF nostraddle THEN div_up(nr_elems, elems_per_page)
                  ELSE (nr_elems * elem_len + PGSIZE - 1) \div PGSIZE
      packed == (nr_pages * PGSIZE) \div elem_len
      chunks == IF nostraddle
                THEN mempool_init_buf_with_pages(elems_per_page, nr_pages, elem_len,
                                                 chunk_size)
                ELSE mempool_init_buf_with_pages(packed, 1, elem_len, chunk_size)
  IN /\ ~mds.magic
     /\ nr_elems % chunk_size = 0
     /\ elem_len # 0 /\ nr_elems # 0
     /\ mds' = [magic |-> TRUE, chunks |-> chunks, num_chunks |-> Len(chunks),
                free_chunks |-> Len(chunks), chunk_size |-> chunk_size,
                elem_len |-> elem_len, nr_pages |-> nr_pages,
                nr_elems |-> IF nostraddle THEN nr_elems ELSE packed,
                nostraddle |-> nostraddle]
     /\ UNCHANGED <<pool, owned, ret>>

(* mempool_create; a second call for the same pool ends the process.        *)
mempool_create(c) ==
  /\ mds.magic /\ ~pool[c].magic
  /\ pool' = [pool EXCEPT ![c].magic = TRUE, ![c].head = <<>>]
  /\ UNCHANGED <<mds, owned, ret>>

Returns(c, h) ==
  /\ ret' = [ret EXCEPT ![c] = h]
  /\ owned' = [owned EXCEPT ![c] = @ \cup {h}]

(* The datastore's chunk taken without unlinking it.                        *)
mempool_alloc_2_keep(c) ==
  LET chunk == IF pool[c].private_chunk # <<>> THEN pool[c].private_chunk
               ELSE Head(mds.chunks)
  IN IF pool[c].private_chunk = <<>> /\ mds.chunks = <<>>
     THEN ret' = [ret EXCEPT ![c] = NULL] /\ UNCHANGED <<mds, pool, owned>>
     ELSE /\ pool' = [pool EXCEPT ![c].head = Tail(chunk),
                                  ![c].private_chunk = <<>>]
          /\ UNCHANGED mds
          /\ Returns(c, Head(chunk))

(* mempool_alloc_2: the pool's own spare chunk, or one of the datastore.    *)
(* num_free does not count the rest of the chunk.                           *)
mempool_alloc_2(c) ==
  LET chunk == IF pool[c].private_chunk # <<>> THEN pool[c].private_chunk
               ELSE Head(mds.chunks)
  IN IF pool[c].private_chunk = <<>> /\ mds.chunks = <<>>
     THEN ret' = [ret EXCEPT ![c] = NULL] /\ UNCHANGED <<mds, pool, owned>>
     ELSE /\ pool' = [pool EXCEPT ![c].head = Tail(chunk),
                                  ![c].private_chunk = <<>>]
          /\ mds' = IF pool[c].private_chunk # <<>> THEN mds
                    ELSE [mds EXCEPT !.chunks = Tail(@), !.free_chunks = @ - 1]
          /\ Returns(c, Head(chunk))

mempool_alloc(c) ==
  /\ pool[c].magic
  /\ IF pool[c].head # <<>>
     THEN /\ pool' = [pool EXCEPT ![c].head = Tail(@), ![c].num_free = @ - 1]
          /\ Returns(c, Head(pool[c].head))
          /\ UNCHANGED mds
     ELSE mempool_alloc_2(c)

(* The pool's list replaced without giving the spare chunk back.            *)
mempool_free_2_drop(c, elem) ==
  /\ pool' = [pool EXCEPT ![c].private_chunk = pool[c].head,
                          ![c].head = <<elem>>, ![c].num_free = 1]
  /\ UNCHANGED mds

(* mempool_free_2: the list becomes the spare chunk, the spare chunk goes   *)
(* to the datastore.                                                        *)
mempool_free_2(c, elem) ==
  /\ pool' = [pool EXCEPT ![c].private_chunk = pool[c].head,
                          ![c].head = <<elem>>, ![c].num_free = 1]
  /\ mds' = IF pool[c].private_chunk = <<>> THEN mds
            ELSE [mds EXCEPT !.chunks = <<pool[c].private_chunk>> \o @,
                             !.free_chunks = @ + 1]

mempool_free(c, elem) ==
  /\ owned' = [owned EXCEPT ![c] = @ \ {elem}]
  /\ IF pool[c].num_free < mds.chunk_size
     THEN /\ pool' = [pool EXCEPT ![c].head = <<elem>> \o @,
                                  ![c].num_free = @ + 1]
          /\ UNCHANGED mds
     ELSE mempool_free_2(c, elem)
  /\ UNCHANGED ret

mempool_idx_to_ptr(idx) == mds.elem_len * idx

mempool_ptr_to_idx(p) == p \div mds.elem_len

(* The elements that core c may free, to its own pool.                      *)
Freeable(c) ==
  {e \in owned[c] : AnyOrder \/ \A f \in owned[c] : f <= e}

Next ==
  \/ \E n \in NrElems, l \in ElemLens, s \in BOOLEAN, k \in ChunkSizes :
       mempool_create_datastore(n, l, s, k)
  \/ \E c \in Cores :
       \/ mempool_create(c)
       \/ mempool_alloc(c)
       \/ \E e \in Freeable(c) : mempool_free(c, e)

Spec == Init /\ [][Next]_vars

-----------------------------------------------------------------------------
(***************************************************************************)
(* The memory pools of user code, libix/mempool.c: the same algorithm as    *)
(* the kernel's, except that mempool_free_2 leaves num_free at chunk_size,  *)
(* so the next mempool_free is a second stage free again.                   *)
(***************************************************************************)
ix_mempool_init_buf_with_pages(elems_per_page, nr_pages, elem_len, chunk_size) ==
  mempool_init_buf_with_pages(elems_per_page, nr_pages, elem_len, chunk_size)

ix_mempool_create_datastore(nr_elems, elem_len, nostraddle, chunk_size) ==
  mempool_create_datastore(nr_elems, elem_len, nostraddle, chunk_size)

ix_mempool_create(c) == mempool_create(c)

ix_mempool_alloc_2(c) == mempool_alloc_2(c)

ix_mempool_alloc(c) ==
  /\ pool[c].magic
  /\ IF pool[c].head # <<>>
     THEN /\ pool' = [pool EXCEPT ![c].head = Tail(@), ![c].num_free = @ - 1]
          /\ Returns(c, Head(pool[c].head))
          /\ UNCHANGED mds
     ELSE ix_mempool_alloc_2(c)

ix_mempool_free_2(c, elem) ==
  /\ pool' = [pool EXCEPT ![c].private_chunk = pool[c].head, ![c].head = <<elem>>]
  /\ mds' = IF pool[c].private_chunk = <<>> THEN mds
            ELSE [mds EXCEPT !.chunks = <<pool[c].private_chunk>> \o @,
                             !.free_chunks = @ + 1]

ix_mempool_free(c, elem) ==
  /\ owned' = [owned EXCEPT ![c] = @ \ {elem}]
  /\ IF pool[c].num_free < mds.chunk_size
     THEN /\ pool' = [pool EXCEPT ![c].head = <<elem>> \o @,
                                  ![c].num_free = @ + 1]
          /\ UNCHANGED mds
     ELSE ix_mempool_free_2(c, elem)
  /\ UNCHANGED ret

UserNext ==
  \/ \E n \in NrElems, l \in ElemLens, s \in BOOLEAN, k \in ChunkSizes :
       ix_mempool_create_datastore(n, l, s, k)
  \/ \E c \in Cores :
       \/ ix_mempool_create(c)
       \/ ix_mempool_alloc(c)
       \/ \E e \in Freeable(c) : ix_mempool_free(c, e)

UserSpec == Init /\ [][UserNext]_vars

-----------------------------------------------------------------------------
Elem == Nat

(* The state has its type.                                                  *)
TypeOK ==
  /\ mds \in [magic : BOOLEAN, chunks : Seq(Seq(Elem)), num_chunks : Nat,
              free_chunks : Nat, chunk_size : Nat \ {0}, elem_len : Nat,
              nr_pages : Nat, nr_elems : Nat, nostraddle : BOOLEAN]
  /\ pool \in [Cores -> [magic : BOOLEAN, head : Seq(Elem),
                         private_chunk : Seq(Elem), num_free : Int]]
  /\ owned \in [Cores -> SUBSET Elem]
  /\ ret \in [Cores -> Elem \cup {NULL}]

Elems(s) == {s[i] : i \in DOMAIN s}
NoRepeat(s) == \A i, j \in DOMAIN s : s[i] = s[j] => i = j
Stored == UNION {Elems(mds.chunks[i]) : i \in DOMAIN mds.chunks}
Cached(c) == Elems(pool[c].head) \cup Elems(pool[c].private_chunk)
Everything == Stored \cup UNION {Cached(c) \cup owned[c] : c \in Cores}

(* An element is in use by one core or at one position of one free list:    *)
(* the lists that mempool_alloc_2 and mempool_free_2 move between a pool    *)
(* and the datastore never share an element.                                *)
OnePlace ==
  /\ \A i \in DOMAIN mds.chunks :
       /\ NoRepeat(mds.chunks[i])
       /\ \A j \in DOMAIN mds.chunks \ {i} :
            Elems(mds.chunks[i]) \cap Elems(mds.chunks[j]) = {}
  /\ \A c \in Cores :
       /\ NoRepeat(pool[c].head) /\ NoRepeat(pool[c].private_chunk)
       /\ Elems(pool[c].head) \cap Elems(pool[c].private_chunk) = {}
       /\ Cached(c) \cap owned[c] = {}
       /\ (Cached(c) \cup owned[c]) \cap Stored = {}
       /\ \A d \in Cores \ {c} :
            (Cached(c) \cup owned[c]) \cap (Cached(d) \cup owned[d]) = {}

(* The counters agree with the lists: free_chunks counts the datastore's    *)
(* chunks, and a pool never has fewer free elements than num_free says, so  *)
(* the list that mempool_free_2 sets aside holds at least chunk_size.       *)
CountersAgree ==
  /\ mds.free_chunks = Len(mds.chunks)
  /\ \A i \in DOMAIN mds.chunks : Len(mds.chunks[i]) >= mds.chunk_size
  /\ \A c \in Cores :
       /\ pool[c].num_free <= Len(pool[c].head)
       /\ pool[c].num_free <= mds.chunk_size
       /\ pool[c].private_chunk # <<>> =>
            Len(pool[c].private_chunk) >= mds.chunk_size

(* Elements lie inside the buffer, do not overlap, and with nostraddle none *)
(* crosses a page boundary (the doc of mempool_create_datastore).  The      *)
(* index of an element, the handle that user code gets, leads back to it.   *)
ElementsFit ==
  \A e \in Everything :
    /\ e + mds.elem_len <= mds.nr_pages * PGSIZE
    /\ mds.nostraddle => e \div PGSIZE = (e + mds.elem_len - 1) \div PGSIZE
    /\ \A f \in Everything : e < f => e + mds.elem_len <= f
    /\ ~mds.nostraddle =>
         /\ mempool_ptr_to_idx(e) < mds.nr_elems
         /\ mempool_idx_to_ptr(mempool_ptr_to_idx(e)) = e

(* mempool_create_datastore makes at least nr_elems elements (its doc), and *)
(* from then on no element is lost.                                         *)
KeepsAll ==
  IF mds.magic THEN Everything' = Everything
  ELSE \A n \in NrElems, l \in ElemLens, s \in BOOLEAN, k \in ChunkSizes :
         mempool_create_datastore(n, l, s, k) => Cardinality(Everything') >= n
NoneLost == [][KeepsAll]_vars

(* mempool_free_2 never sets an empty list aside: when num_free has reached *)
(* chunk_size the free list has an element, although num_free is neither    *)
(* reset by mempool_free_2 nor raised by mempool_alloc_2.                    *)
UserCountersAgree ==
  /\ mds.free_chunks = Len(mds.chunks)
  /\ \A c \in Cores :
       /\ pool[c].num_free <= mds.chunk_size
       /\ pool[c].num_free - Len(pool[c].head) < mds.chunk_size

(* A chunk, in the datastore or set aside by a pool, has chunk_size         *)
(* elements ("the number of elements in a chunk", dp/core/mempool.c:185).   *)
ChunksHaveChunkSize ==
  /\ \A i \in DOMAIN mds.chunks : Len(mds.chunks[i]) = mds.chunk_size
  /\ \A c \in Cores : pool[c].private_chunk # <<>> =>
       Len(pool[c].private_chunk) = mds.chunk_size

(* The pools implement MemoryPool: what is cached and shared is what the    *)
(* free lists hold.                                                         *)
Abstract == INSTANCE MemoryPool WITH
  shared <- Stored, cached <- [c \in Cores |-> Cached(c)]
PoolSpec == Abstract!Spec
=============================================================================
