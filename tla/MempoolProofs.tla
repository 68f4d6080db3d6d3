---------------------------- MODULE MempoolProofs ----------------------------
(***************************************************************************)
(* The memory pools of the kernel and of user code, for any number of       *)
(* cores, any page size and any arguments of mempool_create_datastore: they *)
(* implement MemoryPool, every element has one place, none is lost,         *)
(* elements fit their pages, and the counters agree with the lists.         *)
(*                                                                          *)
(* A step of the lists is a step of MemoryPool, and a step of MemoryPool    *)
(* keeps the sets of elements apart; what is left to show of each action is *)
(* that the lists it makes have no repetitions and that no chunk is empty.  *)
(***************************************************************************)
EXTENDS Mempool, TLAPS

(* The elements of a list of chunks, and that the chunks share none.        *)
Spread(ch) == UNION {Elems(ch[i]) : i \in DOMAIN ch}
Apart(ch) ==
  \A i \in DOMAIN ch :
    /\ NoRepeat(ch[i])
    /\ \A j \in DOMAIN ch \ {i} : Elems(ch[i]) \cap Elems(ch[j]) = {}

(* The elements of core c.                                                  *)
Own(c) == Cached(c) \cup owned[c]

(* OnePlace in two parts: what it says of lists and what it says of sets.   *)
ListsApart ==
  /\ Apart(mds.chunks)
  /\ \A c \in Cores :
       /\ NoRepeat(pool[c].head) /\ NoRepeat(pool[c].private_chunk)
       /\ Elems(pool[c].head) \cap Elems(pool[c].private_chunk) = {}
SetsApart ==
  \A c \in Cores :
    /\ Cached(c) \cap owned[c] = {}
    /\ Own(c) \cap Stored = {}
    /\ \A d \in Cores \ {c} : Own(c) \cap Own(d) = {}

(* Nothing is anywhere before mempool_create_datastore, and nothing is with *)
(* a core before mempool_create; no chunk is empty, and free_chunks counts  *)
(* them.                                                                    *)
Started ==
  /\ ~mds.magic => mds.chunks = <<>>
  /\ \A c \in Cores : ~mds.magic => ~pool[c].magic
  /\ \A c \in Cores : ~pool[c].magic =>
       pool[c].head = <<>> /\ pool[c].private_chunk = <<>> /\ owned[c] = {}
       /\ pool[c].num_free = 0
  /\ \A i \in DOMAIN mds.chunks : mds.chunks[i] # <<>>
  /\ mds.free_chunks = Len(mds.chunks)

(* What the pools of kernel and user code have in common.                   *)
PoolInv == TypeOK /\ Started /\ ListsApart /\ SetsApart /\ ElementsFit

-----------------------------------------------------------------------------
(* Lists: mempool_alloc takes the head of one, mempool_free puts an element *)
(* at its front.                                                            *)
LEMMA TailElems ==
  ASSUME NEW S, NEW s \in Seq(S), s # <<>>, NoRepeat(s)
  PROVE  /\ Head(s) \in S /\ Head(s) \in Elems(s)
         /\ Tail(s) \in Seq(S) /\ NoRepeat(Tail(s)) /\ Len(Tail(s)) = Len(s) - 1
         /\ Elems(Tail(s)) = Elems(s) \ {Head(s)}
<1>1. Len(s) \in Nat /\ Len(s) > 0 /\ DOMAIN s = 1 .. Len(s) /\ Head(s) = s[1]
  OBVIOUS
<1>2. /\ Head(s) \in S /\ Tail(s) \in Seq(S) /\ Len(Tail(s)) = Len(s) - 1
      /\ \A i \in 1 .. Len(Tail(s)) : Tail(s)[i] = s[i + 1]
  OBVIOUS
<1>3. DOMAIN Tail(s) = 1 .. Len(s) - 1
  BY <1>2
<1>4. Head(s) \in Elems(s)
  BY <1>1 DEF Elems
<1>5. NoRepeat(Tail(s))
  BY <1>1, <1>2, <1>3 DEF NoRepeat
<1>6. ASSUME NEW x PROVE x \in Elems(Tail(s)) <=> x \in Elems(s) /\ x # Head(s)
  <2>1. ASSUME NEW i \in 1 .. Len(s) - 1
        PROVE  Tail(s)[i] \in Elems(s) /\ Tail(s)[i] # Head(s)
    <3>1. i + 1 \in DOMAIN s /\ 1 \in DOMAIN s /\ i + 1 # 1
      BY <1>1
    <3>2. Tail(s)[i] = s[i + 1]
      BY Zenon, <1>2
    <3> QED
      BY Zenon, <3>1, <3>2, <1>1 DEF Elems, NoRepeat
  <2>2. ASSUME NEW i \in DOMAIN s, s[i] # Head(s) PROVE s[i] \in Elems(Tail(s))
    <3>1. i # 1 /\ i - 1 \in 1 .. Len(s) - 1 /\ (i - 1) + 1 = i
      BY <2>2, <1>1
    <3>2. Tail(s)[i - 1] = s[i]
      BY Zenon, <1>2, <3>1
    <3> QED
      BY Zenon, <3>1, <3>2, <1>3 DEF Elems
  <2> QED
    BY Zenon, <2>1, <2>2, <1>3 DEF Elems
<1>7. Elems(Tail(s)) = Elems(s) \ {Head(s)}
  BY Zenon, <1>6
<1> QED
  BY Zenon, <1>2, <1>4, <1>5, <1>7

LEMMA PushElems ==
  ASSUME NEW S, NEW s \in Seq(S), NEW x \in S
  PROVE  /\ <<x>> \o s \in Seq(S) /\ Len(<<x>> \o s) = Len(s) + 1
         /\ <<x>> \o s # <<>>
         /\ Elems(<<x>> \o s) = Elems(s) \cup {x}
         /\ NoRepeat(s) /\ x \notin Elems(s) => NoRepeat(<<x>> \o s)
<1> DEFINE t == <<x>> \o s
<1>1. <<x>> \in Seq(S) /\ Len(<<x>>) = 1 /\ <<x>>[1] = x
  OBVIOUS
<1>2. /\ t \in Seq(S) /\ Len(t) = 1 + Len(s)
      /\ \A i \in 1 .. 1 + Len(s) : t[i] = IF i <= 1 THEN <<x>>[i] ELSE s[i - 1]
  BY <1>1
<1>3. Len(s) \in Nat /\ DOMAIN s = 1 .. Len(s) /\ DOMAIN t = 1 .. Len(s) + 1
  BY <1>2
<1>4. t[1] = x /\ \A i \in 1 .. Len(s) : t[i + 1] = s[i]
  BY <1>1, <1>2, <1>3
<1>5. t # <<>> /\ Len(t) = Len(s) + 1
  BY <1>2, <1>3
<1> HIDE DEF t
<1>6. ASSUME NEW y PROVE y \in Elems(t) <=> y \in Elems(s) \/ y = x
  <2>1. ASSUME NEW i \in DOMAIN t PROVE t[i] \in Elems(s) \/ t[i] = x
    <3>1. CASE i = 1
      BY Zenon, <3>1, <1>4
    <3>2. CASE i # 1
      <4>1. i - 1 \in 1 .. Len(s) /\ (i - 1) + 1 = i
        BY <3>2, <1>3
      <4>2. t[i] = s[i - 1] /\ i - 1 \in DOMAIN s
        BY Zenon, <4>1, <1>3, <1>4
      <4> QED
        BY Zenon, <4>2 DEF Elems
    <3> QED
      BY Zenon, <3>1, <3>2
  <2>2. x \in Elems(t)
    <3>1. 1 \in DOMAIN t
      BY <1>3
    <3> QED
      BY Zenon, <3>1, <1>4 DEF Elems
  <2>3. ASSUME NEW i \in DOMAIN s PROVE s[i] \in Elems(t)
    <3>1. i + 1 \in DOMAIN t /\ t[i + 1] = s[i]
      BY <1>3, <1>4
    <3> QED
      BY Zenon, <3>1 DEF Elems
  <2> QED
    BY Zenon, <2>1, <2>2, <2>3 DEF Elems
<1>7. Elems(t) = Elems(s) \cup {x}
  BY Zenon, <1>6
<1>8. ASSUME NoRepeat(s), x \notin Elems(s) PROVE NoRepeat(t)
  <2> SUFFICES ASSUME NEW i \in DOMAIN t, NEW j \in DOMAIN t, t[i] = t[j], i # j
               PROVE  FALSE
    BY Zenon DEF NoRepeat
  <2>1. ASSUME NEW k \in DOMAIN t, k # 1
        PROVE  k - 1 \in DOMAIN s /\ t[k] = s[k - 1] /\ k - 1 \in Int
    <3>1. k - 1 \in 1 .. Len(s) /\ (k - 1) + 1 = k
      BY <2>1, <1>3
    <3> QED
      BY <3>1, <1>3, <1>4
  <2>2. ASSUME NEW k \in DOMAIN t, k # 1 PROVE t[k] # x
    BY Zenon, <2>1, <2>2, <1>8 DEF Elems
  <2>3. i # 1 /\ j # 1
    BY Zenon, <2>2, <1>4
  <2>4. i - 1 = j - 1
    BY Zenon, <2>1, <2>3, <1>8 DEF NoRepeat
  <2> QED
    BY <2>4, <1>3
<1> QED
  BY Zenon, <1>2, <1>5, <1>7, <1>8 DEF t

LEMMA SmallElems ==
  /\ Elems(<<>>) = {} /\ NoRepeat(<<>>)
  /\ \A x : Elems(<<x>>) = {x} /\ NoRepeat(<<x>>)
BY DEF Elems, NoRepeat

(* Chunks: mempool_alloc_2 takes the first chunk of the datastore and       *)
(* mempool_free_2 puts one at the front.                                    *)
LEMMA TailChunks ==
  ASSUME NEW ch \in Seq(Seq(Elem)), ch # <<>>, Apart(ch)
  PROVE  /\ Head(ch) \in Seq(Elem) /\ NoRepeat(Head(ch))
         /\ Tail(ch) \in Seq(Seq(Elem)) /\ Len(Tail(ch)) = Len(ch) - 1
         /\ Elems(Head(ch)) \subseteq Spread(ch)
         /\ Spread(Tail(ch)) = Spread(ch) \ Elems(Head(ch))
         /\ Apart(Tail(ch))
         /\ \E i \in DOMAIN ch : Head(ch) = ch[i]
         /\ \A i \in DOMAIN Tail(ch) : \E j \in DOMAIN ch : Tail(ch)[i] = ch[j]
<1>1. Len(ch) \in Nat /\ Len(ch) > 0 /\ DOMAIN ch = 1 .. Len(ch) /\ Head(ch) = ch[1]
  OBVIOUS
<1>2. /\ Head(ch) \in Seq(Elem) /\ Tail(ch) \in Seq(Seq(Elem))
      /\ Len(Tail(ch)) = Len(ch) - 1
      /\ \A i \in 1 .. Len(Tail(ch)) : Tail(ch)[i] = ch[i + 1]
  OBVIOUS
<1>3. DOMAIN Tail(ch) = 1 .. Len(ch) - 1
  BY <1>2
<1>4. 1 \in DOMAIN ch
  BY <1>1
<1>5. ASSUME NEW i \in DOMAIN Tail(ch)
      PROVE  i + 1 \in DOMAIN ch \ {1} /\ Tail(ch)[i] = ch[i + 1] /\ i \in Int
  BY <1>1, <1>2, <1>3
<1>6. ASSUME NEW j \in DOMAIN ch \ {1}
      PROVE  j - 1 \in DOMAIN Tail(ch) /\ Tail(ch)[j - 1] = ch[j]
  <2>1. j - 1 \in 1 .. Len(ch) - 1 /\ (j - 1) + 1 = j
    BY <1>1
  <2> QED
    BY Zenon, <2>1, <1>2, <1>3
<1>7. NoRepeat(Head(ch)) /\ Elems(Head(ch)) \subseteq Spread(ch)
  BY Zenon, <1>1, <1>4 DEF Apart, Spread
<1>8. ASSUME NEW x
      PROVE  x \in Spread(Tail(ch)) <=> x \in Spread(ch) /\ x \notin Elems(Head(ch))
  <2>1. ASSUME NEW i \in DOMAIN Tail(ch), x \in Elems(Tail(ch)[i])
        PROVE  x \in Spread(ch) /\ x \notin Elems(Head(ch))
    <3>1. Elems(ch[i + 1]) \cap Elems(ch[1]) = {}
      BY Zenon, <1>4, <1>5 DEF Apart
    <3> QED
      BY Zenon, <2>1, <3>1, <1>1, <1>5 DEF Spread
  <2>2. ASSUME NEW j \in DOMAIN ch, x \in Elems(ch[j]), x \notin Elems(Head(ch))
        PROVE  x \in Spread(Tail(ch))
    <3>1. j \in DOMAIN ch \ {1}
      BY Zenon, <2>2, <1>1
    <3> QED
      BY Zenon, <2>2, <3>1, <1>6 DEF Spread
  <2> QED
    BY Zenon, <2>1, <2>2 DEF Spread
<1>9. Spread(Tail(ch)) = Spread(ch) \ Elems(Head(ch))
  BY Zenon, <1>8
<1>10. Apart(Tail(ch))
  <2> SUFFICES ASSUME NEW i \in DOMAIN Tail(ch)
               PROVE  /\ NoRepeat(Tail(ch)[i])
                      /\ \A j \in DOMAIN Tail(ch) \ {i} :
                           Elems(Tail(ch)[i]) \cap Elems(Tail(ch)[j]) = {}
    BY Zenon DEF Apart
  <2>1. NoRepeat(Tail(ch)[i])
    BY Zenon, <1>5 DEF Apart
  <2>2. ASSUME NEW j \in DOMAIN Tail(ch) \ {i}
        PROVE  Elems(Tail(ch)[i]) \cap Elems(Tail(ch)[j]) = {}
    <3>1. i + 1 # j + 1
      BY <1>5
    <3> QED
      BY Zenon, <3>1, <1>5 DEF Apart
  <2> QED
    BY Zenon, <2>1, <2>2
<1>11. /\ \E i \in DOMAIN ch : Head(ch) = ch[i]
       /\ \A i \in DOMAIN Tail(ch) : \E j \in DOMAIN ch : Tail(ch)[i] = ch[j]
  BY Zenon, <1>1, <1>4, <1>5
<1> QED
  BY Zenon, <1>2, <1>7, <1>9, <1>10, <1>11

LEMMA PushChunk ==
  ASSUME NEW ch \in Seq(Seq(Elem)), NEW y \in Seq(Elem), Apart(ch), NoRepeat(y),
         Elems(y) \cap Spread(ch) = {}
  PROVE  /\ <<y>> \o ch \in Seq(Seq(Elem)) /\ Len(<<y>> \o ch) = Len(ch) + 1
         /\ Spread(<<y>> \o ch) = Spread(ch) \cup Elems(y)
         /\ Apart(<<y>> \o ch)
         /\ \A i \in DOMAIN (<<y>> \o ch) :
              (<<y>> \o ch)[i] = y \/ \E j \in DOMAIN ch : (<<y>> \o ch)[i] = ch[j]
<1> DEFINE t == <<y>> \o ch
<1>1. <<y>> \in Seq(Seq(Elem)) /\ Len(<<y>>) = 1 /\ <<y>>[1] = y
  OBVIOUS
<1>2. /\ t \in Seq(Seq(Elem)) /\ Len(t) = 1 + Len(ch)
      /\ \A i \in 1 .. 1 + Len(ch) : t[i] = IF i <= 1 THEN <<y>>[i] ELSE ch[i - 1]
  BY <1>1
<1>3. Len(ch) \in Nat /\ DOMAIN ch = 1 .. Len(ch) /\ DOMAIN t = 1 .. Len(ch) + 1
  BY <1>2
<1>4. t[1] = y /\ 1 \in DOMAIN t
  BY <1>1, <1>2, <1>3
<1>5. ASSUME NEW i \in DOMAIN t, i # 1
      PROVE  i - 1 \in DOMAIN ch /\ t[i] = ch[i - 1] /\ i \in Int
  BY <1>2, <1>3, <1>5
<1>6. ASSUME NEW j \in DOMAIN ch PROVE j + 1 \in DOMAIN t /\ t[j + 1] = ch[j]
  BY SMTT(30), <1>2, <1>3
<1>7. Len(t) = Len(ch) + 1
  BY <1>2, <1>3
<1> HIDE DEF t
<1>8. ASSUME NEW x PROVE x \in Spread(t) <=> x \in Spread(ch) \/ x \in Elems(y)
  <2>1. ASSUME NEW i \in DOMAIN t, x \in Elems(t[i])
        PROVE  x \in Spread(ch) \/ x \in Elems(y)
    BY ZenonT(60), <2>1, <1>4, <1>5 DEF Spread
  <2>2. ASSUME NEW j \in DOMAIN ch, x \in Elems(ch[j]) PROVE x \in Spread(t)
    BY Zenon, <2>2, <1>6 DEF Spread
  <2>3. ASSUME x \in Elems(y) PROVE x \in Spread(t)
    BY Zenon, <2>3, <1>4 DEF Spread
  <2> QED
    BY Zenon, <2>1, <2>2, <2>3 DEF Spread
<1>9. Spread(t) = Spread(ch) \cup Elems(y)
  BY Zenon, <1>8
<1>10. Apart(t)
  <2>1. ASSUME NEW i \in DOMAIN t, i # 1 PROVE Elems(t[i]) \cap Elems(y) = {}
    <3>1. Elems(t[i]) \subseteq Spread(ch)
      BY Zenon, <2>1, <1>5 DEF Spread
    <3> QED
      BY Zenon, <3>1
  <2>2. ASSUME NEW i \in DOMAIN t PROVE NoRepeat(t[i])
    BY Zenon, <1>4, <1>5 DEF Apart
  <2>3. ASSUME NEW i \in DOMAIN t, NEW j \in DOMAIN t \ {i}
        PROVE  Elems(t[i]) \cap Elems(t[j]) = {}
    <3>1. CASE i = 1
      BY Zenon, <3>1, <2>1, <1>4
    <3>2. CASE j = 1
      BY Zenon, <3>2, <2>1, <1>4
    <3>3. CASE i # 1 /\ j # 1
      <4>1. i - 1 # j - 1
        BY <3>3, <1>5
      <4> QED
        BY Zenon, <3>3, <4>1, <1>5 DEF Apart
    <3> QED
      BY Zenon, <3>1, <3>2, <3>3
  <2> QED
    BY Zenon, <2>2, <2>3 DEF Apart
<1>11. \A i \in DOMAIN t : t[i] = y \/ \E j \in DOMAIN ch : t[i] = ch[j]
  BY Zenon, <1>4, <1>5
<1> QED
  BY Zenon, <1>2, <1>7, <1>9, <1>10, <1>11 DEF t

-----------------------------------------------------------------------------
(* A step of core c moves elements between its lists, its hands and the     *)
(* datastore, and changes nothing of the others.                            *)
OthersKept(c) ==
  \A d \in Cores \ {c} : pool'[d] = pool[d] /\ owned'[d] = owned[d]
StoreKept ==
  /\ mds'.magic = mds.magic /\ mds'.elem_len = mds.elem_len
  /\ mds'.nr_pages = mds.nr_pages /\ mds'.nr_elems = mds.nr_elems
  /\ mds'.nostraddle = mds.nostraddle /\ mds'.chunk_size = mds.chunk_size

(* Such a step keeps the sets of elements apart, and loses none, when it    *)
(* does so for core c and the datastore.                                    *)
LEMMA LocalSets ==
  ASSUME NEW c \in Cores, SetsApart, OthersKept(c),
         Own(c)' \cup Stored' = Own(c) \cup Stored,
         Own(c)' \cap Stored' = {}, Cached(c)' \cap owned'[c] = {}
  PROVE  SetsApart' /\ Everything' = Everything
<1>1. ASSUME NEW d \in Cores \ {c}
      PROVE  Cached(d)' = Cached(d) /\ Own(d)' = Own(d) /\ owned'[d] = owned[d]
  BY Zenon DEF OthersKept, Cached, Own
<1>2. ASSUME NEW d \in Cores \ {c}
      PROVE  Own(d) \cap Own(c) = {} /\ Own(d) \cap Stored = {}
  BY Zenon DEF SetsApart
<1>3. ASSUME NEW d \in Cores \ {c}
      PROVE  Own(d)' \cap Own(c)' = {} /\ Own(d)' \cap Stored' = {}
  BY Zenon, <1>1, <1>2
<1>4. ASSUME NEW d \in Cores
      PROVE  Cached(d)' \cap owned'[d] = {} /\ Own(d)' \cap Stored' = {}
  <2>1. CASE d = c
    BY Zenon, <2>1
  <2>2. CASE d # c
    BY Zenon, <2>2, <1>1, <1>3 DEF SetsApart
  <2> QED
    BY Zenon, <2>1, <2>2
<1>5. ASSUME NEW d \in Cores, NEW e \in Cores \ {d} PROVE Own(d)' \cap Own(e)' = {}
  <2>1. CASE d = c
    BY Zenon, <2>1, <1>3
  <2>2. CASE e = c
    BY Zenon, <2>2, <1>3
  <2>3. CASE d # c /\ e # c
    <3>1. Own(d) \cap Own(e) = {}
      BY Zenon DEF SetsApart
    <3>2. Own(d)' = Own(d) /\ Own(e)' = Own(e)
      BY Zenon, <2>3, <1>1
    <3> QED
      BY Zenon, <3>1, <3>2
  <2> QED
    BY Zenon, <2>1, <2>2, <2>3
<1>6. SetsApart'
  BY Zenon, <1>4, <1>5 DEF SetsApart
<1>7. Everything = Stored \cup UNION {Own(d) : d \in Cores}
  BY Zenon DEF Everything, Own
<1>8. Everything' = Stored' \cup UNION {Own(d)' : d \in Cores}
  BY Zenon DEF Everything, Own
<1>9. ASSUME NEW x PROVE x \in Everything' <=> x \in Everything
  <2>1. x \in Own(c)' \cup Stored' <=> x \in Own(c) \cup Stored
    BY Zenon
  <2>2. x \in Everything <=> x \in Own(c) \cup Stored \/ \E d \in Cores \ {c} : x \in Own(d)
    BY Zenon, <1>7
  <2>3. x \in Everything' <=> x \in Own(c)' \cup Stored' \/ \E d \in Cores \ {c} : x \in Own(d)'
    BY Zenon, <1>8
  <2> QED
    BY Zenon, <2>1, <2>2, <2>3, <1>1
<1> QED
  BY Zenon, <1>6, <1>9

(* And it keeps the invariant, when the lists of core c and of the          *)
(* datastore have no repetitions and no chunk is empty.                     *)
LEMMA LocalStep ==
  ASSUME NEW c \in Cores, PoolInv, TypeOK', OthersKept(c), StoreKept,
         mds.magic, pool'[c].magic, Apart(mds'.chunks),
         \A i \in DOMAIN mds'.chunks : mds'.chunks[i] # <<>>,
         mds'.free_chunks = Len(mds'.chunks),
         NoRepeat(pool'[c].head), NoRepeat(pool'[c].private_chunk),
         Elems(pool'[c].head) \cap Elems(pool'[c].private_chunk) = {},
         Own(c)' \cup Stored' = Own(c) \cup Stored,
         Own(c)' \cap Stored' = {}, Cached(c)' \cap owned'[c] = {}
  PROVE  PoolInv' /\ Everything' = Everything
<1>1. SetsApart' /\ Everything' = Everything
  BY Zenon, LocalSets DEF PoolInv
<1>2. ListsApart'
  <2>1. ASSUME NEW d \in Cores
        PROVE  /\ NoRepeat(pool'[d].head) /\ NoRepeat(pool'[d].private_chunk)
               /\ Elems(pool'[d].head) \cap Elems(pool'[d].private_chunk) = {}
    <3>1. CASE d = c
      BY Zenon, <3>1
    <3>2. CASE d # c
      BY Zenon, <3>2 DEF PoolInv, ListsApart, OthersKept
    <3> QED
      BY Zenon, <3>1, <3>2
  <2>2. Apart(mds.chunks)'
    BY Zenon DEF Apart, Elems, NoRepeat
  <2>3. ASSUME NEW d \in Cores
        PROVE  /\ NoRepeat(pool[d].head)' /\ NoRepeat(pool[d].private_chunk)'
               /\ (Elems(pool[d].head) \cap Elems(pool[d].private_chunk))' = {}
    BY Zenon, <2>1 DEF Elems, NoRepeat
  <2> QED
    BY Zenon, <2>2, <2>3 DEF ListsApart
<1>3. Started'
  <2>1. ASSUME NEW d \in Cores, ~pool'[d].magic
        PROVE  pool'[d].head = <<>> /\ pool'[d].private_chunk = <<>> /\ owned'[d] = {}
               /\ pool'[d].num_free = 0
    <3>1. d \in Cores \ {c}
      BY Zenon, <2>1
    <3>2. pool'[d] = pool[d] /\ owned'[d] = owned[d]
      BY Zenon, <3>1 DEF OthersKept
    <3>3. Started
      BY Zenon DEF PoolInv
    <3> QED
      BY Zenon, <2>1, <3>2, <3>3 DEF Started
  <2>2. mds'.magic
    BY Zenon DEF StoreKept
  <2> QED
    BY Zenon, <2>1, <2>2 DEF Started
<1>4. ElementsFit'
  BY Zenon, <1>1 DEF PoolInv, ElementsFit, StoreKept, mempool_ptr_to_idx,
     mempool_idx_to_ptr
<1> QED
  BY Zenon, <1>1, <1>2, <1>3, <1>4 DEF PoolInv

(* The caches of MemoryPool change only at core c.                          *)
LEMMA CacheOf ==
  ASSUME NEW c \in Cores, NEW v, OthersKept(c), Cached(c)' = v
  PROVE  [d \in Cores |-> Cached(d)]' = [[d \in Cores |-> Cached(d)] EXCEPT ![c] = v]
<1>1. ASSUME NEW d \in Cores \ {c} PROVE Cached(d)' = Cached(d)
  BY Zenon DEF OthersKept, Cached
<1> DEFINE C(d) == Cached(d)
<1>2. \A d \in Cores : C(d)' = IF d = c THEN v ELSE C(d)
  BY Zenon, <1>1
<1> HIDE DEF C
<1>3. [d \in Cores |-> C(d)'] = [[d \in Cores |-> C(d)] EXCEPT ![c] = v]
  BY Zenon, <1>2
<1> QED
  BY Zenon, <1>3 DEF C

LEMMA StoredIs == Stored = Spread(mds.chunks) /\ Stored' = Spread(mds'.chunks)
BY Zenon DEF Stored, Spread, Elems

LEMMA CachedIs ==
  ASSUME NEW c
  PROVE  /\ Cached(c) = Elems(pool[c].head) \cup Elems(pool[c].private_chunk)
         /\ Cached(c)' = Elems(pool'[c].head) \cup Elems(pool'[c].private_chunk)
         /\ Own(c) = Cached(c) \cup owned[c] /\ Own(c)' = Cached(c)' \cup owned'[c]
BY Zenon DEF Cached, Own, Elems

(* The ways in which the lists of a pool change.                                  *)
Pools(H) == [Cores -> [magic : BOOLEAN, head : H, private_chunk : H, num_free : Int]]
HeadSet(P, c, h, n) == [P EXCEPT ![c].head = h, ![c].num_free = n]
ChunkSet(P, c, h, k) == [P EXCEPT ![c].head = h, ![c].private_chunk = k]
ListsSet(P, c, h, k) == [P EXCEPT ![c].private_chunk = k, ![c].head = h]
SwapSet(P, c, h, k, n) ==
  [P EXCEPT ![c].private_chunk = k, ![c].head = h, ![c].num_free = n]
Changed(P, Q, c, h, k, n) ==
  /\ \A d \in Cores \ {c} : Q[d] = P[d]
  /\ Q[c].magic = P[c].magic /\ Q[c].head = h
  /\ Q[c].private_chunk = k /\ Q[c].num_free = n

LEMMA HeadUpdate ==
  ASSUME NEW H, NEW P \in Pools(H), NEW c \in Cores, NEW h \in H, NEW n \in Int, NEW Q,
         Q = HeadSet(P, c, h, n)
  PROVE  Q \in Pools(H) /\ Changed(P, Q, c, h, P[c].private_chunk, n)
<1>1. \A d \in Cores \ {c} : Q[d] = P[d]
  BY Zenon DEF Pools, HeadSet
<1>2. /\ Q[c].magic = P[c].magic /\ Q[c].head = h
      /\ Q[c].private_chunk = P[c].private_chunk /\ Q[c].num_free = n
  BY Zenon DEF Pools, HeadSet
<1>3. Q \in Pools(H)
  BY Zenon DEF Pools, HeadSet
<1> QED
  BY Zenon, <1>1, <1>2, <1>3 DEF Changed

LEMMA ChunkUpdate ==
  ASSUME NEW H, NEW P \in Pools(H), NEW c \in Cores, NEW h \in H, NEW k \in H, NEW Q,
         Q = ChunkSet(P, c, h, k)
  PROVE  Q \in Pools(H) /\ Changed(P, Q, c, h, k, P[c].num_free)
<1>1. \A d \in Cores \ {c} : Q[d] = P[d]
  BY Zenon DEF Pools, ChunkSet
<1>2. /\ Q[c].magic = P[c].magic /\ Q[c].head = h
      /\ Q[c].private_chunk = k /\ Q[c].num_free = P[c].num_free
  BY Zenon DEF Pools, ChunkSet
<1>3. Q \in Pools(H)
  BY Zenon DEF Pools, ChunkSet
<1> QED
  BY Zenon, <1>1, <1>2, <1>3 DEF Changed

LEMMA ListsUpdate ==
  ASSUME NEW H, NEW P \in Pools(H), NEW c \in Cores, NEW h \in H, NEW k \in H, NEW Q,
         Q = ListsSet(P, c, h, k)
  PROVE  Q \in Pools(H) /\ Changed(P, Q, c, h, k, P[c].num_free)
<1>1. \A d \in Cores \ {c} : Q[d] = P[d]
  BY Zenon DEF Pools, ListsSet
<1>2. /\ Q[c].magic = P[c].magic /\ Q[c].head = h
      /\ Q[c].private_chunk = k /\ Q[c].num_free = P[c].num_free
  BY Zenon DEF Pools, ListsSet
<1>3. Q \in Pools(H)
  BY Zenon DEF Pools, ListsSet
<1> QED
  BY Zenon, <1>1, <1>2, <1>3 DEF Changed

LEMMA SwapUpdate ==
  ASSUME NEW H, NEW P \in Pools(H), NEW c \in Cores, NEW h \in H, NEW k \in H,
         NEW n \in Int, NEW Q,
         Q = SwapSet(P, c, h, k, n)
  PROVE  Q \in Pools(H) /\ Changed(P, Q, c, h, k, n)
<1>1. \A d \in Cores \ {c} : Q[d] = P[d]
  BY Zenon DEF Pools, SwapSet
<1>2. /\ Q[c].magic = P[c].magic /\ Q[c].head = h
      /\ Q[c].private_chunk = k /\ Q[c].num_free = n
  BY Zenon DEF Pools, SwapSet
<1>3. Q \in Pools(H)
  BY ZenonT(60) DEF Pools, SwapSet
<1> QED
  BY Zenon, <1>1, <1>2, <1>3 DEF Changed

(* mempool_alloc, the list is not empty: the head of the list moves to the  *)
(* hands of the core.                                                       *)
LEMMA AllocHead ==
  ASSUME NEW c \in Cores, PoolInv, pool[c].magic, pool[c].head # <<>>,
         pool' = [pool EXCEPT ![c].head = Tail(@), ![c].num_free = @ - 1],
         Returns(c, Head(pool[c].head)), mds' = mds
  PROVE  PoolInv' /\ Everything' = Everything /\ Abstract!Alloc(c)
<1> DEFINE hd == pool[c].head
           pc == pool[c].private_chunk
           x == Head(pool[c].head)
<1>1. TypeOK /\ Started /\ ListsApart /\ SetsApart
  BY Zenon DEF PoolInv
<1>2. /\ hd \in Seq(Elem) /\ pc \in Seq(Elem) /\ pool[c].num_free \in Int
      /\ owned \in [Cores -> SUBSET Elem] /\ ret \in [Cores -> Elem \cup {NULL}]
  BY Zenon, <1>1 DEF TypeOK
<1>3. NoRepeat(hd) /\ NoRepeat(pc) /\ Elems(hd) \cap Elems(pc) = {}
  BY Zenon, <1>1 DEF ListsApart
<1>4. /\ x \in Elem /\ x \in Elems(hd) /\ Tail(hd) \in Seq(Elem)
      /\ NoRepeat(Tail(hd)) /\ Elems(Tail(hd)) = Elems(hd) \ {x}
  BY Zenon, <1>2, <1>3, TailElems
<1>5. /\ pool'[c].magic = pool[c].magic /\ pool'[c].head = Tail(hd)
      /\ pool'[c].private_chunk = pc
      /\ \A d \in Cores \ {c} : pool'[d] = pool[d]
      /\ pool' \in [Cores -> [magic : BOOLEAN, head : Seq(Elem),
                              private_chunk : Seq(Elem), num_free : Int]]
  <2>1. pool \in Pools(Seq(Elem))
    BY Zenon, <1>1 DEF TypeOK, Pools
  <2>2. pool[c].num_free - 1 \in Int
    BY <1>2
  <2>3. pool' = HeadSet(pool, c, Tail(hd), pool[c].num_free - 1)
    BY Zenon DEF HeadSet
  <2> HIDE DEF hd
  <2>4. pool' \in Pools(Seq(Elem)) /\ Changed(pool, pool', c, Tail(hd), pool[c].private_chunk,
                                            pool[c].num_free - 1)
    BY Zenon, <1>4, <2>1, <2>2, <2>3, HeadUpdate
  <2> QED
    BY Zenon, <2>4 DEF Pools, Changed
<1>6. /\ owned' = [owned EXCEPT ![c] = @ \cup {x}] /\ ret' = [ret EXCEPT ![c] = x]
  BY Zenon DEF Returns
<1> HIDE DEF x, hd, pc
<1>7. /\ owned'[c] = owned[c] \cup {x} /\ \A d \in Cores \ {c} : owned'[d] = owned[d]
      /\ owned' \in [Cores -> SUBSET Elem] /\ ret' \in [Cores -> Elem \cup {NULL}]
  BY Zenon, <1>2, <1>4, <1>6
<1>8. TypeOK' /\ OthersKept(c) /\ StoreKept
  BY Zenon, <1>1, <1>5, <1>7 DEF TypeOK, OthersKept, StoreKept
<1>9. /\ Cached(c) = Elems(hd) \cup Elems(pc) /\ Cached(c)' = (Elems(hd) \ {x}) \cup Elems(pc)
      /\ Own(c) = Cached(c) \cup owned[c] /\ Own(c)' = Cached(c)' \cup owned'[c]
  BY Zenon, CachedIs, <1>4, <1>5 DEF hd, pc
<1>10. Stored' = Stored
  BY Zenon, StoredIs
<1>11. x \notin owned[c] /\ Own(c) \cap Stored = {} /\ Cached(c) \cap owned[c] = {}
  BY Zenon, <1>1, <1>4, <1>9 DEF SetsApart
<1>12. x \notin Elems(pc) /\ x \in Cached(c)
  BY Zenon, <1>3, <1>4, <1>9
<1>13. Cached(c)' = (Cached(c) \cup {}) \ {x}
  BY Zenon, <1>9, <1>12
<1>14. Own(c)' = Own(c)
  BY ZenonT(60), <1>13, <1>9, <1>7, <1>12
<1>15. Cached(c)' \cap owned'[c] = {}
  BY Zenon, <1>13, <1>7, <1>11
<1>16. /\ mds.magic /\ Apart(mds'.chunks) /\ mds'.free_chunks = Len(mds'.chunks)
       /\ \A i \in DOMAIN mds'.chunks : mds'.chunks[i] # <<>>
  BY Zenon, <1>1 DEF Started, ListsApart
<1>17. /\ NoRepeat(pool'[c].head) /\ NoRepeat(pool'[c].private_chunk)
       /\ Elems(pool'[c].head) \cap Elems(pool'[c].private_chunk) = {}
  BY Zenon, <1>3, <1>4, <1>5
<1>18. PoolInv' /\ Everything' = Everything
  BY Zenon, <1>5, <1>8, <1>10, <1>11, <1>14, <1>15, <1>16, <1>17, LocalStep
<1>19. Abstract!Alloc(c)
  <2>1. [d \in Cores |-> Cached(d)]'
          = [[d \in Cores |-> Cached(d)] EXCEPT ![c] = (Cached(c) \cup {}) \ {x}]
    BY Zenon, <1>8, <1>13, CacheOf
  <2>2. Stored' = Stored \ {}
    BY Zenon, <1>10
  <2>3. [d \in Cores |-> Cached(d)][c] = Cached(c)
    BY Zenon
  <2> QED
    BY Zenon, <2>1, <2>2, <2>3, <1>6, <1>12 DEF Abstract!Alloc
<1> QED
  BY Zenon, <1>18, <1>19

(* mempool_alloc_2, a chunk y is found, in the pool or at the head of the   *)
(* datastore's list: its first element is returned, the rest is the list.   *)
LEMMA AllocChunk ==
  ASSUME NEW c \in Cores, PoolInv, pool[c].magic, pool[c].head = <<>>,
         NEW y \in Seq(Elem), y # <<>>, NoRepeat(y),
         NEW moved \in SUBSET Stored, Elems(y) = Elems(pool[c].private_chunk) \cup moved,
         Stored' = Stored \ moved,
         pool' = [pool EXCEPT ![c].head = Tail(y), ![c].private_chunk = <<>>],
         Returns(c, Head(y)),
         mds' \in [magic : BOOLEAN, chunks : Seq(Seq(Elem)), num_chunks : Nat,
                   free_chunks : Nat, chunk_size : Nat \ {0}, elem_len : Nat,
                   nr_pages : Nat, nr_elems : Nat, nostraddle : BOOLEAN],
         StoreKept, Apart(mds'.chunks), mds'.free_chunks = Len(mds'.chunks),
         \A i \in DOMAIN mds'.chunks : mds'.chunks[i] # <<>>
  PROVE  PoolInv' /\ Everything' = Everything /\ Abstract!Alloc(c)
<1> DEFINE pc == pool[c].private_chunk
           x == Head(y)
<1>1. TypeOK /\ Started /\ ListsApart /\ SetsApart
  BY Zenon DEF PoolInv
<1>2. /\ owned \in [Cores -> SUBSET Elem] /\ ret \in [Cores -> Elem \cup {NULL}]
      /\ pool \in Pools(Seq(Elem)) /\ <<>> \in Seq(Elem)
  <2>1. <<>> \in Seq(Elem)
    OBVIOUS
  <2> QED
    BY Zenon, <1>1, <2>1 DEF TypeOK, Pools
<1>3. /\ x \in Elem /\ x \in Elems(y) /\ Tail(y) \in Seq(Elem)
      /\ NoRepeat(Tail(y)) /\ Elems(Tail(y)) = Elems(y) \ {x}
  BY Zenon, TailElems
<1>4. Elems(<<>>) = {} /\ NoRepeat(<<>>)
  BY Zenon, SmallElems
<1>5. /\ pool'[c].magic = pool[c].magic /\ pool'[c].head = Tail(y)
      /\ pool'[c].private_chunk = <<>>
      /\ \A d \in Cores \ {c} : pool'[d] = pool[d]
      /\ pool' \in [Cores -> [magic : BOOLEAN, head : Seq(Elem),
                              private_chunk : Seq(Elem), num_free : Int]]
  <2>1. pool' = ChunkSet(pool, c, Tail(y), <<>>)
    BY Zenon DEF ChunkSet
  <2>2. pool' \in Pools(Seq(Elem))
        /\ Changed(pool, pool', c, Tail(y), <<>>, pool[c].num_free)
    BY Zenon, <1>2, <1>3, <2>1, ChunkUpdate
  <2> QED
    BY Zenon, <2>2 DEF Pools, Changed
<1>6. /\ owned' = [owned EXCEPT ![c] = @ \cup {x}] /\ ret' = [ret EXCEPT ![c] = x]
  BY Zenon DEF Returns
<1> HIDE DEF x, pc
<1>7. /\ owned'[c] = owned[c] \cup {x} /\ \A d \in Cores \ {c} : owned'[d] = owned[d]
      /\ owned' \in [Cores -> SUBSET Elem] /\ ret' \in [Cores -> Elem \cup {NULL}]
  BY Zenon, <1>2, <1>3, <1>6
<1>8. TypeOK' /\ OthersKept(c)
  BY Zenon, <1>5, <1>7 DEF TypeOK, OthersKept
<1>9. /\ Cached(c) = Elems(pc) /\ Cached(c)' = Elems(y) \ {x}
      /\ Own(c) = Cached(c) \cup owned[c] /\ Own(c)' = Cached(c)' \cup owned'[c]
  <2>1. /\ Cached(c) = Elems(pool[c].head) \cup Elems(pc)
        /\ Cached(c)' = Elems(pool'[c].head) \cup Elems(pool'[c].private_chunk)
    BY Zenon, CachedIs DEF pc
  <2>2. Elems(pool'[c].private_chunk) = {} /\ Elems(pool[c].head) = {}
    BY Zenon, <1>4, <1>5
  <2>3. Elems(pool'[c].head) = Elems(y) \ {x}
    BY Zenon, <1>3, <1>5
  <2>4. Cached(c) = Elems(pc)
    BY Zenon, <2>1, <2>2
  <2>5. Cached(c)' = Elems(y) \ {x}
    BY Zenon, <2>1, <2>2, <2>3
  <2> QED
    BY Zenon, CachedIs, <2>4, <2>5
<1>10. Elems(y) = Cached(c) \cup moved
  BY Zenon, <1>9 DEF pc
<1>11. Own(c) \cap Stored = {} /\ Cached(c) \cap owned[c] = {}
  BY Zenon, <1>1 DEF SetsApart
<1>12. x \in Cached(c) \cup moved /\ Cached(c)' = (Cached(c) \cup moved) \ {x}
  BY Zenon, <1>3, <1>9, <1>10
<1>13. x \notin owned[c] /\ owned[c] \cap moved = {} /\ owned[c] \cap Stored = {}
       /\ Cached(c) \cap Stored = {}
  BY Zenon, <1>11, <1>12, <1>9
<1>14. Own(c)' = Own(c) \cup moved
  BY Zenon, <1>7, <1>9, <1>12
<1>15. Own(c)' \cup Stored' = Own(c) \cup Stored
  BY Zenon, <1>14
<1>16. Own(c)' \cap Stored' = {}
  BY Zenon, <1>14, <1>11
<1>17. Cached(c)' \cap owned'[c] = {}
  BY Zenon, <1>7, <1>11, <1>12, <1>13
<1>18. mds.magic
  BY Zenon, <1>1 DEF Started
<1>19. /\ NoRepeat(pool'[c].head) /\ NoRepeat(pool'[c].private_chunk)
       /\ Elems(pool'[c].head) \cap Elems(pool'[c].private_chunk) = {}
  BY Zenon, <1>3, <1>4, <1>5
<1>20. PoolInv' /\ Everything' = Everything
  BY Zenon, <1>5, <1>8, <1>15, <1>16, <1>17, <1>18, <1>19, LocalStep
<1>21. Abstract!Alloc(c)
  <2>1. [d \in Cores |-> Cached(d)]'
          = [[d \in Cores |-> Cached(d)] EXCEPT ![c] = (Cached(c) \cup moved) \ {x}]
    BY Zenon, <1>8, <1>12, CacheOf
  <2>2. [d \in Cores |-> Cached(d)][c] = Cached(c)
    BY Zenon
  <2> QED
    BY Zenon, <2>1, <2>2, <1>6, <1>12 DEF Abstract!Alloc
<1> QED
  BY Zenon, <1>20, <1>21

Stores == [magic : BOOLEAN, chunks : Seq(Seq(Elem)), num_chunks : Nat,
           free_chunks : Nat, chunk_size : Nat \ {0}, elem_len : Nat,
           nr_pages : Nat, nr_elems : Nat, nostraddle : BOOLEAN]

(* A change of the datastore's list and its counter.                        *)
LEMMA StoreUpdate ==
  ASSUME NEW ch \in Seq(Seq(Elem)), NEW n \in Nat, mds \in Stores,
         mds' = [mds EXCEPT !.chunks = ch, !.free_chunks = n]
  PROVE  mds' \in Stores /\ StoreKept /\ mds'.chunks = ch /\ mds'.free_chunks = n
<1>1. mds'.chunks = ch /\ mds'.free_chunks = n
  BY Zenon DEF Stores
<1>2. StoreKept
  BY Zenon DEF Stores, StoreKept
<1>3. mds' \in Stores
  <2> DEFINE SS == Seq(Seq(Elem))
  <2> HIDE DEF SS
  <2>1. mds \in [magic : BOOLEAN, chunks : SS, num_chunks : Nat,
           free_chunks : Nat, chunk_size : Nat \ {0}, elem_len : Nat,
           nr_pages : Nat, nr_elems : Nat, nostraddle : BOOLEAN] /\ ch \in SS
    BY Zenon DEF SS, Stores
  <2>2. mds' \in [magic : BOOLEAN, chunks : SS, num_chunks : Nat,
           free_chunks : Nat, chunk_size : Nat \ {0}, elem_len : Nat,
           nr_pages : Nat, nr_elems : Nat, nostraddle : BOOLEAN]
    BY Zenon, <2>1
  <2> QED
    BY Zenon, <2>2 DEF SS, Stores
<1> QED
  BY Zenon, <1>1, <1>2, <1>3

(* mempool_alloc_2 takes the spare chunk, or the first of the datastore,    *)
(* and fails only when nothing is left to the core.                         *)
LEMMA Alloc2 ==
  ASSUME NEW c \in Cores, PoolInv, pool[c].magic, pool[c].head = <<>>, mempool_alloc_2(c)
  PROVE  /\ PoolInv' /\ Everything' = Everything
         /\ Abstract!Alloc(c) \/ Abstract!Refuse(c)
<1> DEFINE pc == pool[c].private_chunk
<1>1. TypeOK /\ Started /\ ListsApart
  BY Zenon DEF PoolInv
<1>2. /\ mds \in Stores /\ pc \in Seq(Elem) /\ mds.chunks \in Seq(Seq(Elem))
  BY Zenon, <1>1 DEF TypeOK, Stores
<1>3. CASE pc = <<>> /\ mds.chunks = <<>>
  <2>1. ret' = [ret EXCEPT ![c] = NULL] /\ UNCHANGED <<mds, pool, owned>>
    BY Zenon, <1>3 DEF mempool_alloc_2
  <2>2. ret' \in [Cores -> Elem \cup {NULL}]
    BY Zenon, <1>1, <2>1 DEF TypeOK
  <2>3. TypeOK'
    BY Zenon, <1>1, <2>1, <2>2 DEF TypeOK
  <2>4. \A d \in Cores : Cached(d)' = Cached(d) /\ Own(d)' = Own(d)
    BY Zenon, <2>1 DEF Cached, Own
  <2>5. Stored' = Stored /\ Everything' = Everything
    BY Zenon, <2>1 DEF Stored, Everything, Cached
  <2>6. OthersKept(c) /\ StoreKept
    BY Zenon, <2>1 DEF OthersKept, StoreKept
  <2>7. /\ mds.magic /\ Apart(mds'.chunks) /\ mds'.free_chunks = Len(mds'.chunks)
        /\ \A i \in DOMAIN mds'.chunks : mds'.chunks[i] # <<>>
    BY Zenon, <1>1, <2>1 DEF Started, ListsApart
  <2>8. /\ pool'[c].magic /\ NoRepeat(pool'[c].head) /\ NoRepeat(pool'[c].private_chunk)
        /\ Elems(pool'[c].head) \cap Elems(pool'[c].private_chunk) = {}
    BY Zenon, <1>1, <2>1 DEF ListsApart
  <2>9. PoolInv'
    <3>1. Own(c)' \cap Stored' = {} /\ Cached(c)' \cap owned'[c] = {}
      BY Zenon, <2>1, <2>4, <2>5 DEF PoolInv, SetsApart
    <3>2. Own(c)' \cup Stored' = Own(c) \cup Stored
      BY Zenon, <2>4, <2>5
    <3> QED
      BY Zenon, <2>3, <2>6, <2>7, <2>8, <3>1, <3>2, LocalStep
  <2>10. Elems(<<>>) = {}
    BY Zenon, SmallElems
  <2>11. Cached(c) = {}
    BY Zenon, <1>3, <2>10, CachedIs
  <2>12. Stored = {}
    BY <1>3 DEF Stored
  <2>13. [d \in Cores |-> Cached(d)]' = [d \in Cores |-> Cached(d)]
    BY Zenon, <2>4
  <2>14. [d \in Cores |-> Cached(d)][c] = {}
    BY Zenon, <2>11
  <2>15. Abstract!Refuse(c)
    BY Zenon, <2>1, <2>5, <2>12, <2>13, <2>14 DEF Abstract!Refuse
  <2> QED
    BY Zenon, <2>5, <2>9, <2>15
<1>4. CASE pc # <<>>
  <2>1. /\ pool' = [pool EXCEPT ![c].head = Tail(pc), ![c].private_chunk = <<>>]
        /\ mds' = mds /\ Returns(c, Head(pc))
    BY Zenon, <1>4 DEF mempool_alloc_2
  <2>2. NoRepeat(pc) /\ Apart(mds.chunks)
    BY Zenon, <1>1 DEF ListsApart
  <2>3. {} \in SUBSET Stored /\ Elems(pc) = Elems(pc) \cup {} /\ Stored' = Stored \ {}
    BY Zenon, <2>1, StoredIs
  <2>4. mds' \in Stores /\ StoreKept /\ Apart(mds'.chunks)
        /\ mds'.free_chunks = Len(mds'.chunks)
        /\ \A i \in DOMAIN mds'.chunks : mds'.chunks[i] # <<>>
    BY Zenon, <1>1, <1>2, <2>1, <2>2 DEF StoreKept, Started
  <2> HIDE DEF pc
  <2>5. PoolInv' /\ Everything' = Everything /\ Abstract!Alloc(c)
    BY ZenonT(60), <1>2, <1>4, <2>1, <2>2, <2>3, <2>4, AllocChunk DEF Stores, pc
  <2> QED
    BY Zenon, <2>5
<1>5. CASE pc = <<>> /\ mds.chunks # <<>>
  <2> DEFINE y == Head(mds.chunks)
             ch == Tail(mds.chunks)
  <2>1. /\ pool' = [pool EXCEPT ![c].head = Tail(y), ![c].private_chunk = <<>>]
        /\ mds' = [mds EXCEPT !.chunks = Tail(@), !.free_chunks = @ - 1]
        /\ Returns(c, Head(y))
    BY Zenon, <1>5 DEF mempool_alloc_2
  <2>2. Apart(mds.chunks)
    BY Zenon, <1>1 DEF ListsApart
  <2>3. /\ y \in Seq(Elem) /\ NoRepeat(y)
        /\ ch \in Seq(Seq(Elem)) /\ Len(ch) = Len(mds.chunks) - 1
        /\ Elems(y) \subseteq Spread(mds.chunks)
        /\ Spread(ch) = Spread(mds.chunks) \ Elems(y)
        /\ Apart(ch)
        /\ \E i \in DOMAIN mds.chunks : y = mds.chunks[i]
        /\ \A i \in DOMAIN ch : \E j \in DOMAIN mds.chunks : ch[i] = mds.chunks[j]
    BY ZenonT(60), <1>2, <1>5, <2>2, TailChunks
  <2>4. mds.free_chunks = Len(mds.chunks) /\ \A i \in DOMAIN mds.chunks : mds.chunks[i] # <<>>
    BY Zenon, <1>1 DEF Started
  <2>5. y # <<>> /\ \A i \in DOMAIN ch : ch[i] # <<>>
    BY Zenon, <2>3, <2>4
  <2>6. mds.free_chunks - 1 \in Nat /\ mds.free_chunks - 1 = Len(ch)
    BY SMTT(30), <2>3, <2>4
  <2>7. mds' = [mds EXCEPT !.chunks = ch, !.free_chunks = mds.free_chunks - 1]
    BY Zenon, <1>2, <2>1 DEF Stores
  <2> HIDE DEF y, ch, pc
  <2>8. mds' \in Stores /\ StoreKept /\ mds'.chunks = ch /\ mds'.free_chunks = Len(ch)
    BY Zenon, <1>2, <2>3, <2>6, <2>7, StoreUpdate
  <2>9. /\ Elems(y) \in SUBSET Stored /\ Stored' = Stored \ Elems(y)
    BY Zenon, <2>3, <2>8, StoredIs
  <2>10. Elems(y) = Elems(pool[c].private_chunk) \cup Elems(y)
    <3>1. Elems(<<>>) = {}
      BY Zenon, SmallElems
    <3>2. Elems(pool[c].private_chunk) = {}
      BY Zenon, <3>1, <1>5 DEF pc
    <3> QED
      BY Zenon, <3>2
  <2>11. /\ Apart(mds'.chunks) /\ mds'.free_chunks = Len(mds'.chunks)
         /\ \A i \in DOMAIN mds'.chunks : mds'.chunks[i] # <<>>
    BY Zenon, <2>3, <2>5, <2>8
  <2>12. PoolInv' /\ Everything' = Everything /\ Abstract!Alloc(c)
    BY Zenon, <2>1, <2>3, <2>5, <2>8, <2>9, <2>10, <2>11, AllocChunk DEF Stores
  <2> QED
    BY Zenon, <2>12
<1> QED
  BY Zenon, <1>3, <1>4, <1>5

(* mempool_free: core c gives elem back and has now the list h and the      *)
(* spare chunk k; the elements of moved go to the datastore.                *)
LEMMA FreeElem ==
  ASSUME NEW c \in Cores, PoolInv, NEW elem \in owned[c],
         NEW h \in Seq(Elem), NEW k \in Seq(Elem), NEW n \in Int,
         pool' \in Pools(Seq(Elem)), Changed(pool, pool', c, h, k, n),
         owned' = [owned EXCEPT ![c] = @ \ {elem}], ret' = ret,
         NoRepeat(h), NoRepeat(k), Elems(h) \cap Elems(k) = {},
         NEW moved \in SUBSET Cached(c),
         Elems(h) \cup Elems(k) = (Cached(c) \ moved) \cup {elem},
         Stored' = Stored \cup moved,
         mds' \in Stores, StoreKept, Apart(mds'.chunks),
         mds'.free_chunks = Len(mds'.chunks),
         \A i \in DOMAIN mds'.chunks : mds'.chunks[i] # <<>>
  PROVE  PoolInv' /\ Everything' = Everything /\ Abstract!Free(c)
<1>1. TypeOK /\ Started /\ SetsApart
  BY Zenon DEF PoolInv
<1>2. owned \in [Cores -> SUBSET Elem] /\ ret \in [Cores -> Elem \cup {NULL}]
  BY Zenon, <1>1 DEF TypeOK
<1>3. /\ pool'[c].magic = pool[c].magic /\ pool'[c].head = h
      /\ pool'[c].private_chunk = k /\ \A d \in Cores \ {c} : pool'[d] = pool[d]
  BY Zenon DEF Changed
<1>4. /\ owned'[c] = owned[c] \ {elem} /\ \A d \in Cores \ {c} : owned'[d] = owned[d]
      /\ owned' \in [Cores -> SUBSET Elem]
  BY Zenon, <1>2
<1>5. TypeOK' /\ OthersKept(c)
  BY Zenon, <1>1, <1>3, <1>4 DEF TypeOK, OthersKept, Stores, Pools
<1>6. pool[c].magic /\ mds.magic
  BY Zenon, <1>1 DEF Started
<1>7. /\ Cached(c)' = (Cached(c) \ moved) \cup {elem}
      /\ Own(c) = Cached(c) \cup owned[c] /\ Own(c)' = Cached(c)' \cup owned'[c]
  BY Zenon, CachedIs, <1>3
<1>8. Own(c) \cap Stored = {} /\ Cached(c) \cap owned[c] = {}
  BY Zenon, <1>1 DEF SetsApart
<1>9. Own(c)' = Own(c) \ moved
  <2>1. moved \cap owned[c] = {}
    BY Zenon, <1>8
  <2> QED
    BY ZenonT(60), <1>4, <1>7, <2>1
<1>10. Own(c)' \cup Stored' = Own(c) \cup Stored
  BY Zenon, <1>7, <1>9
<1>11. Own(c)' \cap Stored' = {}
  BY Zenon, <1>8, <1>9
<1>12. Cached(c)' \cap owned'[c] = {}
  BY Zenon, <1>4, <1>7, <1>8
<1>13. PoolInv' /\ Everything' = Everything
  BY Zenon, <1>3, <1>5, <1>6, <1>10, <1>11, <1>12, LocalStep
<1>14. Abstract!Free(c)
  <2>1. [d \in Cores |-> Cached(d)]'
          = [[d \in Cores |-> Cached(d)] EXCEPT ![c] = (Cached(c) \ moved) \cup {elem}]
    BY Zenon, <1>5, <1>7, CacheOf
  <2>2. [d \in Cores |-> Cached(d)][c] = Cached(c)
    BY Zenon
  <2>3. elem \notin Cached(c)
    BY Zenon, <1>8
  <2> QED
    BY Zenon, <2>1, <2>2, <2>3 DEF Abstract!Free
<1> QED
  BY Zenon, <1>13, <1>14

(* mempool_free, the list is not full: elem goes to the front of the list.  *)
LEMMA FreePush ==
  ASSUME NEW c \in Cores, PoolInv, NEW elem \in owned[c],
         pool' = HeadSet(pool, c, <<elem>> \o pool[c].head, pool[c].num_free + 1),
         owned' = [owned EXCEPT ![c] = @ \ {elem}], ret' = ret, mds' = mds
  PROVE  PoolInv' /\ Everything' = Everything /\ Abstract!Free(c)
<1> DEFINE hd == pool[c].head
           pc == pool[c].private_chunk
           h == <<elem>> \o hd
<1>1. TypeOK /\ Started /\ ListsApart /\ SetsApart
  BY Zenon DEF PoolInv
<1>2. /\ hd \in Seq(Elem) /\ pc \in Seq(Elem) /\ pool[c].num_free + 1 \in Int
      /\ elem \in Elem /\ pool \in Pools(Seq(Elem)) /\ mds \in Stores
  <2>1. pool \in Pools(Seq(Elem)) /\ mds \in Stores
    BY Zenon, <1>1 DEF TypeOK, Pools, Stores
  <2>2. elem \in Elem
    BY Zenon, <1>1 DEF TypeOK
  <2>3. hd \in Seq(Elem) /\ pc \in Seq(Elem) /\ pool[c].num_free \in Int
    BY Zenon, <2>1 DEF Pools
  <2>4. pool[c].num_free + 1 \in Int
    BY <2>3
  <2> QED
    BY Zenon, <2>1, <2>2, <2>3, <2>4
<1>3. /\ NoRepeat(hd) /\ NoRepeat(pc) /\ Elems(hd) \cap Elems(pc) = {}
      /\ Apart(mds.chunks)
  BY Zenon, <1>1 DEF ListsApart
<1>4. elem \notin Elems(hd) /\ elem \notin Elems(pc)
      /\ Cached(c) = Elems(hd) \cup Elems(pc)
  <2>1. Cached(c) \cap owned[c] = {}
    BY Zenon, <1>1 DEF SetsApart
  <2> QED
    BY Zenon, <2>1, CachedIs
<1> HIDE DEF hd, pc
<1>5. h \in Seq(Elem) /\ NoRepeat(h) /\ Elems(h) = Elems(hd) \cup {elem}
  <2>1. /\ h \in Seq(Elem) /\ Elems(h) = Elems(hd) \cup {elem}
        /\ NoRepeat(hd) /\ elem \notin Elems(hd) => NoRepeat(h)
    <3>1. elem \in Elem /\ hd \in Seq(Elem)
      BY Zenon, <1>2
    <3> QED
      BY <3>1, PushElems
  <2> QED
    BY Zenon, <2>1, <1>3, <1>4
<1>6. pool' = HeadSet(pool, c, h, pool[c].num_free + 1)
  BY Zenon DEF hd
<1> HIDE DEF h
<1>7. pool' \in Pools(Seq(Elem)) /\ Changed(pool, pool', c, h, pc, pool[c].num_free + 1)
  <2> DEFINE n == pool[c].num_free + 1
  <2>1. n \in Int /\ pool' = HeadSet(pool, c, h, n)
    BY Zenon, <1>2, <1>6
  <2> HIDE DEF n
  <2>2. Changed(pool, pool', c, h, pool[c].private_chunk, n) /\ pool' \in Pools(Seq(Elem))
    BY Zenon, <1>2, <1>5, <2>1, HeadUpdate
  <2> QED
    BY Zenon, <2>2 DEF n, pc
<1>8. Elems(h) \cap Elems(pc) = {}
  BY Zenon, <1>3, <1>4, <1>5
<1>9. /\ {} \in SUBSET Cached(c) /\ Stored' = Stored \cup {}
      /\ Elems(h) \cup Elems(pc) = (Cached(c) \ {}) \cup {elem}
  BY Zenon, <1>4, <1>5, StoredIs
<1>10. /\ mds' \in Stores /\ StoreKept /\ Apart(mds'.chunks)
       /\ mds'.free_chunks = Len(mds'.chunks)
       /\ \A i \in DOMAIN mds'.chunks : mds'.chunks[i] # <<>>
  BY Zenon, <1>1, <1>2, <1>3 DEF StoreKept, Started
<1> QED
  BY Zenon, <1>2, <1>3, <1>5, <1>7, <1>8, <1>9, <1>10, FreeElem

(* mempool_free_2: the list becomes the spare chunk and the spare chunk     *)
(* goes to the front of the datastore's list.                               *)
LEMMA Free2 ==
  ASSUME NEW c \in Cores, PoolInv, NEW elem \in owned[c], NEW n \in Int,
         pool' \in Pools(Seq(Elem)), Changed(pool, pool', c, <<elem>>, pool[c].head, n),
         owned' = [owned EXCEPT ![c] = @ \ {elem}], ret' = ret,
         mds' = IF pool[c].private_chunk = <<>> THEN mds
                ELSE [mds EXCEPT !.chunks = <<pool[c].private_chunk>> \o @,
                                 !.free_chunks = @ + 1]
  PROVE  PoolInv' /\ Everything' = Everything /\ Abstract!Free(c)
<1> DEFINE hd == pool[c].head
           pc == pool[c].private_chunk
           h == <<elem>>
<1>1. TypeOK /\ Started /\ ListsApart /\ SetsApart
  BY Zenon DEF PoolInv
<1>2. /\ hd \in Seq(Elem) /\ pc \in Seq(Elem) /\ h \in Seq(Elem)
      /\ mds \in Stores /\ mds.chunks \in Seq(Seq(Elem)) /\ mds.free_chunks \in Nat
  BY SMTT(30), <1>1 DEF TypeOK, Stores
<1>3. /\ NoRepeat(hd) /\ NoRepeat(pc) /\ Elems(hd) \cap Elems(pc) = {}
      /\ Apart(mds.chunks)
  BY Zenon, <1>1 DEF ListsApart
<1>4. /\ elem \notin Elems(hd) /\ elem \notin Elems(pc)
      /\ Cached(c) = Elems(hd) \cup Elems(pc) /\ Cached(c) \cap Stored = {}
  <2>1. Cached(c) \cap owned[c] = {} /\ Own(c) \cap Stored = {}
    BY Zenon, <1>1 DEF SetsApart
  <2>2. Cached(c) = Elems(hd) \cup Elems(pc) /\ Own(c) = Cached(c) \cup owned[c]
    BY Zenon, CachedIs
  <2> QED
    BY Zenon, <2>1, <2>2
<1>5. NoRepeat(h) /\ Elems(h) = {elem}
  BY Zenon, SmallElems
<1> HIDE DEF hd, pc, h
<1>6. /\ Elems(h) \cap Elems(hd) = {} /\ Elems(pc) \in SUBSET Cached(c)
  BY Zenon, <1>4, <1>5
<1>7. Elems(h) \cup Elems(hd) = (Cached(c) \ Elems(pc)) \cup {elem}
  BY Zenon, <1>3, <1>4, <1>5
<1>8. /\ mds' \in Stores /\ StoreKept /\ Apart(mds'.chunks)
      /\ mds'.free_chunks = Len(mds'.chunks)
      /\ \A i \in DOMAIN mds'.chunks : mds'.chunks[i] # <<>>
      /\ Stored' = Stored \cup Elems(pc)
  <2>1. mds.free_chunks = Len(mds.chunks) /\ \A i \in DOMAIN mds.chunks : mds.chunks[i] # <<>>
    BY Zenon, <1>1 DEF Started
  <2>2. CASE pc = <<>>
    <3>1. mds' = mds /\ Elems(pc) = {}
      BY Zenon, <2>2, SmallElems DEF pc
    <3>2. Stored' = Stored
      BY Zenon, <3>1, StoredIs
    <3> QED
      BY Zenon, <1>2, <1>3, <2>1, <3>1, <3>2 DEF StoreKept
  <2>3. CASE pc # <<>>
    <3> DEFINE ch == <<pc>> \o mds.chunks
    <3>1. mds' = [mds EXCEPT !.chunks = ch, !.free_chunks = mds.free_chunks + 1]
      BY Zenon, <1>2, <2>3 DEF Stores, pc
    <3>2. Elems(pc) \cap Spread(mds.chunks) = {}
      BY Zenon, <1>4, StoredIs
    <3>3. /\ ch \in Seq(Seq(Elem)) /\ Len(ch) = Len(mds.chunks) + 1
          /\ Spread(ch) = Spread(mds.chunks) \cup Elems(pc) /\ Apart(ch)
          /\ \A i \in DOMAIN ch : ch[i] = pc \/ \E j \in DOMAIN mds.chunks : ch[i] = mds.chunks[j]
      BY Zenon, <1>2, <1>3, <3>2, PushChunk
    <3>4. \A i \in DOMAIN ch : ch[i] # <<>>
      BY Zenon, <2>1, <2>3, <3>3
    <3>5. mds.free_chunks + 1 \in Nat /\ mds.free_chunks + 1 = Len(ch)
      BY SMTT(60), <1>2, <2>1, <3>3
    <3> HIDE DEF ch
    <3>6. mds' \in Stores /\ StoreKept /\ mds'.chunks = ch /\ mds'.free_chunks = Len(ch)
      BY Zenon, <1>2, <3>1, <3>3, <3>5, StoreUpdate
    <3>7. Stored' = Stored \cup Elems(pc)
      BY Zenon, <3>3, <3>6, StoredIs
    <3> QED
      BY Zenon, <3>3, <3>4, <3>6, <3>7
  <2> QED
    BY Zenon, <2>2, <2>3
<1>9. Changed(pool, pool', c, h, hd, n)
  BY Zenon DEF h, hd
<1> QED
  BY ZenonT(60), <1>2, <1>3, <1>5, <1>6, <1>7, <1>8, <1>9, FreeElem

(* mempool_create: the pool of core c may now be used.                      *)
LEMMA Create ==
  ASSUME NEW c \in Cores, PoolInv, mempool_create(c)
  PROVE  PoolInv' /\ Everything' = Everything /\ UNCHANGED Abstract!vars
<1>1. TypeOK /\ Started /\ ListsApart /\ SetsApart
  BY Zenon DEF PoolInv
<1>2. /\ mds.magic /\ ~pool[c].magic /\ mds' = mds /\ owned' = owned /\ ret' = ret
      /\ pool' = [pool EXCEPT ![c].magic = TRUE, ![c].head = <<>>]
  BY Zenon DEF mempool_create
<1>3. pool[c].head = <<>> /\ pool[c].private_chunk = <<>> /\ pool \in Pools(Seq(Elem))
  BY Zenon, <1>1, <1>2 DEF Started, TypeOK, Pools
<1>4. /\ pool'[c].magic /\ pool'[c].head = <<>> /\ pool'[c].private_chunk = <<>>
      /\ \A d \in Cores \ {c} : pool'[d] = pool[d]
  BY Zenon, <1>2, <1>3 DEF Pools
<1>5. pool' \in Pools(Seq(Elem))
  <2> DEFINE H == Seq(Elem)
  <2>1. <<>> \in H /\ pool \in Pools(H)
    BY <1>3
  <2> HIDE DEF H
  <2>2. pool' \in Pools(H)
    BY Zenon, <1>2, <2>1 DEF Pools
  <2> QED
    BY Zenon, <2>2 DEF H
<1>6. TypeOK' /\ OthersKept(c) /\ StoreKept
  BY Zenon, <1>1, <1>2, <1>4, <1>5 DEF TypeOK, Pools, OthersKept, StoreKept
<1>7. \A d \in Cores : pool'[d].head = pool[d].head
                       /\ pool'[d].private_chunk = pool[d].private_chunk
  BY Zenon, <1>3, <1>4
<1>8. \A d \in Cores : Cached(d)' = Cached(d) /\ Own(d)' = Own(d)
  <2> TAKE d \in Cores
  <2>1. Cached(d)' = Elems(pool'[d].head) \cup Elems(pool'[d].private_chunk)
        /\ Own(d)' = Cached(d)' \cup owned'[d]
    BY Zenon, CachedIs
  <2>2. owned'[d] = owned[d]
    BY Zenon, <1>2
  <2>3. Cached(d)' = Cached(d)
    BY Zenon, <1>7, <2>1, CachedIs
  <2> QED
    BY Zenon, <2>1, <2>2, <2>3, CachedIs
<1>9. Stored' = Stored
  BY Zenon, <1>2, StoredIs
<1>10. Own(c)' \cap Stored' = {} /\ Cached(c)' \cap owned'[c] = {}
       /\ Own(c)' \cup Stored' = Own(c) \cup Stored
  BY Zenon, <1>1, <1>2, <1>8, <1>9 DEF SetsApart
<1>11. /\ Apart(mds'.chunks) /\ mds'.free_chunks = Len(mds'.chunks)
       /\ \A i \in DOMAIN mds'.chunks : mds'.chunks[i] # <<>>
  BY Zenon, <1>1, <1>2 DEF Started, ListsApart
<1>12. /\ NoRepeat(pool'[c].head) /\ NoRepeat(pool'[c].private_chunk)
       /\ Elems(pool'[c].head) \cap Elems(pool'[c].private_chunk) = {}
  <2>1. Elems(<<>>) = {} /\ NoRepeat(<<>>)
    BY Zenon, SmallElems
  <2> QED
    BY Zenon, <1>4, <2>1
<1>13. PoolInv' /\ Everything' = Everything
  BY Zenon, <1>2, <1>4, <1>6, <1>10, <1>11, <1>12, LocalStep
<1>14. [d \in Cores |-> Cached(d)]' = [d \in Cores |-> Cached(d)]
  BY Zenon, <1>8
<1>15. UNCHANGED Abstract!vars
  BY Zenon, <1>2, <1>9, <1>14 DEF Abstract!vars
<1> QED
  BY Zenon, <1>13, <1>15

-----------------------------------------------------------------------------
(* Arithmetic of pages and elements.                                        *)
LEMMA MulMono ==
  ASSUME NEW a \in Int, NEW b \in Int, NEW k \in Nat, a <= b
  PROVE  a * k <= b * k
<1>1. (b - a) * k >= 0
  OBVIOUS
<1>2. (b - a) * k = b * k - a * k
  OBVIOUS
<1> QED
  BY <1>1, <1>2

LEMMA DivMod ==
  ASSUME NEW a \in Nat, NEW b \in Nat \ {0}
  PROVE  /\ a \div b \in Nat /\ a % b \in Nat /\ a % b < b
         /\ a = (a \div b) * b + (a % b)
<1>1. a % b \in Nat /\ a % b < b
  OBVIOUS
<1>2. a = b * (a \div b) + (a % b)
  OBVIOUS
<1>3. a \div b \in Nat
  OBVIOUS
<1>4. b * (a \div b) = (a \div b) * b
  BY <1>3
<1> QED
  BY Zenon, <1>1, <1>2, <1>3, <1>4

LEMMA DivUnique ==
  ASSUME NEW b \in Nat \ {0}, NEW q \in Nat, NEW r \in 0 .. b - 1, NEW a,
         a = q * b + r
  PROVE  a \div b = q /\ a % b = r
<1> DEFINE p == a \div b
           t == a % b
<1>1. q * b \in Nat
  OBVIOUS
<1>2. a \in Nat
  BY <1>1
<1>3. p \in Nat /\ t \in Nat /\ t < b /\ a = p * b + t
  BY Zenon, <1>2, DivMod
<1> HIDE DEF p, t
<1>4. p * b \in Nat
  BY <1>3
<1>5. CASE q < p
  <2>1. (q + 1) * b <= p * b
    BY <1>3, <1>5, MulMono
  <2>2. (q + 1) * b = q * b + b
    OBVIOUS
  <2> QED
    BY SMTT(30), <1>1, <1>3, <1>4, <2>1, <2>2
<1>6. CASE p < q
  <2>1. (p + 1) * b <= q * b
    BY <1>3, <1>6, MulMono
  <2>2. (p + 1) * b = p * b + b
    BY <1>3
  <2> QED
    BY SMTT(30), <1>1, <1>3, <1>4, <2>1, <2>2
<1>7. CASE p = q
  <2>1. t = r
    BY <1>1, <1>3, <1>7
  <2> QED
    BY Zenon, <1>7, <2>1 DEF p, t
<1> QED
  BY SMTT(30), <1>3, <1>5, <1>6, <1>7

LEMMA SmallDiv ==
  ASSUME NEW b \in Nat \ {0}, NEW r \in 0 .. b - 1
  PROVE  r \div b = 0 /\ r % b = r
<1>1. 0 \in Nat /\ r = 0 * b + r
  OBVIOUS
<1> QED
  BY <1>1, DivUnique

(* The offset of the i-th element, its place in the chunks, the elements    *)
(* that are in a chunk, and that elements come one after the other.         *)
Cur(epp, el, i) == (i \div epp) * PGSIZE + (i % epp) * el
Index(n, cs, k, j) == (n - k) * cs + j - 1
Listed(epp, el, m) == {Cur(epp, el, i) : i \in 0 .. m - 1}
Spaced(epp, el, m) ==
  \A i, j \in 0 .. m - 1 : i < j => Cur(epp, el, i) + el <= Cur(epp, el, j)

(* The position of an element in the chunks is a bijection with its index.  *)
LEMMA IndexFacts ==
  ASSUME NEW n \in Nat, NEW cs \in Nat \ {0}
  PROVE  /\ \A k \in 1 .. n, j \in 1 .. cs : Index(n, cs, k, j) \in 0 .. n * cs - 1
         /\ \A i \in 0 .. n * cs - 1 : \E k \in 1 .. n, j \in 1 .. cs : i = Index(n, cs, k, j)
         /\ \A k, kk \in 1 .. n, j, jj \in 1 .. cs :
              Index(n, cs, k, j) = Index(n, cs, kk, jj) => k = kk /\ j = jj
<1>1. ASSUME NEW k \in 1 .. n, NEW j \in 1 .. cs
      PROVE  Index(n, cs, k, j) \in 0 .. n * cs - 1
  <2>1. 0 * cs <= (n - k) * cs /\ (n - k) * cs <= (n - 1) * cs
    BY MulMono
  <2>2. (n - 1) * cs = n * cs - cs /\ 0 * cs = 0 /\ n * cs \in Int /\ (n - k) * cs \in Int
    OBVIOUS
  <2> QED
    BY <2>1, <2>2 DEF Index
<1>2. ASSUME NEW i \in 0 .. n * cs - 1
      PROVE  \E k \in 1 .. n, j \in 1 .. cs : i = Index(n, cs, k, j)
  <2> DEFINE q == i \div cs
             r == i % cs
  <2>1. i \in Nat
    BY SMT
  <2>2. q \in Nat /\ r \in Nat /\ r < cs /\ i = q * cs + r
    BY Zenon, <2>1, DivMod
  <2> HIDE DEF q, r
  <2>3. q < n
    <3> SUFFICES ASSUME n <= q PROVE FALSE
      BY <2>2
    <3>1. n * cs <= q * cs
      BY <2>2, MulMono
    <3>2. q * cs \in Nat /\ n * cs \in Nat
      BY <2>2
    <3> QED
      BY <2>2, <3>1, <3>2
  <2>4. n - q \in 1 .. n /\ r + 1 \in 1 .. cs
    BY <2>2, <2>3
  <2>5. n - (n - q) = q
    BY <2>2
  <2>6. i = Index(n, cs, n - q, r + 1)
    <3>1. q * cs \in Nat
      BY <2>2
    <3> QED
      BY SMTT(30), <2>2, <2>5, <3>1 DEF Index
  <2> QED
    BY Zenon, <2>4, <2>6
<1>3. ASSUME NEW k \in 1 .. n, NEW kk \in 1 .. n, NEW j \in 1 .. cs, NEW jj \in 1 .. cs,
             Index(n, cs, k, j) = Index(n, cs, kk, jj)
      PROVE  k = kk /\ j = jj
  <2> DEFINE a == Index(n, cs, k, j)
  <2>1. n - k \in Nat /\ n - kk \in Nat /\ j - 1 \in 0 .. cs - 1 /\ jj - 1 \in 0 .. cs - 1
    OBVIOUS
  <2>2. (n - k) * cs \in Int /\ (n - kk) * cs \in Int
    OBVIOUS
  <2>3. a = (n - k) * cs + (j - 1)
    BY Zenon, <2>2 DEF Index
  <2>4. a = (n - kk) * cs + (jj - 1)
    BY Zenon, <1>3, <2>2 DEF Index
  <2> HIDE DEF a
  <2>5. a \div cs = n - k /\ a % cs = j - 1
    <3> DEFINE q == n - k
               r == j - 1
    <3>1. q \in Nat /\ r \in 0 .. cs - 1 /\ a = q * cs + r
      BY Zenon, <2>1, <2>3
    <3> HIDE DEF q, r
    <3>2. a \div cs = q /\ a % cs = r
      BY Zenon, <3>1, DivUnique
    <3> QED
      BY Zenon, <3>2 DEF q, r
  <2>6. a \div cs = n - kk /\ a % cs = jj - 1
    <3> DEFINE q == n - kk
               r == jj - 1
    <3>1. q \in Nat /\ r \in 0 .. cs - 1 /\ a = q * cs + r
      BY ZenonT(60), <2>1, <2>4
    <3> HIDE DEF q, r
    <3>2. a \div cs = q /\ a % cs = r
      BY Zenon, <3>1, DivUnique
    <3> QED
      BY Zenon, <3>2 DEF q, r
  <2>7. n - k = n - kk /\ j - 1 = jj - 1
    BY Zenon, <2>5, <2>6
  <2> QED
    BY <2>7
<1> QED
  BY Zenon, <1>1, <1>2, <1>3

(* A list of chunks that has each element of S at one position.             *)
Shaped(buf, K, J) == DOMAIN buf = K /\ \A k \in K : DOMAIN buf[k] = J
OneSpot(buf, K, J) ==
  \A k, l \in K, i, j \in J : buf[k][i] = buf[l][j] => k = l /\ i = j
Within(buf, K, J, S) == \A k \in K, j \in J : buf[k][j] \in S
Covers(buf, K, J, S) == \A x \in S : \E k \in K, j \in J : x = buf[k][j]

LEMMA ChunksOf ==
  ASSUME NEW buf, NEW K, NEW J, NEW S, Shaped(buf, K, J), OneSpot(buf, K, J),
         Within(buf, K, J, S), Covers(buf, K, J, S)
  PROVE  Apart(buf) /\ Spread(buf) = S
<1>1. DOMAIN buf = K /\ \A k \in K : DOMAIN buf[k] = J
  BY Zenon DEF Shaped
<1>2. ASSUME NEW k \in K PROVE NoRepeat(buf[k])
  <2>1. DOMAIN buf[k] = J
    BY Zenon, <1>1
  <2> SUFFICES ASSUME NEW i \in J, NEW j \in J, buf[k][i] = buf[k][j] PROVE i = j
    BY Zenon, <2>1 DEF NoRepeat
  <2> QED
    BY Zenon DEF OneSpot
<1>3. ASSUME NEW k \in K, NEW x PROVE x \in Elems(buf[k]) <=> \E j \in J : x = buf[k][j]
  <2>1. DOMAIN buf[k] = J
    BY Zenon, <1>1
  <2> QED
    BY ZenonT(60), <2>1 DEF Elems
<1>4. ASSUME NEW k \in K, NEW l \in K \ {k}, NEW x, x \in Elems(buf[k]), x \in Elems(buf[l])
      PROVE  FALSE
  <2>1. PICK i \in J : x = buf[k][i]
    BY Zenon, <1>3, <1>4
  <2>2. PICK j \in J : x = buf[l][j]
    BY Zenon, <1>3, <1>4
  <2>3. buf[k][i] = buf[l][j]
    BY Zenon, <2>1, <2>2
  <2> QED
    BY Zenon, <2>3 DEF OneSpot
<1>5. ASSUME NEW x PROVE x \in Spread(buf) <=> x \in S
  <2>1. x \in Spread(buf) <=> \E k \in K : x \in Elems(buf[k])
    BY Zenon, <1>1 DEF Spread
  <2>2. ASSUME x \in S PROVE \E k \in K : x \in Elems(buf[k])
    <3>1. PICK k \in K, j \in J : x = buf[k][j]
      BY Zenon, <2>2 DEF Covers
    <3> QED
      BY Zenon, <1>3, <3>1
  <2>3. ASSUME NEW k \in K, x \in Elems(buf[k]) PROVE x \in S
    <3>1. PICK j \in J : x = buf[k][j]
      BY Zenon, <1>3, <2>3
    <3> QED
      BY Zenon, <3>1 DEF Within
  <2> QED
    BY Zenon, <2>1, <2>2, <2>3
<1>6. ASSUME NEW k \in K, NEW l \in K \ {k} PROVE Elems(buf[k]) \cap Elems(buf[l]) = {}
  BY Zenon, <1>4
<1>7. Apart(buf)
  BY ZenonT(60), <1>1, <1>2, <1>6 DEF Apart
<1>8. Spread(buf) = S
  BY Zenon, <1>5
<1> QED
  BY Zenon, <1>7, <1>8

(* mempool_init_buf_with_pages lists every element of the complete chunks   *)
(* once, when elements do not overlap.                                      *)
BufIs(buf, cs, S) ==
  /\ buf \in Seq(Seq(Elem)) /\ Apart(buf)
  /\ \A i \in DOMAIN buf : buf[i] # <<>> /\ Len(buf[i]) = cs
  /\ Spread(buf) = S

LEMMA BufLists ==
  ASSUME NEW epp \in Nat \ {0}, NEW np \in Nat, NEW el \in Nat \ {0}, NEW cs \in Nat \ {0},
         PGSIZE \in Nat, NEW n \in Nat, n = (epp * np) \div cs,
         Spaced(epp, el, n * cs),
         NEW buf, buf = mempool_init_buf_with_pages(epp, np, el, cs)
  PROVE  BufIs(buf, cs, Listed(epp, el, n * cs))
<1> DEFINE C(i) == Cur(epp, el, i)
           I(k, j) == Index(n, cs, k, j)
<1>1. ASSUME NEW i \in Nat PROVE C(i) \in Nat
  <2> DEFINE q == i \div epp
             r == i % epp
  <2>1. q \in Nat /\ r \in Nat
    BY Zenon, DivMod
  <2> HIDE DEF q, r
  <2>2. q * PGSIZE \in Nat /\ r * el \in Nat
    BY <2>1
  <2>3. q * PGSIZE + r * el \in Nat
    BY <2>2
  <2> QED
    BY Zenon, <2>3 DEF Cur, q, r
<1>2. buf = [k \in 1 .. n |-> [j \in 1 .. cs |-> C(I(k, j))]]
  BY Zenon DEF mempool_init_buf_with_pages, Cur, Index
<1>3. /\ \A k \in 1 .. n, j \in 1 .. cs : I(k, j) \in 0 .. n * cs - 1
      /\ \A i \in 0 .. n * cs - 1 : \E k \in 1 .. n, j \in 1 .. cs : i = I(k, j)
      /\ \A k, kk \in 1 .. n, j, jj \in 1 .. cs : I(k, j) = I(kk, jj) => k = kk /\ j = jj
  BY Zenon, IndexFacts
<1>4. \A i, j \in 0 .. n * cs - 1 : C(i) = C(j) => i = j
  <2> SUFFICES ASSUME NEW i \in 0 .. n * cs - 1, NEW j \in 0 .. n * cs - 1, C(i) = C(j), i # j
               PROVE  FALSE
    BY Zenon
  <2>1. i \in Nat /\ j \in Nat /\ (i < j \/ j < i)
    BY SMT
  <2>2. C(i) \in Nat /\ C(j) \in Nat
    BY Zenon, <1>1, <2>1
  <2>3. C(i) + el <= C(j) \/ C(j) + el <= C(i)
    BY Zenon, <2>1 DEF Spaced
  <2> HIDE DEF C
  <2> QED
    BY <2>2, <2>3
<1> HIDE DEF C, I
<1>5. \A k \in 1 .. n, j \in 1 .. cs : C(I(k, j)) \in Elem
  <2> TAKE k \in 1 .. n, j \in 1 .. cs
  <2>1. I(k, j) \in Nat
    <3>1. I(k, j) \in 0 .. n * cs - 1
      BY Zenon, <1>3
    <3> QED
      BY <3>1
  <2> QED
    BY Zenon, <1>1, <2>1 DEF Elem
<1>6. DOMAIN buf = 1 .. n
  BY Zenon, <1>2
<1>7. ASSUME NEW k \in 1 .. n
      PROVE  /\ buf[k] \in Seq(Elem) /\ Len(buf[k]) = cs /\ DOMAIN buf[k] = 1 .. cs
             /\ buf[k] # <<>> /\ \A j \in 1 .. cs : buf[k][j] = C(I(k, j))
  <2>1. buf[k] = [j \in 1 .. cs |-> C(I(k, j))]
    BY Zenon, <1>2
  <2>2. buf[k] \in [1 .. cs -> Elem]
    BY ZenonT(60), <1>5, <2>1
  <2>3. buf[k] \in Seq(Elem) /\ Len(buf[k]) = cs /\ DOMAIN buf[k] = 1 .. cs
    BY SMTT(30), <2>2
  <2>4. buf[k] # <<>>
    BY Zenon, <2>3
  <2> QED
    BY ZenonT(60), <2>1, <2>3, <2>4
<1>8. buf \in Seq(Seq(Elem)) /\ Len(buf) = n
  <2>1. buf \in [1 .. n -> Seq(Elem)]
    <3>1. buf = [k \in 1 .. n |-> buf[k]]
      BY Zenon, <1>2
    <3> QED
      BY Zenon, <1>7, <3>1
  <2> QED
    BY <2>1
<1>9. ASSUME NEW k \in 1 .. n, NEW l \in 1 .. n, NEW i \in 1 .. cs, NEW j \in 1 .. cs,
             buf[k][i] = buf[l][j]
      PROVE  k = l /\ i = j
  <2>1. buf[k][i] = C(I(k, i)) /\ buf[l][j] = C(I(l, j))
    BY Zenon, <1>7
  <2>2. I(k, i) \in 0 .. n * cs - 1 /\ I(l, j) \in 0 .. n * cs - 1
    BY Zenon, <1>3
  <2>3. I(k, i) = I(l, j)
    BY ZenonT(60), <1>4, <1>9, <2>1, <2>2
  <2> QED
    BY SMTT(30), <1>3, <2>3
<1>10. ASSUME NEW k \in 1 .. n, NEW j \in 1 .. cs
       PROVE  buf[k][j] \in Listed(epp, el, n * cs)
  <2>1. buf[k][j] = C(I(k, j)) /\ I(k, j) \in 0 .. n * cs - 1
    BY ZenonT(60), <1>3, <1>7
  <2> QED
    BY Zenon, <2>1 DEF Listed, C
<1>11. ASSUME NEW x \in Listed(epp, el, n * cs)
       PROVE  \E k \in 1 .. n, j \in 1 .. cs : x = buf[k][j]
  <2>1. PICK i \in 0 .. n * cs - 1 : x = C(i)
    BY Zenon DEF Listed, C
  <2>2. PICK k \in 1 .. n, j \in 1 .. cs : i = I(k, j)
    BY Zenon, <1>3
  <2>3. x = buf[k][j]
    BY ZenonT(60), <1>7, <2>1, <2>2
  <2> QED
    BY Zenon, <2>3
<1>12. \A k \in 1 .. n : DOMAIN buf[k] = 1 .. cs
  BY ZenonT(60), <1>7
<1>13. /\ Shaped(buf, 1 .. n, 1 .. cs) /\ OneSpot(buf, 1 .. n, 1 .. cs)
       /\ Within(buf, 1 .. n, 1 .. cs, Listed(epp, el, n * cs))
       /\ Covers(buf, 1 .. n, 1 .. cs, Listed(epp, el, n * cs))
  <2>1. Shaped(buf, 1 .. n, 1 .. cs)
    BY Zenon, <1>6, <1>12 DEF Shaped
  <2>2. OneSpot(buf, 1 .. n, 1 .. cs)
    BY Zenon, <1>9 DEF OneSpot
  <2>3. Within(buf, 1 .. n, 1 .. cs, Listed(epp, el, n * cs))
    BY Zenon, <1>10 DEF Within
  <2>4. Covers(buf, 1 .. n, 1 .. cs, Listed(epp, el, n * cs))
    BY Zenon, <1>11 DEF Covers
  <2> QED
    BY ZenonT(60), <2>1, <2>2, <2>3, <2>4
<1>15. Apart(buf) /\ Spread(buf) = Listed(epp, el, n * cs)
  BY Zenon, <1>13, ChunksOf
<1> QED
  BY Zenon, <1>6, <1>7, <1>8, <1>15 DEF BufIs

(* ElementsFit of a set of elements.                                        *)
FitIn(S, el, np, ns, ne) ==
  \A e \in S :
    /\ e + el <= np * PGSIZE
    /\ ns => e \div PGSIZE = (e + el - 1) \div PGSIZE
    /\ \A f \in S : e < f => e + el <= f
    /\ ~ns => e \div el < ne /\ el * (e \div el) = e

(* Elements that come one after the other do not overlap.                   *)
LEMMA SpacedApart ==
  ASSUME NEW epp, NEW el \in Nat \ {0}, NEW m \in Nat, Spaced(epp, el, m),
         \A i \in 0 .. m - 1 : Cur(epp, el, i) \in Nat
  PROVE  \A e, f \in Listed(epp, el, m) : e < f => e + el <= f
<1> SUFFICES ASSUME NEW i \in 0 .. m - 1, NEW j \in 0 .. m - 1,
                    Cur(epp, el, i) < Cur(epp, el, j)
             PROVE  Cur(epp, el, i) + el <= Cur(epp, el, j)
  BY Zenon DEF Listed
<1> DEFINE x == Cur(epp, el, i)
           y == Cur(epp, el, j)
<1>1. x \in Nat /\ y \in Nat
  BY Zenon
<1>2. i < j => x + el <= y
  BY Zenon DEF Spaced
<1>3. j < i => y + el <= x
  BY Zenon DEF Spaced
<1>4. i = j => x = y
  BY Zenon
<1>5. i < j \/ i = j \/ j < i
  OBVIOUS
<1>6. x < y
  BY Zenon
<1> HIDE DEF x, y
<1>7. x + el <= y
  BY SMTT(30), <1>1, <1>2, <1>3, <1>4, <1>5, <1>6
<1> QED
  BY Zenon, <1>7 DEF x, y

(* Elements that may straddle pages are packed: the i-th is at i * el.      *)
LEMMA Packed ==
  ASSUME PGSIZE \in Nat, NEW el \in Nat \ {0}, NEW np \in Nat, NEW P \in Nat \ {0},
         P = (np * PGSIZE) \div el, NEW m \in Nat, m <= P
  PROVE  /\ Spaced(P, el, m)
         /\ FitIn(Listed(P, el, m), el, np, FALSE, P)
<1>1. ASSUME NEW i \in 0 .. m - 1
      PROVE  Cur(P, el, i) = i * el /\ i * el \in Nat /\ i \in Nat /\ i < P
  <2>1. i \in 0 .. P - 1 /\ i \in Nat /\ i < P
    OBVIOUS
  <2>2. 0 * PGSIZE = 0
    OBVIOUS
  <2>3. i \div P = 0 /\ i % P = i
    BY Zenon, <2>1, SmallDiv
  <2>4. i * el \in Nat
    BY <2>1
  <2>5. 0 * PGSIZE + i * el = i * el
    BY SMTT(30), <2>2, <2>4
  <2> QED
    BY Zenon, <2>1, <2>3, <2>4, <2>5 DEF Cur
<1>2. ASSUME NEW i \in Nat, NEW j \in Nat, i < j PROVE i * el + el <= j * el
  <2>1. (i + 1) * el <= j * el
    BY <1>2, MulMono
  <2>2. (i + 1) * el = i * el + el
    OBVIOUS
  <2> QED
    BY Zenon, <2>1, <2>2
<1>3. Spaced(P, el, m)
  BY Zenon, <1>1, <1>2 DEF Spaced
<1>4. \A i \in 0 .. m - 1 : Cur(P, el, i) \in Nat
  BY Zenon, <1>1
<1>5. \A e, f \in Listed(P, el, m) : e < f => e + el <= f
  BY Zenon, <1>3, <1>4, SpacedApart
<1>6. P * el <= np * PGSIZE
  <2> DEFINE a == np * PGSIZE
             r == a % el
  <2>1. a \in Nat
    OBVIOUS
  <2>2. r \in Nat /\ a = P * el + r
    BY Zenon, <2>1, DivMod
  <2> HIDE DEF a, r
  <2>3. P * el \in Nat
    OBVIOUS
  <2>4. P * el <= a
    BY SMTT(30), <2>1, <2>2, <2>3
  <2> QED
    BY Zenon, <2>4 DEF a
<1>7. ASSUME NEW i \in 0 .. m - 1, NEW e, e = i * el
      PROVE  e + el <= np * PGSIZE /\ e \div el < P /\ el * (e \div el) = e
  <2>1. i \in Nat /\ i < P /\ e \in Nat
    BY Zenon, <1>1, <1>7
  <2>2. e + el <= P * el
    BY Zenon, <1>2, <1>7, <2>1
  <2>3. np * PGSIZE \in Nat /\ P * el \in Nat
    OBVIOUS
  <2>4. e + el <= np * PGSIZE
    BY SMTT(30), <1>6, <2>1, <2>2, <2>3
  <2>5. e = i * el + 0 /\ 0 \in 0 .. el - 1
    BY SMTT(30), <1>7, <2>1
  <2>6. e \div el = i
    BY ZenonT(60), <2>1, <2>5, DivUnique
  <2>7. el * i = i * el
    BY <2>1
  <2> QED
    BY ZenonT(60), <1>7, <2>1, <2>4, <2>6, <2>7
<1>8. ASSUME NEW e \in Listed(P, el, m)
      PROVE  e + el <= np * PGSIZE /\ e \div el < P /\ el * (e \div el) = e
  <2>1. PICK i \in 0 .. m - 1 : e = Cur(P, el, i)
    BY Zenon DEF Listed
  <2>2. e = i * el
    BY Zenon, <1>1, <2>1
  <2> QED
    BY Zenon, <1>7, <2>2
<1>9. FitIn(Listed(P, el, m), el, np, FALSE, P)
  BY ZenonT(60), <1>5, <1>8 DEF FitIn
<1> QED
  BY Zenon, <1>3, <1>9

(* Elements that may not are laid out page by page.                         *)
LEMMA Paged ==
  ASSUME PGSIZE \in Nat \ {0}, NEW el \in Nat \ {0}, NEW np \in Nat, NEW E \in Nat \ {0},
         E = PGSIZE \div el, NEW m \in Nat, m <= E * np, NEW ne
  PROVE  /\ Spaced(E, el, m)
         /\ FitIn(Listed(E, el, m), el, np, TRUE, ne)
<1> DEFINE G == PGSIZE
           q(i) == i \div E
           r(i) == i % E
<1>1. E * el <= G
  <2> DEFINE t == G % el
  <2>1. t \in Nat /\ G = E * el + t
    BY Zenon, DivMod
  <2> HIDE DEF G, t
  <2>2. E * el \in Nat
    OBVIOUS
  <2> QED
    BY SMTT(30), <2>1, <2>2
<1>2. ASSUME NEW i \in Nat PROVE q(i) \in Nat /\ r(i) \in Nat /\ r(i) < E /\ i = q(i) * E + r(i)
  BY ZenonT(60), DivMod
<1>3. ASSUME NEW i PROVE Cur(E, el, i) = q(i) * G + r(i) * el
  BY Zenon DEF Cur
<1>4. G \in Nat \ {0}
  OBVIOUS
<1> HIDE DEF q, r, G
<1>5. ASSUME NEW i \in Nat
      PROVE  /\ r(i) * el \in Nat /\ r(i) * el + el <= G /\ q(i) * G \in Nat
             /\ Cur(E, el, i) \in Nat
  <2>1. q(i) \in Nat /\ r(i) \in Nat /\ r(i) < E
    BY Zenon, <1>2
  <2>2. r(i) * el \in Nat /\ q(i) * G \in Nat /\ E * el \in Nat
    BY <1>4, <2>1
  <2>3. (r(i) + 1) * el <= E * el /\ (r(i) + 1) * el = r(i) * el + el
    BY <2>1, MulMono
  <2>4. r(i) * el + el <= G
    BY <1>1, <1>4, <2>2, <2>3
  <2>5. q(i) * G + r(i) * el \in Nat
    BY <2>2
  <2> QED
    BY Zenon, <1>3, <2>2, <2>4, <2>5
<1>6. ASSUME NEW i \in Nat, NEW j \in Nat, i < j
      PROVE  Cur(E, el, i) + el <= Cur(E, el, j)
  <2> DEFINE qi == q(i)
             ri == r(i)
             qj == q(j)
             rj == r(j)
  <2>1. /\ qi \in Nat /\ ri \in Nat /\ ri < E /\ i = qi * E + ri
        /\ qj \in Nat /\ rj \in Nat /\ rj < E /\ j = qj * E + rj
    BY Zenon, <1>2
  <2>2. /\ ri * el \in Nat /\ ri * el + el <= G /\ qi * G \in Nat
        /\ rj * el \in Nat /\ qj * G \in Nat
    BY Zenon, <1>5
  <2>3. Cur(E, el, i) = qi * G + ri * el /\ Cur(E, el, j) = qj * G + rj * el
    BY Zenon, <1>3
  <2> HIDE DEF qi, ri, qj, rj
  <2>4. qi * E \in Nat /\ qj * E \in Nat
    BY <2>1
  <2>5. CASE qj < qi
    <3>1. (qj + 1) * E <= qi * E /\ (qj + 1) * E = qj * E + E
      BY SMTT(30), <2>1, <2>5, MulMono
    <3> QED
      BY SMTT(30), <1>6, <2>1, <2>4, <3>1
  <2>6. CASE qi < qj
    <3>1. (qi + 1) * G <= qj * G /\ (qi + 1) * G = qi * G + G
      BY SMTT(30), <1>4, <2>1, <2>6, MulMono
    <3>2. qi * G + ri * el + el <= qj * G + rj * el
      BY SMTT(30), <1>4, <2>2, <3>1
    <3> QED
      BY Zenon, <2>3, <3>2
  <2>7. CASE qi = qj
    <3>1. ri < rj
      BY SMTT(30), <1>6, <2>1, <2>4, <2>7
    <3>2. (ri + 1) * el <= rj * el /\ (ri + 1) * el = ri * el + el
      BY SMTT(30), <2>1, <3>1, MulMono
    <3>3. qi * G + ri * el + el <= qj * G + rj * el
      BY SMTT(30), <2>2, <2>7, <3>2
    <3> QED
      BY Zenon, <2>3, <3>3
  <2> QED
    BY SMTT(30), <2>1, <2>5, <2>6, <2>7
<1>7. \A i \in 0 .. m - 1 : i \in Nat
  OBVIOUS
<1>8. Spaced(E, el, m)
  BY Zenon, <1>6, <1>7 DEF Spaced
<1>9. \A i \in 0 .. m - 1 : Cur(E, el, i) \in Nat
  BY Zenon, <1>5, <1>7
<1>10. \A e, f \in Listed(E, el, m) : e < f => e + el <= f
  BY ZenonT(60), <1>8, <1>9, SpacedApart
<1>11. ASSUME NEW i \in 0 .. m - 1, NEW e, e = Cur(E, el, i)
       PROVE  e + el <= np * G /\ e \div G = (e + el - 1) \div G
  <2> DEFINE qi == q(i)
             b == r(i) * el
  <2>1. i \in Nat
    BY Zenon, <1>7
  <2>2. /\ qi \in Nat /\ r(i) \in Nat /\ i = qi * E + r(i)
        /\ b \in Nat /\ b + el <= G /\ qi * G \in Nat /\ e = qi * G + b
    BY ZenonT(60), <1>2, <1>3, <1>5, <1>11, <2>1
  <2>3. qi < np
    <3> HIDE DEF qi, b
    <3> SUFFICES ASSUME np <= qi PROVE FALSE
      BY <2>2
    <3>1. np * E <= qi * E
      BY SMTT(30), <2>2, MulMono
    <3>2. np * E = E * np /\ np * E \in Nat /\ qi * E \in Nat
      BY SMTT(30), <2>2
    <3> QED
      BY SMTT(30), <2>1, <2>2, <3>1, <3>2
  <2> HIDE DEF qi, b
  <2>4. (qi + 1) * G <= np * G /\ (qi + 1) * G = qi * G + G /\ np * G \in Nat
    BY SMTT(30), <1>4, <2>2, <2>3, MulMono
  <2>5. e + el <= np * G
    BY SMTT(30), <1>4, <2>2, <2>4
  <2> DEFINE c == b + el - 1
             a == e + el - 1
  <2>6. b \in 0 .. G - 1 /\ c \in 0 .. G - 1 /\ a = qi * G + c
    BY SMTT(30), <1>4, <2>2
  <2> HIDE DEF a, c
  <2>7. e \div G = qi /\ a \div G = qi
    BY ZenonT(60), <1>4, <2>2, <2>6, DivUnique
  <2> QED
    BY Zenon, <2>5, <2>7 DEF a
<1>12. ASSUME NEW e \in Listed(E, el, m)
       PROVE  e + el <= np * PGSIZE /\ e \div PGSIZE = (e + el - 1) \div PGSIZE
  <2>1. PICK i \in 0 .. m - 1 : e = Cur(E, el, i)
    BY Zenon DEF Listed
  <2> QED
    BY Zenon, <1>11, <2>1 DEF G
<1>13. FitIn(Listed(E, el, m), el, np, TRUE, ne)
  BY Zenon, <1>10, <1>12 DEF FitIn
<1> QED
  BY ZenonT(60), <1>8, <1>13

LEMMA CurNat ==
  ASSUME PGSIZE \in Nat, NEW epp \in Nat \ {0}, NEW el \in Nat, NEW i \in Nat
  PROVE  Cur(epp, el, i) \in Nat
<1> DEFINE q == i \div epp
           r == i % epp
<1>1. q \in Nat /\ r \in Nat
  BY Zenon, DivMod
<1> HIDE DEF q, r
<1>2. q * PGSIZE \in Nat /\ r * el \in Nat
  BY <1>1
<1>3. q * PGSIZE + r * el \in Nat
  BY <1>2
<1> QED
  BY Zenon, <1>3 DEF Cur, q, r

(* What the proofs use of the sizes of finite sets: a set whose elements    *)
(* are numbered from 0 to m - 1 has m elements.  It is proved last          *)
(* (CountRight), from the library's theorems on finite sets.                *)
Numbers(f, m, L) ==
  /\ f \in [0 .. m - 1 -> L]
  /\ \A y \in L : \E i \in 0 .. m - 1 : f[i] = y
  /\ \A i, j \in 0 .. m - 1 : f[i] = f[j] => i = j
CountFacts == \A m \in Nat : \A L, f : Numbers(f, m, L) => Cardinality(L) = m

(* Elements that come one after the other are as many as their indices.     *)
LEMMA ListedCard ==
  ASSUME CountFacts, PGSIZE \in Nat, NEW epp \in Nat \ {0}, NEW el \in Nat \ {0}, NEW m \in Nat,
         Spaced(epp, el, m)
  PROVE  Cardinality(Listed(epp, el, m)) = m
<1> DEFINE D == 0 .. m - 1
           L == Listed(epp, el, m)
           f == [i \in D |-> Cur(epp, el, i)]
<1>1. f \in [D -> L]
  BY Zenon DEF Listed
<1>2. \A y \in L : \E i \in D : f[i] = y
  BY Zenon DEF Listed
<1>3. ASSUME NEW i \in D, NEW j \in D, f[i] = f[j] PROVE i = j
  <2> DEFINE x == Cur(epp, el, i)
             y == Cur(epp, el, j)
  <2>1. i \in Nat /\ j \in Nat /\ (i < j \/ i = j \/ j < i)
    OBVIOUS
  <2>2. x \in Nat /\ y \in Nat
    BY Zenon, <2>1, CurNat
  <2>3. x = y
    BY Zenon, <1>3
  <2>4. (i < j => x + el <= y) /\ (j < i => y + el <= x)
    BY Zenon DEF Spaced
  <2> HIDE DEF x, y
  <2> QED
    BY SMTT(30), <2>1, <2>2, <2>3, <2>4
<1> HIDE DEF f, L
<1>4. Numbers(f, m, L)
  BY Zenon, <1>1, <1>2, <1>3 DEF Numbers
<1> QED
  BY Zenon, <1>4 DEF CountFacts, L

(* What mempool_create_datastore makes: chunks that share no element, each  *)
(* of k elements, at least n elements in all, and elements that fit.        *)
Filled(buf, n, l, np, s, ne, k) ==
  /\ buf \in Seq(Seq(Elem)) /\ Apart(buf)
  /\ \A i \in DOMAIN buf : buf[i] # <<>> /\ Len(buf[i]) = k
  /\ FitIn(Spread(buf), l, np, s, ne)
  /\ Cardinality(Spread(buf)) >= n

LEMMA BufFilled ==
  ASSUME CountFacts, PGSIZE \in Nat, NEW epp \in Nat \ {0}, NEW pages \in Nat, NEW l \in Nat \ {0},
         NEW k \in Nat \ {0}, NEW n \in Nat, n % k = 0, n <= epp * pages,
         NEW np, NEW s, NEW ne,
         \A m \in Nat : m <= epp * pages =>
           Spaced(epp, l, m) /\ FitIn(Listed(epp, l, m), l, np, s, ne),
         NEW buf, buf = mempool_init_buf_with_pages(epp, pages, l, k)
  PROVE  Filled(buf, n, l, np, s, ne, k)
<1> DEFINE a == epp * pages
           Q == a \div k
           t == a % k
           m == Q * k
<1>1. a \in Nat
  OBVIOUS
<1>2. Q \in Nat /\ t \in Nat /\ t < k /\ a = Q * k + t
  BY Zenon, <1>1, DivMod
<1>3. m \in Nat
  BY SMTT(30), <1>2
<1>4. m <= a
  <2> HIDE DEF a, Q, t
  <2>1. Q * k \in Nat
    BY <1>2
  <2> QED
    BY SMTT(30), <1>1, <1>2, <2>1
<1>5. n <= m
  <2> DEFINE p == n \div k
  <2>1. p \in Nat /\ n = p * k
    <3> DEFINE z == n % k
    <3>1. p \in Nat /\ z \in Nat /\ n = p * k + z
      BY Zenon, DivMod
    <3>2. z = 0
      OBVIOUS
    <3> HIDE DEF p, z
    <3>3. p * k \in Nat
      BY SMTT(30), <3>1
    <3> QED
      BY SMTT(30), <3>1, <3>2, <3>3
  <2>2. n <= a
    OBVIOUS
  <2> HIDE DEF p, a, Q, t
  <2>3. p <= Q
    <3> SUFFICES ASSUME Q < p PROVE FALSE
      BY <1>2, <2>1
    <3>1. (Q + 1) * k <= p * k /\ (Q + 1) * k = Q * k + k
      BY SMTT(30), <1>2, <2>1, MulMono
    <3>2. Q * k \in Nat
      BY <1>2
    <3> QED
      BY SMTT(30), <1>1, <1>2, <2>1, <2>2, <3>1, <3>2
  <2>4. p * k <= Q * k
    BY SMTT(30), <1>2, <2>1, <2>3, MulMono
  <2> QED
    BY ZenonT(60), <2>1, <2>4
<1>6. Spaced(epp, l, m) /\ FitIn(Listed(epp, l, m), l, np, s, ne)
  BY Zenon, <1>3, <1>4
<1>7. BufIs(buf, k, Listed(epp, l, m))
  BY ZenonT(60), <1>2, <1>6, BufLists
<1>8. /\ buf \in Seq(Seq(Elem)) /\ Apart(buf)
      /\ \A i \in DOMAIN buf : buf[i] # <<>> /\ Len(buf[i]) = k
      /\ Spread(buf) = Listed(epp, l, m)
  BY Zenon, <1>7 DEF BufIs
<1>9. Cardinality(Listed(epp, l, m)) = m
  BY ZenonT(60), <1>3, <1>6, ListedCard
<1>10. Cardinality(Spread(buf)) >= n
  <2>1. Cardinality(Spread(buf)) = m
    BY Zenon, <1>8, <1>9
  <2> HIDE DEF m
  <2> QED
    BY Zenon, <1>3, <1>5, <2>1
<1>11. FitIn(Spread(buf), l, np, s, ne)
  BY Zenon, <1>6, <1>8
<1> QED
  BY Zenon, <1>8, <1>10, <1>11 DEF Filled

(* mempool_create_datastore with nostraddle: as many pages as nr_elems take.*)
LEMMA PagedStore ==
  ASSUME CountFacts, PGSIZE \in Nat \ {0}, NEW n \in Nat, NEW l \in Nat \ {0}, l <= PGSIZE,
         NEW k \in Nat \ {0}, n % k = 0, NEW epp, epp = PGSIZE \div l,
         NEW np, np = div_up(n, epp), NEW ne,
         NEW buf, buf = mempool_init_buf_with_pages(epp, np, l, k)
  PROVE  np \in Nat /\ Filled(buf, n, l, np, TRUE, ne, k)
<1>1. epp \in Nat \ {0}
  <2> DEFINE t == PGSIZE % l
  <2>1. epp \in Nat /\ t \in Nat /\ t < l /\ PGSIZE = epp * l + t
    BY Zenon, DivMod
  <2> HIDE DEF t
  <2>2. ASSUME epp = 0 PROVE FALSE
    <3>1. epp * l = 0
      BY SMTT(30), <2>2
    <3> QED
      BY SMTT(30), <2>1, <3>1
  <2> QED
    BY Zenon, <2>1, <2>2
<1> DEFINE a == n + epp - 1
           u == a % epp
<1>2. a \in Nat /\ np = a \div epp
  <2>1. a \in Nat
    BY <1>1
  <2> QED
    BY Zenon, <2>1 DEF div_up
<1>3. np \in Nat /\ u \in Nat /\ u < epp /\ a = np * epp + u
  <2> HIDE DEF a
  <2>1. a \div epp \in Nat /\ u \in Nat /\ u < epp /\ a = (a \div epp) * epp + u
    BY ZenonT(60), <1>1, <1>2, DivMod
  <2> QED
    BY Zenon, <1>2, <2>1
<1>4. n <= epp * np
  <2> HIDE DEF u
  <2>1. np * epp \in Nat /\ epp * np = np * epp
    BY <1>1, <1>3
  <2> QED
    BY <1>1, <1>3, <2>1
<1> HIDE DEF a, u
<1>5. \A m \in Nat : m <= epp * np => Spaced(epp, l, m) /\ FitIn(Listed(epp, l, m), l, np, TRUE, ne)
  BY ZenonT(60), <1>1, <1>3, Paged
<1>6. PGSIZE \in Nat
  OBVIOUS
<1>7. Filled(buf, n, l, np, TRUE, ne, k)
  BY ZenonT(60), <1>1, <1>3, <1>4, <1>5, <1>6, BufFilled
<1> QED
  BY ZenonT(60), <1>3, <1>7

(* And without: as many pages as nr_elems * elem_len bytes take, filled.    *)
LEMMA PackedStore ==
  ASSUME CountFacts, PGSIZE \in Nat \ {0}, NEW n \in Nat \ {0}, NEW l \in Nat \ {0},
         NEW k \in Nat \ {0}, n % k = 0,
         NEW np, np = (n * l + PGSIZE - 1) \div PGSIZE,
         NEW P, P = (np * PGSIZE) \div l,
         NEW buf, buf = mempool_init_buf_with_pages(P, 1, l, k)
  PROVE  np \in Nat /\ P \in Nat /\ Filled(buf, n, l, np, FALSE, P, k)
<1> DEFINE b == n * l
           a == b + PGSIZE - 1
           u == a % PGSIZE
           c == np * PGSIZE
           v == c % l
<1>1. b \in Nat
  OBVIOUS
<1>2. a \in Nat /\ np = a \div PGSIZE
  <2>1. np = a \div PGSIZE
    BY Zenon
  <2> HIDE DEF b
  <2> QED
    BY SMTT(30), <1>1, <2>1
<1>3. np \in Nat /\ u \in Nat /\ u < PGSIZE /\ a = np * PGSIZE + u
  BY SMTT(30), <1>2, DivMod
<1>4. c \in Nat
  BY <1>3
<1>5. P \in Nat /\ v \in Nat /\ v < l /\ c = P * l + v
  BY SMTT(60), <1>4, DivMod
<1>6. b <= c
  <2> HIDE DEF b, u, c
  <2>1. a = c + u
    BY Zenon, <1>3 DEF c
  <2> QED
    BY <1>1, <1>3, <1>4, <2>1
<1> HIDE DEF a, u, v
<1>7. n <= P
  <2> SUFFICES ASSUME P < n PROVE FALSE
    BY <1>5
  <2>1. (P + 1) * l <= n * l /\ (P + 1) * l = P * l + l
    <3> DEFINE p == P + 1
    <3>1. p \in Int /\ n \in Int /\ l \in Nat /\ p <= n
      BY <1>5
    <3> HIDE DEF p
    <3>2. p * l <= n * l
      BY ZenonT(60), <3>1, MulMono
    <3>3. (P + 1) * l = P * l + l
      <4>1. P \in Int /\ l \in Int
        BY SMTT(30), <1>5
      <4> QED
        BY SMTT(30), <4>1
    <3> QED
      BY Zenon, <3>2, <3>3 DEF p
  <2>2. P * l \in Nat
    BY <1>5
  <2>3. P * l + l <= b
    BY Zenon, <2>1
  <2> HIDE DEF b, c
  <2> QED
    BY SMTT(30), <1>1, <1>4, <1>5, <1>6, <2>2, <2>3
<1>8. P \in Nat \ {0} /\ 1 \in Nat /\ P * 1 = P
  BY SMTT(30), <1>5, <1>7
<1>9. PGSIZE \in Nat
  OBVIOUS
<1>10. \A m \in Nat : m <= P * 1 => Spaced(P, l, m) /\ FitIn(Listed(P, l, m), l, np, FALSE, P)
  BY Zenon, <1>3, <1>8, <1>9, Packed
<1>11. n <= P * 1 /\ n \in Nat
  BY Zenon, <1>7, <1>8
<1>12. Filled(buf, n, l, np, FALSE, P, k)
  BY ZenonT(60), <1>8, <1>9, <1>10, <1>11, BufFilled
<1> QED
  BY ZenonT(60), <1>3, <1>5, <1>12

(* mempool_create_datastore.                                                *)
LEMMA NewStore ==
  ASSUME CountFacts, MempoolAssumption, PoolInv, NEW n \in NrElems, NEW l \in ElemLens,
         NEW s \in BOOLEAN, NEW k \in ChunkSizes, mempool_create_datastore(n, l, s, k)
  PROVE  /\ mds' \in Stores /\ mds'.magic /\ mds'.free_chunks = Len(mds'.chunks)
         /\ mds'.chunk_size = k
         /\ Filled(mds'.chunks, n, mds'.elem_len, mds'.nr_pages, mds'.nostraddle,
                   mds'.nr_elems, k)
         /\ ~mds.magic /\ UNCHANGED <<pool, owned, ret>>
<1> DEFINE epp == PGSIZE \div l
           np == IF s THEN div_up(n, epp) ELSE (n * l + PGSIZE - 1) \div PGSIZE
           P == (np * PGSIZE) \div l
           ch == IF s THEN mempool_init_buf_with_pages(epp, np, l, k)
                 ELSE mempool_init_buf_with_pages(P, 1, l, k)
           ne == IF s THEN n ELSE P
<1>1. /\ ~mds.magic /\ n % k = 0 /\ l # 0 /\ n # 0 /\ UNCHANGED <<pool, owned, ret>>
      /\ mds' = [magic |-> TRUE, chunks |-> ch, num_chunks |-> Len(ch),
                 free_chunks |-> Len(ch), chunk_size |-> k, elem_len |-> l,
                 nr_pages |-> np, nr_elems |-> ne, nostraddle |-> s]
  BY Zenon DEF mempool_create_datastore
<1>2. /\ PGSIZE \in Nat \ {0} /\ n \in Nat \ {0} /\ l \in Nat \ {0} /\ l <= PGSIZE
      /\ k \in Nat \ {0}
  BY <1>1 DEF MempoolAssumption
<1>3. np \in Nat /\ ne \in Nat /\ Filled(ch, n, l, np, s, ne, k)
  <2>1. CASE s
    <3>1. np = div_up(n, epp) /\ ch = mempool_init_buf_with_pages(epp, np, l, k) /\ ne = n
      BY Zenon, <2>1
    <3>2. s = TRUE
      BY Zenon, <2>1
    <3> HIDE DEF np, ch, ne
    <3>3. n \in Nat /\ epp = PGSIZE \div l
      BY Zenon, <1>2
    <3> HIDE DEF epp
    <3>4. np \in Nat /\ Filled(ch, n, l, np, TRUE, ne, k)
      BY ZenonT(60), <1>1, <1>2, <3>1, <3>3, PagedStore
    <3> QED
      BY ZenonT(60), <3>1, <3>2, <3>3, <3>4
  <2>2. CASE ~s
    <3>1. np = (n * l + PGSIZE - 1) \div PGSIZE /\ ch = mempool_init_buf_with_pages(P, 1, l, k) /\ ne = P
      BY Zenon, <2>2
    <3>2. s = FALSE
      BY Zenon, <2>2
    <3>3. P = (np * PGSIZE) \div l
      BY Zenon
    <3> HIDE DEF np, ch, ne, P, epp
    <3>4. np \in Nat /\ P \in Nat /\ Filled(ch, n, l, np, FALSE, P, k)
      BY ZenonT(60), <1>1, <1>2, <3>1, <3>3, PackedStore
    <3> QED
      BY Zenon, <3>1, <3>2, <3>4
  <2> QED
    BY Zenon, <2>1, <2>2
<1> HIDE DEF np, ne, ch, P, epp
<1>4. ch \in Seq(Seq(Elem))
  BY Zenon, <1>3 DEF Filled
<1>5. Len(ch) \in Nat
  BY <1>4
<1> DEFINE SS == Seq(Seq(Elem))
           len == Len(ch)
<1> HIDE DEF SS, len
<1>6. /\ mds'.magic = TRUE /\ mds'.chunks = ch /\ mds'.free_chunks = len
      /\ mds'.chunk_size = k /\ mds'.elem_len = l /\ mds'.nr_pages = np
      /\ mds'.nr_elems = ne /\ mds'.nostraddle = s
  BY Zenon, <1>1 DEF len
<1>7. ch \in SS /\ len \in Nat
  BY Zenon, <1>4, <1>5 DEF SS, len
<1>8. mds' \in [magic : BOOLEAN, chunks : SS, num_chunks : Nat,
           free_chunks : Nat, chunk_size : Nat \ {0}, elem_len : Nat,
           nr_pages : Nat, nr_elems : Nat, nostraddle : BOOLEAN]
  BY Zenon, <1>1, <1>2, <1>3, <1>7 DEF len
<1>9. mds' \in Stores
  BY Zenon, <1>8 DEF Stores, SS
<1> QED
  BY Zenon, <1>1, <1>3, <1>6, <1>9 DEF len

(* mempool_create_datastore fills an empty store with at least nr_elems     *)
(* elements.                                                                *)
LEMMA Fills ==
  ASSUME CountFacts, MempoolAssumption, PoolInv, NEW n \in NrElems, NEW l \in ElemLens,
         NEW s \in BOOLEAN, NEW k \in ChunkSizes, mempool_create_datastore(n, l, s, k)
  PROVE  PoolInv' /\ Abstract!Fill /\ Cardinality(Everything') >= n
<1>1. TypeOK /\ Started
  BY Zenon DEF PoolInv
<1>2. /\ mds' \in Stores /\ mds'.magic /\ mds'.free_chunks = Len(mds'.chunks)
      /\ Filled(mds'.chunks, n, mds'.elem_len, mds'.nr_pages, mds'.nostraddle,
                mds'.nr_elems, k)
      /\ ~mds.magic /\ pool' = pool /\ owned' = owned /\ ret' = ret
  BY Zenon, NewStore
<1>3. \A c \in Cores : /\ pool[c].head = <<>> /\ pool[c].private_chunk = <<>>
                       /\ owned[c] = {} /\ ~pool[c].magic /\ pool[c].num_free = 0
  BY Zenon, <1>1, <1>2 DEF Started
<1>4. Elems(<<>>) = {} /\ NoRepeat(<<>>)
  BY Zenon, SmallElems
<1>5. ASSUME NEW c \in Cores PROVE Cached(c) = {} /\ Cached(c)' = {} /\ owned[c] = {}
  <2>1. Elems(pool[c].head) = {} /\ Elems(pool[c].private_chunk) = {}
    BY Zenon, <1>3, <1>4
  <2>2. Elems(pool'[c].head) = {} /\ Elems(pool'[c].private_chunk) = {}
    BY Zenon, <1>2, <2>1
  <2>3. Cached(c) = {}
    BY Zenon, <2>1, CachedIs
  <2>4. Cached(c)' = {}
    BY Zenon, <2>2, CachedIs
  <2> QED
    BY Zenon, <1>3, <2>3, <2>4
<1>6. ASSUME NEW c \in Cores PROVE Own(c)' = {} /\ owned'[c] = {}
  <2>1. owned'[c] = {} /\ Cached(c)' = {}
    BY Zenon, <1>2, <1>5
  <2> QED
    BY Zenon, <2>1, CachedIs
<1>7. Stored' = Spread(mds'.chunks) /\ Stored = {}
  <2>1. mds.chunks = <<>>
    BY Zenon, <1>1, <1>2 DEF Started
  <2>2. Stored = {}
    BY <2>1 DEF Stored
  <2> QED
    BY Zenon, <2>2, StoredIs
<1>8. Everything' = Spread(mds'.chunks)
  <2>1. Everything' = Stored' \cup UNION {Own(c)' : c \in Cores}
    BY Zenon DEF Everything, Own
  <2>2. UNION {Own(c)' : c \in Cores} = {}
    BY Zenon, <1>6
  <2> QED
    BY Zenon, <2>1, <2>2, <1>7
<1>9. /\ Apart(mds'.chunks) /\ \A i \in DOMAIN mds'.chunks : mds'.chunks[i] # <<>>
      /\ FitIn(Everything', mds'.elem_len, mds'.nr_pages, mds'.nostraddle, mds'.nr_elems)
      /\ Cardinality(Everything') >= n
  BY Zenon, <1>2, <1>8 DEF Filled
<1>10. TypeOK'
  BY Zenon, <1>1, <1>2 DEF TypeOK, Stores
<1>11. Started'
  <2>1. \A c \in Cores : /\ pool'[c].head = <<>> /\ pool'[c].private_chunk = <<>>
                         /\ owned'[c] = {} /\ pool'[c].num_free = 0
    BY Zenon, <1>2, <1>3
  <2> QED
    BY Zenon, <1>2, <1>9, <2>1 DEF Started
<1>12. ListsApart'
  <2>1. ASSUME NEW c \in Cores
        PROVE  /\ NoRepeat(pool'[c].head) /\ NoRepeat(pool'[c].private_chunk)
               /\ Elems(pool'[c].head) \cap Elems(pool'[c].private_chunk) = {}
    BY Zenon, <1>2, <1>3, <1>4
  <2>2. Apart(mds.chunks)'
    BY Zenon, <1>9 DEF Apart, Elems, NoRepeat
  <2>3. ASSUME NEW c \in Cores
        PROVE  /\ NoRepeat(pool[c].head)' /\ NoRepeat(pool[c].private_chunk)'
               /\ (Elems(pool[c].head) \cap Elems(pool[c].private_chunk))' = {}
    BY Zenon, <2>1 DEF Elems, NoRepeat
  <2> QED
    BY Zenon, <2>2, <2>3 DEF ListsApart
<1>13. SetsApart'
  BY Zenon, <1>5, <1>6 DEF SetsApart
<1>14. ElementsFit'
  BY Zenon, <1>9 DEF FitIn, ElementsFit, mempool_ptr_to_idx, mempool_idx_to_ptr
<1>15. PoolInv'
  BY Zenon, <1>10, <1>11, <1>12, <1>13, <1>14 DEF PoolInv
<1>16. [d \in Cores |-> Cached(d)]' = [d \in Cores |-> Cached(d)]
  BY Zenon, <1>5
<1>17. \A c \in Cores : [d \in Cores |-> Cached(d)][c] = {} /\ owned[c] = {}
  BY Zenon, <1>5
<1>18. Abstract!Fill
  BY ZenonT(60), <1>2, <1>7, <1>16, <1>17 DEF Abstract!Fill
<1> QED
  BY Zenon, <1>9, <1>15, <1>18

-----------------------------------------------------------------------------
(* What every step does: it keeps the invariant, is a step of MemoryPool    *)
(* and loses no element.                                                    *)
Keeps == PoolInv' /\ [Abstract!Next]_(Abstract!vars) /\ KeepsAll

LEMMA KeepsStep ==
  ASSUME PoolInv, PoolInv', Everything' = Everything, mds.magic,
         Abstract!Next \/ UNCHANGED Abstract!vars
  PROVE  Keeps
BY Zenon DEF Keeps, KeepsAll

LEMMA KeepsFill ==
  ASSUME CountFacts, MempoolAssumption, PoolInv, NEW n \in NrElems, NEW l \in ElemLens,
         NEW s \in BOOLEAN, NEW k \in ChunkSizes, mempool_create_datastore(n, l, s, k)
  PROVE  Keeps
<1>1. PoolInv' /\ Abstract!Fill
  BY Zenon, Fills
<1>2. ~mds.magic
  BY Zenon DEF mempool_create_datastore
<1>3. KeepsAll
  BY ZenonT(60), <1>2, Fills DEF KeepsAll
<1>4. Abstract!Next
  BY Zenon, <1>1 DEF Abstract!Next
<1> QED
  BY Zenon, <1>1, <1>3, <1>4 DEF Keeps

LEMMA KeepsAlloc ==
  ASSUME PoolInv, NEW c \in Cores, mempool_alloc(c)
  PROVE  Keeps
<1>1. pool[c].magic
  BY Zenon DEF mempool_alloc
<1>2. mds.magic
  BY Zenon, <1>1 DEF PoolInv, Started
<1>3. CASE pool[c].head # <<>>
  <2>1. PoolInv' /\ Everything' = Everything /\ Abstract!Alloc(c)
    BY Zenon, <1>1, <1>3, AllocHead DEF mempool_alloc
  <2>2. Abstract!Next
    BY Zenon, <2>1 DEF Abstract!Next
  <2> QED
    BY ZenonT(60), <1>2, <2>1, <2>2, KeepsStep
<1>4. CASE pool[c].head = <<>>
  <2>1. mempool_alloc_2(c)
    BY Zenon, <1>4 DEF mempool_alloc
  <2>2. PoolInv' /\ Everything' = Everything /\ (Abstract!Alloc(c) \/ Abstract!Refuse(c))
    BY Zenon, <1>1, <1>4, <2>1, Alloc2
  <2>3. Abstract!Next
    BY Zenon, <2>2 DEF Abstract!Next
  <2> QED
    BY Zenon, <1>2, <2>2, <2>3, KeepsStep
<1> QED
  BY Zenon, <1>3, <1>4

LEMMA KeepsCreate ==
  ASSUME PoolInv, NEW c \in Cores, mempool_create(c)
  PROVE  Keeps
<1>1. PoolInv' /\ Everything' = Everything /\ UNCHANGED Abstract!vars
  BY Zenon, Create
<1>2. mds.magic
  BY Zenon DEF mempool_create
<1> QED
  BY Zenon, <1>1, <1>2, KeepsStep

(* The first and the second stage of mempool_free, with what they do to the *)
(* pool and the datastore.                                                  *)
LEMMA FreeFirst ==
  ASSUME PoolInv, NEW c \in Cores, NEW elem \in owned[c],
         pool' = [pool EXCEPT ![c].head = <<elem>> \o @, ![c].num_free = @ + 1],
         owned' = [owned EXCEPT ![c] = @ \ {elem}], ret' = ret, mds' = mds
  PROVE  Keeps
<1>1. pool' = HeadSet(pool, c, <<elem>> \o pool[c].head, pool[c].num_free + 1)
  BY Zenon DEF HeadSet
<1>2. PoolInv' /\ Everything' = Everything /\ Abstract!Free(c)
  BY Zenon, <1>1, FreePush
<1>3. mds.magic
  BY Zenon DEF PoolInv, Started
<1>4. Abstract!Next
  BY Zenon, <1>2 DEF Abstract!Next
<1> QED
  BY ZenonT(60), <1>2, <1>3, <1>4, KeepsStep

LEMMA FreeSecond ==
  ASSUME PoolInv, NEW c \in Cores, NEW elem \in owned[c], NEW n \in Int,
         pool' \in Pools(Seq(Elem)), Changed(pool, pool', c, <<elem>>, pool[c].head, n),
         owned' = [owned EXCEPT ![c] = @ \ {elem}], ret' = ret,
         mds' = IF pool[c].private_chunk = <<>> THEN mds
                ELSE [mds EXCEPT !.chunks = <<pool[c].private_chunk>> \o @,
                                 !.free_chunks = @ + 1]
  PROVE  Keeps
<1>1. PoolInv' /\ Everything' = Everything /\ Abstract!Free(c)
  BY Zenon, Free2
<1>2. mds.magic
  BY Zenon DEF PoolInv, Started
<1>3. Abstract!Next
  BY Zenon, <1>1 DEF Abstract!Next
<1> QED
  BY Zenon, <1>1, <1>2, <1>3, KeepsStep

(* The kernel's second stage sets num_free to 1, that of user code leaves   *)
(* it alone.                                                                *)
LEMMA KernelSecond ==
  ASSUME PoolInv, NEW c \in Cores, NEW elem \in owned[c], mempool_free_2(c, elem)
  PROVE  pool' \in Pools(Seq(Elem)) /\ Changed(pool, pool', c, <<elem>>, pool[c].head, 1)
<1>1. pool \in Pools(Seq(Elem)) /\ owned \in [Cores -> SUBSET Elem]
  BY Zenon DEF PoolInv, TypeOK, Pools
<1>2. pool[c].head \in Seq(Elem) /\ <<elem>> \in Seq(Elem) /\ 1 \in Int
  BY <1>1 DEF Pools
<1> DEFINE h == <<elem>>
           hd == pool[c].head
<1>3. pool' = SwapSet(pool, c, h, hd, 1)
  BY Zenon DEF mempool_free_2, SwapSet
<1>4. h \in Seq(Elem) /\ hd \in Seq(Elem)
  BY Zenon, <1>2
<1> HIDE DEF h, hd
<1>5. pool' \in Pools(Seq(Elem)) /\ Changed(pool, pool', c, h, hd, 1)
  BY ZenonT(60), <1>1, <1>2, <1>3, <1>4, SwapUpdate
<1> QED
  BY Zenon, <1>5 DEF h, hd

LEMMA UserSecond ==
  ASSUME PoolInv, NEW c \in Cores, NEW elem \in owned[c], ix_mempool_free_2(c, elem)
  PROVE  pool' \in Pools(Seq(Elem))
         /\ Changed(pool, pool', c, <<elem>>, pool[c].head, pool[c].num_free)
<1>1. pool \in Pools(Seq(Elem)) /\ owned \in [Cores -> SUBSET Elem]
  BY Zenon DEF PoolInv, TypeOK, Pools
<1>2. pool[c].head \in Seq(Elem) /\ <<elem>> \in Seq(Elem)
  BY <1>1 DEF Pools
<1> DEFINE h == <<elem>>
           hd == pool[c].head
<1>3. pool' = ListsSet(pool, c, h, hd)
  BY Zenon DEF ix_mempool_free_2, ListsSet
<1>4. h \in Seq(Elem) /\ hd \in Seq(Elem)
  BY Zenon, <1>2
<1> HIDE DEF h, hd
<1>5. pool' \in Pools(Seq(Elem)) /\ Changed(pool, pool', c, h, hd, pool[c].num_free)
  BY ZenonT(60), <1>1, <1>2, <1>3, <1>4, ListsUpdate
<1> QED
  BY Zenon, <1>5 DEF h, hd

LEMMA KeepsFree ==
  ASSUME PoolInv, NEW c \in Cores, NEW elem \in owned[c],
         mempool_free(c, elem) \/ ix_mempool_free(c, elem)
  PROVE  Keeps
<1>1. CASE pool[c].num_free < mds.chunk_size
  <2>1. /\ pool' = [pool EXCEPT ![c].head = <<elem>> \o @, ![c].num_free = @ + 1]
        /\ owned' = [owned EXCEPT ![c] = @ \ {elem}] /\ ret' = ret /\ mds' = mds
    BY Zenon, <1>1 DEF mempool_free, ix_mempool_free
  <2> QED
    BY ZenonT(60), <2>1, FreeFirst
<1>2. CASE ~(pool[c].num_free < mds.chunk_size)
  <2>1. /\ owned' = [owned EXCEPT ![c] = @ \ {elem}] /\ ret' = ret
        /\ mempool_free_2(c, elem) \/ ix_mempool_free_2(c, elem)
    BY Zenon, <1>2 DEF mempool_free, ix_mempool_free
  <2>2. mds' = IF pool[c].private_chunk = <<>> THEN mds
               ELSE [mds EXCEPT !.chunks = <<pool[c].private_chunk>> \o @,
                                !.free_chunks = @ + 1]
    BY Zenon, <2>1 DEF mempool_free_2, ix_mempool_free_2
  <2>3. pool[c].num_free \in Int /\ 1 \in Int
    BY DEF PoolInv, TypeOK
  <2>4. CASE mempool_free_2(c, elem)
    <3>1. pool' \in Pools(Seq(Elem)) /\ Changed(pool, pool', c, <<elem>>, pool[c].head, 1)
      BY ZenonT(60), <2>4, KernelSecond
    <3> QED
      BY Zenon, <2>1, <2>2, <2>3, <3>1, FreeSecond
  <2>5. CASE ix_mempool_free_2(c, elem)
    <3>1. pool' \in Pools(Seq(Elem))
          /\ Changed(pool, pool', c, <<elem>>, pool[c].head, pool[c].num_free)
      BY Zenon, <2>5, UserSecond
    <3> QED
      BY ZenonT(60), <2>1, <2>2, <2>3, <3>1, FreeSecond
  <2> QED
    BY Zenon, <2>1, <2>4, <2>5
<1> QED
  BY ZenonT(60), <1>1, <1>2

(* A step of kernel or of user code.                                        *)
LEMMA KeepsNext ==
  ASSUME CountFacts, MempoolAssumption, PoolInv, [Next]_vars \/ [UserNext]_vars
  PROVE  Keeps
<1>1. ASSUME UNCHANGED vars PROVE Keeps
  <2>1. mds' = mds /\ pool' = pool /\ owned' = owned /\ ret' = ret
    BY Zenon, <1>1 DEF vars
  <2>2. \A c \in Cores : Cached(c)' = Cached(c)
    BY Zenon, <2>1 DEF Cached
  <2>3. Stored' = Stored /\ Everything' = Everything
    BY Zenon, <2>1 DEF Stored, Everything, Cached
  <2>4. [d \in Cores |-> Cached(d)]' = [d \in Cores |-> Cached(d)]
    BY Zenon, <2>2
  <2>5. UNCHANGED Abstract!vars
    BY ZenonT(60), <2>1, <2>3, <2>4 DEF Abstract!vars
  <2>6. PoolInv'
    <3>1. TypeOK' /\ Started'
      BY Zenon, <2>1 DEF PoolInv, TypeOK, Started
    <3>2. Apart(mds'.chunks)
      BY Zenon, <2>1 DEF PoolInv, ListsApart
    <3>3. ASSUME NEW c \in Cores
          PROVE  /\ NoRepeat(pool'[c].head) /\ NoRepeat(pool'[c].private_chunk)
                 /\ Elems(pool'[c].head) \cap Elems(pool'[c].private_chunk) = {}
      BY Zenon, <2>1 DEF PoolInv, ListsApart
    <3>4. Apart(mds.chunks)'
      BY Zenon, <3>2 DEF Apart, Elems, NoRepeat
    <3>5. ASSUME NEW c \in Cores
          PROVE  /\ NoRepeat(pool[c].head)' /\ NoRepeat(pool[c].private_chunk)'
                 /\ (Elems(pool[c].head) \cap Elems(pool[c].private_chunk))' = {}
      BY Zenon, <3>3 DEF Elems, NoRepeat
    <3>6. ListsApart'
      BY Zenon, <3>4, <3>5 DEF ListsApart
    <3>7. \A c \in Cores : Own(c)' = Own(c)
      BY ZenonT(60), <2>1, <2>2 DEF Own
    <3>8. SetsApart'
      BY ZenonT(60), <2>1, <2>2, <2>3, <3>7 DEF PoolInv, SetsApart
    <3>9. ElementsFit'
      BY Zenon, <2>1, <2>3 DEF PoolInv, ElementsFit, mempool_ptr_to_idx, mempool_idx_to_ptr
    <3> QED
      BY ZenonT(60), <3>1, <3>6, <3>8, <3>9 DEF PoolInv
  <2>7. ASSUME NEW n \in NrElems, NEW l \in ElemLens, NEW s \in BOOLEAN, NEW k \in ChunkSizes,
               mempool_create_datastore(n, l, s, k)
        PROVE  Cardinality(Everything') >= n
    BY Zenon, <2>7, Fills
  <2>8. KeepsAll
    BY Zenon, <2>3, <2>7 DEF KeepsAll
  <2> QED
    BY ZenonT(60), <2>5, <2>6, <2>8 DEF Keeps
<1>2. ASSUME Next \/ UserNext PROVE Keeps
  <2>1. ASSUME NEW n \in NrElems, NEW l \in ElemLens, NEW s \in BOOLEAN, NEW k \in ChunkSizes,
               mempool_create_datastore(n, l, s, k)
        PROVE  Keeps
    BY ZenonT(60), <2>1, KeepsFill
  <2>2. ASSUME NEW c \in Cores, mempool_create(c) PROVE Keeps
    BY ZenonT(60), <2>2, KeepsCreate
  <2>3. ASSUME NEW c \in Cores, mempool_alloc(c) PROVE Keeps
    BY Zenon, <2>3, KeepsAlloc
  <2>4. ASSUME NEW c \in Cores, NEW e \in Freeable(c), mempool_free(c, e) \/ ix_mempool_free(c, e)
        PROVE  Keeps
    <3>1. e \in owned[c]
      BY Zenon DEF Freeable
    <3> QED
      BY ZenonT(60), <2>4, <3>1, KeepsFree
  <2>5. ASSUME NEW c \in Cores PROVE ix_mempool_alloc(c) => mempool_alloc(c)
    BY Zenon DEF ix_mempool_alloc, mempool_alloc, ix_mempool_alloc_2
  <2>6. CASE Next
    BY ZenonT(60), <2>1, <2>2, <2>3, <2>4, <2>6 DEF Next
  <2>7. CASE UserNext
    BY ZenonT(60), <2>1, <2>2, <2>3, <2>4, <2>5, <2>7
       DEF UserNext, ix_mempool_create, ix_mempool_create_datastore
  <2> QED
    BY Zenon, <1>2, <2>6, <2>7
<1> QED
  BY Zenon, <1>1, <1>2

-----------------------------------------------------------------------------
(* The counters of one pool, for chunks of k elements: of the kernel's      *)
(* pools and of those of user code.                                         *)
Counted(p, k) ==
  /\ p.num_free <= Len(p.head) /\ p.num_free <= k
  /\ p.private_chunk # <<>> => Len(p.private_chunk) >= k
UserCounted(p, k) == p.num_free <= k /\ p.num_free - Len(p.head) < k

(* A list of chunks of at least k elements.                                 *)
Full(ch, k) == \A i \in DOMAIN ch : Len(ch[i]) >= k

(* What a step makes of the pool p of its core: it pops an element, pushes  *)
(* one, takes a chunk, sets the list aside, or leaves the lists alone.      *)
Pops(p, q) ==
  /\ Len(q.head) = Len(p.head) - 1 /\ q.num_free = p.num_free - 1
  /\ q.private_chunk = p.private_chunk
Pushes(p, q) ==
  /\ Len(q.head) = Len(p.head) + 1 /\ q.num_free = p.num_free + 1
  /\ q.private_chunk = p.private_chunk
Refills(p, q) == Len(p.head) = 0 /\ q.num_free = p.num_free /\ q.private_chunk = <<>>
SetsAside(p, q, n) == Len(q.head) = 1 /\ q.num_free = n /\ q.private_chunk = p.head
Alike(p, q) ==
  q.head = p.head /\ q.num_free = p.num_free /\ q.private_chunk = p.private_chunk
PoolRec == [magic : BOOLEAN, head : Seq(Elem), private_chunk : Seq(Elem), num_free : Int]

(* Each of these keeps the counters of the kernel's pools: num_free never   *)
(* exceeds what the list holds, so the list that is set aside, with         *)
(* num_free at least k, is a full chunk.                                    *)
LEMMA CountedStep ==
  ASSUME NEW p \in PoolRec, NEW q \in PoolRec, NEW k \in Nat \ {0}, Counted(p, k),
         \/ Pops(p, q) \/ Refills(p, q) \/ Alike(p, q)
         \/ Pushes(p, q) /\ p.num_free < k
         \/ SetsAside(p, q, 1) /\ ~(p.num_free < k)
  PROVE  Counted(q, k)
<1>1. /\ p.num_free \in Int /\ q.num_free \in Int
      /\ Len(p.head) \in Nat /\ Len(q.head) \in Nat
      /\ Len(p.private_chunk) \in Nat /\ Len(q.private_chunk) \in Nat
  BY DEF PoolRec
<1>2. /\ p.num_free <= Len(p.head) /\ p.num_free <= k
      /\ p.private_chunk # <<>> => Len(p.private_chunk) >= k
  BY Zenon DEF Counted
<1>3. CASE Pops(p, q)
  BY SMTT(30), <1>1, <1>2, <1>3 DEF Pops, Counted
<1>4. CASE Refills(p, q)
  BY SMTT(30), <1>1, <1>2, <1>4 DEF Refills, Counted
<1>5. CASE Alike(p, q)
  BY Zenon, <1>1, <1>2, <1>5 DEF Alike, Counted
<1>6. CASE Pushes(p, q) /\ p.num_free < k
  BY SMTT(30), <1>1, <1>2, <1>6 DEF Pushes, Counted
<1>7. CASE SetsAside(p, q, 1) /\ ~(p.num_free < k)
  BY SMTT(30), <1>1, <1>2, <1>7 DEF SetsAside, Counted
<1> QED
  BY ZenonT(60), <1>3, <1>4, <1>5, <1>6, <1>7

(* And those of the pools of user code, where setting the list aside leaves *)
(* num_free at k.                                                           *)
LEMMA UserCountedStep ==
  ASSUME NEW p \in PoolRec, NEW q \in PoolRec, NEW k \in Nat \ {0}, UserCounted(p, k),
         \/ Pops(p, q) \/ Refills(p, q) \/ Alike(p, q)
         \/ Pushes(p, q) /\ p.num_free < k
         \/ SetsAside(p, q, p.num_free) /\ ~(p.num_free < k)
  PROVE  UserCounted(q, k)
<1>1. /\ p.num_free \in Int /\ q.num_free \in Int
      /\ Len(p.head) \in Nat /\ Len(q.head) \in Nat
  BY DEF PoolRec
<1>2. p.num_free <= k /\ p.num_free - Len(p.head) < k
  BY Zenon DEF UserCounted
<1>3. CASE Pops(p, q)
  BY SMTT(30), <1>1, <1>2, <1>3 DEF Pops, UserCounted
<1>4. CASE Refills(p, q)
  BY SMTT(30), <1>1, <1>2, <1>4 DEF Refills, UserCounted
<1>5. CASE Alike(p, q)
  BY Zenon, <1>1, <1>2, <1>5 DEF Alike, UserCounted
<1>6. CASE Pushes(p, q) /\ p.num_free < k
  BY SMTT(30), <1>1, <1>2, <1>6 DEF Pushes, UserCounted
<1>7. CASE SetsAside(p, q, p.num_free) /\ ~(p.num_free < k)
  BY SMTT(30), <1>1, <1>2, <1>7 DEF SetsAside, UserCounted
<1> QED
  BY ZenonT(60), <1>3, <1>4, <1>5, <1>6, <1>7

(* The chunks of one list are chunks of another.                            *)
Drawn(ch, from) == \A i \in DOMAIN ch : \E j \in DOMAIN from : ch[i] = from[j]

(* mempool_alloc pops an element or takes a chunk, or changes no list.      *)
LEMMA AllocCounts ==
  ASSUME PoolInv, NEW c \in Cores, mempool_alloc(c)
  PROVE  /\ \A d \in Cores \ {c} : pool'[d] = pool[d]
         /\ mds'.chunk_size = mds.chunk_size /\ Drawn(mds'.chunks, mds.chunks)
         /\ \/ Pops(pool[c], pool'[c]) \/ Refills(pool[c], pool'[c])
            \/ Alike(pool[c], pool'[c])
<1>1. /\ pool \in Pools(Seq(Elem)) /\ mds \in Stores
      /\ pool[c].head \in Seq(Elem) /\ pool[c].private_chunk \in Seq(Elem)
      /\ pool[c].num_free \in Int /\ mds.chunks \in Seq(Seq(Elem))
  BY Zenon DEF PoolInv, TypeOK, Pools, Stores
<1>2. Drawn(mds.chunks, mds.chunks)
  BY Zenon DEF Drawn
<1>3. NoRepeat(pool[c].head) /\ Apart(mds.chunks)
  BY Zenon DEF PoolInv, ListsApart
<1>4. CASE pool[c].head # <<>>
  <2> DEFINE t == Tail(pool[c].head)
             n == pool[c].num_free - 1
  <2>1. t \in Seq(Elem) /\ Len(t) = Len(pool[c].head) - 1
    BY ZenonT(60), <1>1, <1>3, <1>4, TailElems
  <2>2. n \in Int
    BY <1>1
  <2>3. pool' = HeadSet(pool, c, t, n) /\ mds' = mds
    BY Zenon, <1>4 DEF mempool_alloc, HeadSet
  <2>4. n = pool[c].num_free - 1
    OBVIOUS
  <2> HIDE DEF t, n
  <2>5. Changed(pool, pool', c, t, pool[c].private_chunk, n)
    BY ZenonT(60), <1>1, <2>1, <2>2, <2>3, HeadUpdate
  <2>6. Pops(pool[c], pool'[c])
    BY Zenon, <2>1, <2>4, <2>5 DEF Changed, Pops
  <2> QED
    BY ZenonT(60), <1>2, <2>3, <2>5, <2>6 DEF Changed
<1>5. CASE pool[c].head = <<>> /\ pool[c].private_chunk = <<>> /\ mds.chunks = <<>>
  <2>1. pool' = pool /\ mds' = mds
    BY Zenon, <1>5 DEF mempool_alloc, mempool_alloc_2
  <2> QED
    BY Zenon, <1>2, <2>1 DEF Alike
<1>6. CASE pool[c].head = <<>> /\ ~(pool[c].private_chunk = <<>> /\ mds.chunks = <<>>)
  <2> DEFINE y == IF pool[c].private_chunk # <<>> THEN pool[c].private_chunk
                  ELSE Head(mds.chunks)
             t == Tail(y)
             e == <<>>
  <2>1. pool' = ChunkSet(pool, c, t, e)
    BY Zenon, <1>6 DEF mempool_alloc, mempool_alloc_2, ChunkSet
  <2>2. /\ mds' = IF pool[c].private_chunk # <<>> THEN mds
                  ELSE [mds EXCEPT !.chunks = Tail(@), !.free_chunks = @ - 1]
    BY Zenon, <1>6 DEF mempool_alloc, mempool_alloc_2
  <2>3. y \in Seq(Elem) /\ y # <<>>
    <3>1. CASE pool[c].private_chunk # <<>>
      BY Zenon, <1>1, <3>1
    <3>2. CASE pool[c].private_chunk = <<>>
      <4>1. Head(mds.chunks) \in Seq(Elem) /\ \E i \in DOMAIN mds.chunks : Head(mds.chunks) = mds.chunks[i]
        BY ZenonT(60), <1>1, <1>3, <1>6, <3>2, TailChunks
      <4>2. \A i \in DOMAIN mds.chunks : mds.chunks[i] # <<>>
        BY Zenon DEF PoolInv, Started
      <4> QED
        BY Zenon, <3>2, <4>1, <4>2
    <3> QED
      BY Zenon, <3>1, <3>2
  <2>4. t \in Seq(Elem) /\ e \in Seq(Elem) /\ Len(<<>>) = 0
    <3> HIDE DEF y
    <3> QED
      BY SMTT(30), <2>3
  <2>5. mds'.chunk_size = mds.chunk_size /\ Drawn(mds'.chunks, mds.chunks)
    <3>1. CASE pool[c].private_chunk # <<>>
      BY Zenon, <1>2, <2>2, <3>1
    <3>2. CASE pool[c].private_chunk = <<>>
      <4>1. mds' = [mds EXCEPT !.chunks = Tail(@), !.free_chunks = @ - 1]
        BY Zenon, <2>2, <3>2
      <4>2. mds'.chunk_size = mds.chunk_size /\ mds'.chunks = Tail(mds.chunks)
        BY Zenon, <1>1, <4>1 DEF Stores
      <4>3. \A i \in DOMAIN Tail(mds.chunks) :
              \E j \in DOMAIN mds.chunks : Tail(mds.chunks)[i] = mds.chunks[j]
        BY Zenon, <1>1, <1>3, <1>6, <3>2, TailChunks
      <4> QED
        BY Zenon, <4>2, <4>3 DEF Drawn
    <3> QED
      BY Zenon, <3>1, <3>2
  <2>6. e = <<>>
    OBVIOUS
  <2> HIDE DEF y, t, e
  <2>7. Changed(pool, pool', c, t, e, pool[c].num_free)
    BY Zenon, <1>1, <2>1, <2>4, ChunkUpdate
  <2>8. Refills(pool[c], pool'[c])
    BY ZenonT(60), <1>6, <2>4, <2>6, <2>7 DEF Changed, Refills
  <2> QED
    BY ZenonT(60), <2>5, <2>7, <2>8 DEF Changed
<1> QED
  BY ZenonT(60), <1>4, <1>5, <1>6

(* mempool_create sets the head of a list that is empty to the empty list.  *)
LEMMA CreateCounts ==
  ASSUME PoolInv, NEW c \in Cores, mempool_create(c)
  PROVE  /\ \A d \in Cores \ {c} : pool'[d] = pool[d]
         /\ mds' = mds /\ Alike(pool[c], pool'[c])
<1>1. /\ pool' = [pool EXCEPT ![c].magic = TRUE, ![c].head = <<>>] /\ mds' = mds
      /\ ~pool[c].magic
  BY Zenon DEF mempool_create
<1>2. pool[c].head = <<>>
  BY Zenon, <1>1 DEF PoolInv, Started
<1>3. pool \in Pools(Seq(Elem))
  BY Zenon DEF PoolInv, TypeOK, Pools
<1>4. \A d \in Cores \ {c} : pool'[d] = pool[d]
  BY Zenon, <1>1, <1>3 DEF Pools
<1>5. /\ pool'[c].head = <<>> /\ pool'[c].num_free = pool[c].num_free
      /\ pool'[c].private_chunk = pool[c].private_chunk
  BY Zenon, <1>1, <1>3 DEF Pools
<1> QED
  BY ZenonT(60), <1>1, <1>2, <1>4, <1>5 DEF Alike

(* The first stage of mempool_free pushes the element.                      *)
LEMMA PushCounts ==
  ASSUME PoolInv, NEW c \in Cores, NEW elem \in owned[c],
         pool' = [pool EXCEPT ![c].head = <<elem>> \o @, ![c].num_free = @ + 1]
  PROVE  (\A d \in Cores \ {c} : pool'[d] = pool[d]) /\ Pushes(pool[c], pool'[c])
<1>1. /\ pool \in Pools(Seq(Elem)) /\ elem \in Elem
      /\ pool[c].head \in Seq(Elem) /\ pool[c].num_free \in Int
  BY Zenon DEF PoolInv, TypeOK, Pools
<1> DEFINE t == <<elem>> \o pool[c].head
           n == pool[c].num_free + 1
<1>2. t \in Seq(Elem) /\ Len(t) = Len(pool[c].head) + 1
  BY Zenon, <1>1, PushElems
<1>3. n \in Int /\ n = pool[c].num_free + 1
  BY <1>1
<1>4. pool' = HeadSet(pool, c, t, n)
  BY Zenon DEF HeadSet
<1> HIDE DEF t, n
<1>5. Changed(pool, pool', c, t, pool[c].private_chunk, n)
  BY ZenonT(60), <1>1, <1>2, <1>3, <1>4, HeadUpdate
<1> QED
  BY Zenon, <1>2, <1>3, <1>5 DEF Changed, Pushes

(* The second stage sets the list aside, and the chunk that was set aside   *)
(* before, if there is one, goes to the datastore.                          *)
LEMMA AsideCounts ==
  ASSUME PoolInv, NEW c \in Cores, NEW elem \in owned[c], NEW n \in Int,
         Changed(pool, pool', c, <<elem>>, pool[c].head, n),
         mds' = IF pool[c].private_chunk = <<>> THEN mds
                ELSE [mds EXCEPT !.chunks = <<pool[c].private_chunk>> \o @,
                                 !.free_chunks = @ + 1]
  PROVE  /\ \A d \in Cores \ {c} : pool'[d] = pool[d]
         /\ SetsAside(pool[c], pool'[c], n)
         /\ mds'.chunk_size = mds.chunk_size
         /\ \A i \in DOMAIN mds'.chunks :
              \/ pool[c].private_chunk # <<>> /\ mds'.chunks[i] = pool[c].private_chunk
              \/ \E j \in DOMAIN mds.chunks : mds'.chunks[i] = mds.chunks[j]
<1>1. Len(<<elem>>) = 1
  OBVIOUS
<1>2. (\A d \in Cores \ {c} : pool'[d] = pool[d]) /\ SetsAside(pool[c], pool'[c], n)
  BY Zenon, <1>1 DEF Changed, SetsAside
<1>3. CASE pool[c].private_chunk = <<>>
  BY Zenon, <1>2, <1>3
<1>4. CASE pool[c].private_chunk # <<>>
  <2> DEFINE y == pool[c].private_chunk
             ch == <<y>> \o mds.chunks
  <2>1. mds \in Stores /\ mds.chunks \in Seq(Seq(Elem)) /\ y \in Seq(Elem)
    BY Zenon DEF PoolInv, TypeOK, Stores
  <2>2. mds' = [mds EXCEPT !.chunks = <<y>> \o @, !.free_chunks = @ + 1]
    BY Zenon, <1>4
  <2>3. mds'.chunk_size = mds.chunk_size /\ mds'.chunks = ch
    BY Zenon, <2>1, <2>2 DEF Stores
  <2>4. Apart(mds.chunks) /\ NoRepeat(y)
    BY Zenon DEF PoolInv, ListsApart
  <2>5. Elems(y) \cap Spread(mds.chunks) = {}
    <3>1. Own(c) \cap Stored = {}
      BY Zenon DEF PoolInv, SetsApart
    <3> QED
      BY Zenon, <3>1, StoredIs, CachedIs
  <2>6. \A i \in DOMAIN ch : ch[i] = y \/ \E j \in DOMAIN mds.chunks : ch[i] = mds.chunks[j]
    <3> HIDE DEF y
    <3> QED
      BY ZenonT(60), <2>1, <2>4, <2>5, PushChunk
  <2>7. y = pool[c].private_chunk
    OBVIOUS
  <2> HIDE DEF y, ch
  <2> QED
    BY ZenonT(60), <1>2, <1>4, <2>3, <2>6, <2>7
<1> QED
  BY Zenon, <1>3, <1>4

(* CountersAgree in the terms of this section.                              *)
LEMMA CountersAre ==
  ASSUME PoolInv
  PROVE  CountersAgree <=>
           /\ Full(mds.chunks, mds.chunk_size)
           /\ \A c \in Cores : Counted(pool[c], mds.chunk_size)
BY Zenon DEF PoolInv, Started, CountersAgree, Full, Counted

LEMMA UserCountersAre ==
  ASSUME PoolInv
  PROVE  UserCountersAgree <=> \A c \in Cores : UserCounted(pool[c], mds.chunk_size)
BY Zenon DEF PoolInv, Started, UserCountersAgree, UserCounted

(* The same in the next state.                                              *)
LEMMA CountersAreNext ==
  ASSUME PoolInv', Full(mds'.chunks, mds'.chunk_size),
         \A c \in Cores : Counted(pool'[c], mds'.chunk_size)
  PROVE  CountersAgree'
<1>1. mds'.free_chunks = Len(mds'.chunks)
  BY Zenon DEF PoolInv, Started
<1> QED
  BY Zenon, <1>1 DEF CountersAgree, Full, Counted

LEMMA UserCountersAreNext ==
  ASSUME PoolInv', \A c \in Cores : UserCounted(pool'[c], mds'.chunk_size)
  PROVE  UserCountersAgree'
<1>1. mds'.free_chunks = Len(mds'.chunks)
  BY Zenon DEF PoolInv, Started
<1> QED
  BY Zenon, <1>1 DEF UserCountersAgree, UserCounted

(* Before mempool_create_datastore every pool is as NoPool is.              *)
LEMMA CountersAtFill ==
  ASSUME CountFacts, MempoolAssumption, PoolInv, NEW n \in NrElems, NEW l \in ElemLens,
         NEW s \in BOOLEAN, NEW k \in ChunkSizes, mempool_create_datastore(n, l, s, k)
  PROVE  /\ Full(mds'.chunks, mds'.chunk_size)
         /\ \A c \in Cores : /\ Counted(pool'[c], mds'.chunk_size)
                             /\ UserCounted(pool'[c], mds'.chunk_size)
<1>1. /\ mds'.chunk_size = k /\ ~mds.magic /\ pool' = pool
      /\ Filled(mds'.chunks, n, mds'.elem_len, mds'.nr_pages, mds'.nostraddle,
                mds'.nr_elems, k)
  BY Zenon, NewStore
<1>2. k \in Nat \ {0}
  BY Zenon DEF MempoolAssumption
<1>3. \A i \in DOMAIN mds'.chunks : Len(mds'.chunks[i]) = k
  BY Zenon, <1>1 DEF Filled
<1>4. k >= k
  BY <1>2
<1>5. Full(mds'.chunks, mds'.chunk_size)
  BY Zenon, <1>1, <1>3, <1>4 DEF Full
<1>6. ASSUME NEW c \in Cores
      PROVE  pool'[c].head = <<>> /\ pool'[c].private_chunk = <<>> /\ pool'[c].num_free = 0
  BY Zenon, <1>1 DEF PoolInv, Started
<1>7. Len(<<>>) = 0 /\ 0 <= 0 /\ 0 <= k /\ 0 - 0 < k
  BY <1>2
<1>8. ASSUME NEW c \in Cores PROVE Counted(pool'[c], k) /\ UserCounted(pool'[c], k)
  BY Zenon, <1>6, <1>7 DEF Counted, UserCounted
<1> QED
  BY Zenon, <1>1, <1>5, <1>8

(* A step of core c keeps the counters of every pool when it keeps those of *)
(* its own and chunk_size.                                                  *)
LEMMA CountersLocal ==
  ASSUME PoolInv, PoolInv', CountersAgree, NEW c \in Cores,
         \A d \in Cores \ {c} : pool'[d] = pool[d], mds'.chunk_size = mds.chunk_size,
         Full(mds'.chunks, mds.chunk_size), Counted(pool'[c], mds.chunk_size)
  PROVE  CountersAgree'
<1>1. \A d \in Cores : Counted(pool[d], mds.chunk_size)
  BY Zenon, CountersAre
<1>2. \A d \in Cores : Counted(pool'[d], mds'.chunk_size)
  BY Zenon, <1>1
<1>3. Full(mds'.chunks, mds'.chunk_size)
  BY Zenon
<1> QED
  BY Zenon, <1>2, <1>3, CountersAreNext

LEMMA UserCountersLocal ==
  ASSUME PoolInv, PoolInv', UserCountersAgree, NEW c \in Cores,
         \A d \in Cores \ {c} : pool'[d] = pool[d], mds'.chunk_size = mds.chunk_size,
         UserCounted(pool'[c], mds.chunk_size)
  PROVE  UserCountersAgree'
<1>1. \A d \in Cores : UserCounted(pool[d], mds.chunk_size)
  BY Zenon, UserCountersAre
<1>2. \A d \in Cores : UserCounted(pool'[d], mds'.chunk_size)
  BY Zenon, <1>1
<1> QED
  BY Zenon, <1>2, UserCountersAreNext

(* The types that the counters are compared in.                             *)
LEMMA CounterTypes ==
  ASSUME PoolInv, PoolInv', NEW c \in Cores
  PROVE  pool[c] \in PoolRec /\ pool'[c] \in PoolRec /\ mds.chunk_size \in Nat \ {0}
<1>1. pool \in [Cores -> PoolRec] /\ mds \in Stores
  BY Zenon DEF PoolInv, TypeOK, PoolRec, Stores
<1>2. pool' \in [Cores -> PoolRec]
  BY Zenon DEF PoolInv, TypeOK, PoolRec
<1>3. mds.chunk_size \in Nat \ {0}
  BY Zenon, <1>1 DEF Stores
<1> QED
  BY Zenon, <1>1, <1>2, <1>3

(* Every step of the kernel's pools keeps CountersAgree.                    *)
LEMMA KernelCounters ==
  ASSUME CountFacts, MempoolAssumption, PoolInv, CountersAgree, [Next]_vars
  PROVE  CountersAgree'
<1>1. PoolInv'
  BY Zenon, KeepsNext DEF Keeps
<1>2. /\ Full(mds.chunks, mds.chunk_size)
      /\ \A c \in Cores : Counted(pool[c], mds.chunk_size)
  BY Zenon, CountersAre
<1>3. ASSUME NEW ch, Drawn(ch, mds.chunks) PROVE Full(ch, mds.chunk_size)
  BY Zenon, <1>2, <1>3 DEF Drawn, Full
<1>4. Full(mds.chunks, mds.chunk_size) /\ mds.chunk_size = mds.chunk_size
  BY Zenon, <1>2
<1>5. CASE UNCHANGED vars
  <2>1. pool' = pool /\ mds' = mds
    BY Zenon, <1>5 DEF vars
  <2> QED
    BY ZenonT(60), <1>1, <1>2, <2>1, CountersAreNext
<1>6. ASSUME NEW n \in NrElems, NEW l \in ElemLens, NEW s \in BOOLEAN, NEW k \in ChunkSizes,
             mempool_create_datastore(n, l, s, k)
      PROVE  CountersAgree'
  BY ZenonT(60), <1>1, <1>6, CountersAtFill, CountersAreNext
<1>7. ASSUME NEW c \in Cores, mempool_create(c) PROVE CountersAgree'
  <2>1. (\A d \in Cores \ {c} : pool'[d] = pool[d]) /\ mds' = mds /\ Alike(pool[c], pool'[c])
    BY Zenon, <1>7, CreateCounts
  <2>2. pool[c] \in PoolRec /\ pool'[c] \in PoolRec /\ mds.chunk_size \in Nat \ {0}
    BY Zenon, <1>1, CounterTypes
  <2>3. Counted(pool'[c], mds.chunk_size)
    BY Zenon, <1>2, <2>1, <2>2, CountedStep
  <2>4. Full(mds'.chunks, mds.chunk_size) /\ mds'.chunk_size = mds.chunk_size
    BY Zenon, <1>4, <2>1
  <2> QED
    BY ZenonT(60), <1>1, <2>1, <2>3, <2>4, CountersLocal
<1>8. ASSUME NEW c \in Cores, mempool_alloc(c) PROVE CountersAgree'
  <2>1. /\ \A d \in Cores \ {c} : pool'[d] = pool[d]
        /\ mds'.chunk_size = mds.chunk_size /\ Drawn(mds'.chunks, mds.chunks)
        /\ Pops(pool[c], pool'[c]) \/ Refills(pool[c], pool'[c]) \/ Alike(pool[c], pool'[c])
    BY ZenonT(60), <1>8, AllocCounts
  <2>2. pool[c] \in PoolRec /\ pool'[c] \in PoolRec /\ mds.chunk_size \in Nat \ {0}
    BY Zenon, <1>1, CounterTypes
  <2>3. Counted(pool'[c], mds.chunk_size)
    BY ZenonT(60), <1>2, <2>1, <2>2, CountedStep
  <2>4. Full(mds'.chunks, mds.chunk_size)
    BY Zenon, <1>3, <2>1
  <2> QED
    BY ZenonT(60), <1>1, <2>1, <2>3, <2>4, CountersLocal
<1>9. ASSUME NEW c \in Cores, NEW e \in owned[c], mempool_free(c, e) PROVE CountersAgree'
  <2>1. pool[c] \in PoolRec /\ pool'[c] \in PoolRec /\ mds.chunk_size \in Nat \ {0}
    BY Zenon, <1>1, CounterTypes
  <2>2. CASE pool[c].num_free < mds.chunk_size
    <3>1. pool' = [pool EXCEPT ![c].head = <<e>> \o @, ![c].num_free = @ + 1] /\ mds' = mds
      BY Zenon, <1>9, <2>2 DEF mempool_free
    <3>2. (\A d \in Cores \ {c} : pool'[d] = pool[d]) /\ Pushes(pool[c], pool'[c])
      BY Zenon, <3>1, PushCounts
    <3>3. Counted(pool'[c], mds.chunk_size)
      BY ZenonT(60), <1>2, <2>1, <2>2, <3>2, CountedStep
    <3>4. Full(mds'.chunks, mds.chunk_size) /\ mds'.chunk_size = mds.chunk_size
      BY ZenonT(60), <1>4, <3>1
    <3> QED
      BY Zenon, <1>1, <3>2, <3>3, <3>4, CountersLocal
  <2>3. CASE ~(pool[c].num_free < mds.chunk_size)
    <3>1. mempool_free_2(c, e)
      BY Zenon, <1>9, <2>3 DEF mempool_free
    <3>2. mds' = IF pool[c].private_chunk = <<>> THEN mds
                 ELSE [mds EXCEPT !.chunks = <<pool[c].private_chunk>> \o @,
                                  !.free_chunks = @ + 1]
      BY Zenon, <3>1 DEF mempool_free_2
    <3>3. Changed(pool, pool', c, <<e>>, pool[c].head, 1) /\ 1 \in Int
      BY SMTT(30), <3>1, KernelSecond
    <3>4. /\ \A d \in Cores \ {c} : pool'[d] = pool[d]
          /\ SetsAside(pool[c], pool'[c], 1)
          /\ mds'.chunk_size = mds.chunk_size
          /\ \A i \in DOMAIN mds'.chunks :
               \/ pool[c].private_chunk # <<>> /\ mds'.chunks[i] = pool[c].private_chunk
               \/ \E j \in DOMAIN mds.chunks : mds'.chunks[i] = mds.chunks[j]
      BY ZenonT(60), <3>2, <3>3, AsideCounts
    <3>5. Counted(pool'[c], mds.chunk_size)
      BY ZenonT(60), <1>2, <2>1, <2>3, <3>4, CountedStep
    <3>6. pool[c].private_chunk # <<>> => Len(pool[c].private_chunk) >= mds.chunk_size
      BY Zenon, <1>2 DEF Counted
    <3>7. Full(mds'.chunks, mds.chunk_size)
      BY ZenonT(60), <1>2, <3>4, <3>6 DEF Full
    <3> QED
      BY ZenonT(60), <1>1, <3>4, <3>5, <3>7, CountersLocal
  <2> QED
    BY Zenon, <2>2, <2>3
<1>10. \A c \in Cores : Freeable(c) \subseteq owned[c]
  BY Zenon DEF Freeable
<1>11. CASE Next
  BY ZenonT(60), <1>6, <1>7, <1>8, <1>9, <1>10, <1>11 DEF Next
<1> QED
  BY Zenon, <1>5, <1>11

(* Every step of the pools of user code keeps UserCountersAgree.            *)
LEMMA UserCounters ==
  ASSUME CountFacts, MempoolAssumption, PoolInv, UserCountersAgree, [UserNext]_vars
  PROVE  UserCountersAgree'
<1>1. PoolInv'
  BY Zenon, KeepsNext DEF Keeps
<1>2. \A c \in Cores : UserCounted(pool[c], mds.chunk_size)
  BY Zenon, UserCountersAre
<1>3. CASE UNCHANGED vars
  <2>1. pool' = pool /\ mds' = mds
    BY Zenon, <1>3 DEF vars
  <2> QED
    BY ZenonT(60), <1>1, <1>2, <2>1, UserCountersAreNext
<1>4. ASSUME NEW n \in NrElems, NEW l \in ElemLens, NEW s \in BOOLEAN, NEW k \in ChunkSizes,
             mempool_create_datastore(n, l, s, k)
      PROVE  UserCountersAgree'
  BY ZenonT(60), <1>1, <1>4, CountersAtFill, UserCountersAreNext
<1>5. ASSUME NEW c \in Cores, mempool_create(c) PROVE UserCountersAgree'
  <2>1. (\A d \in Cores \ {c} : pool'[d] = pool[d]) /\ mds' = mds /\ Alike(pool[c], pool'[c])
    BY Zenon, <1>5, CreateCounts
  <2>2. pool[c] \in PoolRec /\ pool'[c] \in PoolRec /\ mds.chunk_size \in Nat \ {0}
    BY Zenon, <1>1, CounterTypes
  <2>3. UserCounted(pool'[c], mds.chunk_size)
    BY ZenonT(60), <1>2, <2>1, <2>2, UserCountedStep
  <2>4. mds'.chunk_size = mds.chunk_size
    BY Zenon, <2>1
  <2> QED
    BY ZenonT(60), <1>1, <2>1, <2>3, <2>4, UserCountersLocal
<1>6. ASSUME NEW c \in Cores, mempool_alloc(c) PROVE UserCountersAgree'
  <2>1. /\ \A d \in Cores \ {c} : pool'[d] = pool[d]
        /\ mds'.chunk_size = mds.chunk_size
        /\ Pops(pool[c], pool'[c]) \/ Refills(pool[c], pool'[c]) \/ Alike(pool[c], pool'[c])
    BY ZenonT(60), <1>6, AllocCounts
  <2>2. pool[c] \in PoolRec /\ pool'[c] \in PoolRec /\ mds.chunk_size \in Nat \ {0}
    BY Zenon, <1>1, CounterTypes
  <2>3. UserCounted(pool'[c], mds.chunk_size)
    BY Zenon, <1>2, <2>1, <2>2, UserCountedStep
  <2> QED
    BY ZenonT(60), <1>1, <2>1, <2>3, UserCountersLocal
<1>7. ASSUME NEW c \in Cores, NEW e \in owned[c], ix_mempool_free(c, e)
      PROVE  UserCountersAgree'
  <2>1. pool[c] \in PoolRec /\ pool'[c] \in PoolRec /\ mds.chunk_size \in Nat \ {0}
    BY Zenon, <1>1, CounterTypes
  <2>2. CASE pool[c].num_free < mds.chunk_size
    <3>1. pool' = [pool EXCEPT ![c].head = <<e>> \o @, ![c].num_free = @ + 1] /\ mds' = mds
      BY Zenon, <1>7, <2>2 DEF ix_mempool_free
    <3>2. (\A d \in Cores \ {c} : pool'[d] = pool[d]) /\ Pushes(pool[c], pool'[c])
      BY Zenon, <3>1, PushCounts
    <3>3. UserCounted(pool'[c], mds.chunk_size)
      BY ZenonT(60), <1>2, <2>1, <2>2, <3>2, UserCountedStep
    <3>4. mds'.chunk_size = mds.chunk_size
      BY Zenon, <3>1
    <3> QED
      BY ZenonT(60), <1>1, <3>2, <3>3, <3>4, UserCountersLocal
  <2>3. CASE ~(pool[c].num_free < mds.chunk_size)
    <3>1. ix_mempool_free_2(c, e)
      BY Zenon, <1>7, <2>3 DEF ix_mempool_free
    <3>2. mds' = IF pool[c].private_chunk = <<>> THEN mds
                 ELSE [mds EXCEPT !.chunks = <<pool[c].private_chunk>> \o @,
                                  !.free_chunks = @ + 1]
      BY Zenon, <3>1 DEF ix_mempool_free_2
    <3>3. Changed(pool, pool', c, <<e>>, pool[c].head, pool[c].num_free)
      BY Zenon, <3>1, UserSecond
    <3>4. pool[c].num_free \in Int
      BY Zenon, <2>1 DEF PoolRec
    <3>5. /\ \A d \in Cores \ {c} : pool'[d] = pool[d]
          /\ SetsAside(pool[c], pool'[c], pool[c].num_free)
          /\ mds'.chunk_size = mds.chunk_size
      BY Zenon, <3>2, <3>3, <3>4, AsideCounts
    <3>6. UserCounted(pool'[c], mds.chunk_size)
      BY ZenonT(60), <1>2, <2>1, <2>3, <3>5, UserCountedStep
    <3> QED
      BY Zenon, <1>1, <3>5, <3>6, UserCountersLocal
  <2> QED
    BY Zenon, <2>2, <2>3
<1>8. \A c \in Cores : Freeable(c) \subseteq owned[c]
  BY Zenon DEF Freeable
<1>9. ASSUME NEW c \in Cores PROVE ix_mempool_alloc(c) => mempool_alloc(c)
  BY Zenon DEF ix_mempool_alloc, mempool_alloc, ix_mempool_alloc_2
<1>10. CASE UserNext
  BY ZenonT(60), <1>4, <1>5, <1>6, <1>7, <1>8, <1>9, <1>10
     DEF UserNext, ix_mempool_create, ix_mempool_create_datastore
<1> QED
  BY Zenon, <1>3, <1>10

-----------------------------------------------------------------------------
(* Nothing is listed and nothing is owned at the start.                     *)
LEMMA InitSets ==
  ASSUME Init
  PROVE  /\ mds.chunks = <<>> /\ Stored = {} /\ Everything = {}
         /\ \A c \in Cores : Cached(c) = {} /\ Own(c) = {} /\ owned[c] = {}
<1>1. mds.chunks = <<>>
  BY Zenon DEF Init, NoStore
<1>2. \A c \in Cores : owned[c] = {}
  BY Zenon DEF Init
<1>3. ASSUME NEW c \in Cores PROVE pool[c].head = <<>> /\ pool[c].private_chunk = <<>>
  BY Zenon DEF Init, NoPool
<1>4. Elems(<<>>) = {} /\ Spread(<<>>) = {}
  BY DEF Elems, Spread
<1>5. Stored = {}
  BY ZenonT(60), <1>1, <1>4, StoredIs
<1>6. \A c \in Cores : Cached(c) = {} /\ Own(c) = {}
  BY Zenon, <1>2, <1>3, <1>4 DEF Cached, Own
<1>7. Everything = {}
  BY Zenon, <1>2, <1>5, <1>6 DEF Everything
<1> QED
  BY ZenonT(60), <1>1, <1>2, <1>5, <1>6, <1>7

LEMMA InitInv ==
  ASSUME MempoolAssumption, Init
  PROVE  PoolInv /\ Abstract!Init /\ CountersAgree /\ UserCountersAgree
<1>1. TypeOK
  <2>1. mds \in Stores
    BY SMTT(30) DEF Init, NoStore, Stores, Elem
  <2>2. pool \in [Cores -> PoolRec]
    BY DEF Init, NoPool, PoolRec, Elem
  <2>3. owned \in [Cores -> SUBSET Elem] /\ ret \in [Cores -> Elem \cup {NULL}]
    BY Zenon DEF Init
  <2> QED
    BY ZenonT(60), <2>1, <2>2, <2>3 DEF TypeOK, Stores, PoolRec
<1>2. ASSUME NEW c \in Cores
      PROVE  /\ ~pool[c].magic /\ pool[c].head = <<>> /\ pool[c].private_chunk = <<>>
             /\ pool[c].num_free = 0
  BY Zenon DEF Init, NoPool
<1>3. mds.chunks = <<>> /\ mds.free_chunks = 0 /\ mds.chunk_size = 1
  BY Zenon DEF Init, NoStore
<1>4. Len(<<>>) = 0 /\ DOMAIN <<>> = {} /\ 0 <= 0 /\ 0 <= 1 /\ 0 - 0 < 1
  BY SMTT(30)
<1>5. Started
  BY ZenonT(60), <1>2, <1>3, <1>4, InitSets DEF Started
<1>6. ListsApart
  <2>1. Elems(<<>>) = {} /\ NoRepeat(<<>>)
    BY Zenon, SmallElems
  <2>2. Apart(mds.chunks)
    BY Zenon, <1>3, <1>4 DEF Apart
  <2> QED
    BY Zenon, <1>2, <2>1, <2>2 DEF ListsApart
<1>7. SetsApart
  BY Zenon, InitSets DEF SetsApart
<1>8. ElementsFit
  BY Zenon, InitSets DEF ElementsFit
<1>9. PoolInv
  BY ZenonT(60), <1>1, <1>5, <1>6, <1>7, <1>8 DEF PoolInv
<1>10. Abstract!Init
  BY Zenon, InitSets DEF Abstract!Init, Init
<1>11. CountersAgree
  BY ZenonT(60), <1>2, <1>3, <1>4 DEF CountersAgree
<1>12. UserCountersAgree
  BY ZenonT(60), <1>2, <1>3, <1>4 DEF UserCountersAgree
<1> QED
  BY ZenonT(60), <1>9, <1>10, <1>11, <1>12

(* OnePlace is what the invariant says of lists and of sets.                *)
LEMMA OnePlaceIs == ASSUME PoolInv PROVE OnePlace
<1>1. /\ \A i \in DOMAIN mds.chunks :
           /\ NoRepeat(mds.chunks[i])
           /\ \A j \in DOMAIN mds.chunks \ {i} :
                Elems(mds.chunks[i]) \cap Elems(mds.chunks[j]) = {}
      /\ \A c \in Cores :
           /\ NoRepeat(pool[c].head) /\ NoRepeat(pool[c].private_chunk)
           /\ Elems(pool[c].head) \cap Elems(pool[c].private_chunk) = {}
  BY Zenon DEF PoolInv, ListsApart, Apart
<1>2. \A c \in Cores :
        /\ Cached(c) \cap owned[c] = {}
        /\ (Cached(c) \cup owned[c]) \cap Stored = {}
        /\ \A d \in Cores \ {c} :
             (Cached(c) \cup owned[c]) \cap (Cached(d) \cup owned[d]) = {}
  BY Zenon DEF PoolInv, SetsApart, Own
<1> QED
  BY Zenon, <1>1, <1>2 DEF OnePlace

-----------------------------------------------------------------------------
INSTANCE FiniteSetTheorems

(* As many elements as indices.                                             *)
LEMMA CountRight == CountFacts
<1> SUFFICES ASSUME NEW m \in Nat, NEW L, NEW f, Numbers(f, m, L)
             PROVE  Cardinality(L) = m
  BY Zenon DEF CountFacts
<1> DEFINE D == 0 .. m - 1
<1>1. IsFiniteSet(D) /\ Cardinality(D) = m
  <2>1. 0 \in Int /\ m - 1 \in Int
    OBVIOUS
  <2>2. IsFiniteSet(D) /\ Cardinality(D) = IF 0 > m - 1 THEN 0 ELSE (m - 1) - 0 + 1
    BY Zenon, <2>1, FS_Interval
  <2> QED
    BY <2>2
<1> HIDE DEF D
<1>2. ExistsBijection(D, L)
  BY Zenon DEF D, Numbers, ExistsBijection, Bijection, Injection, Surjection, IsInjective
<1>3. Cardinality(L) = Cardinality(D)
  BY Zenon, <1>1, <1>2, FS_Bijection
<1> QED
  BY Zenon, <1>1, <1>3

(* The inductive invariant of the pools of the kernel: the state has its    *)
(* type, chunks and lists have no element in common, no chunk of the        *)
(* datastore is empty, elements fit their pages, and the counters agree     *)
(* with the lists.                                                          *)
THEOREM PoolInvariant ==
  ASSUME MempoolAssumption
  PROVE  Spec => [](PoolInv /\ CountersAgree)
<1>1. Init => PoolInv /\ CountersAgree
  BY Zenon, InitInv
<1>2. PoolInv /\ CountersAgree /\ [Next]_vars => (PoolInv /\ CountersAgree)'
  <2>1. ASSUME PoolInv, CountersAgree, [Next]_vars PROVE PoolInv' /\ CountersAgree'
    BY Zenon, <2>1, CountRight, KeepsNext, KernelCounters DEF Keeps
  <2> QED
    BY Zenon, <2>1
<1> QED
  BY <1>1, <1>2, PTL DEF Spec

(* An element of a pool is in use by one core or at one place of one free   *)
(* list, whatever mempool_alloc_2 and mempool_free_2 move.                  *)
THEOREM ElementsHaveOnePlace ==
  ASSUME MempoolAssumption
  PROVE  Spec => []OnePlace
<1>1. PoolInv /\ CountersAgree => OnePlace
  BY Zenon, OnePlaceIs
<1> QED
  BY <1>1, PoolInvariant, PTL

(* Elements lie in the buffer that mempool_create_datastore maps, do not    *)
(* overlap, cross no page boundary with nostraddle, and are found again     *)
(* from their index without it.                                             *)
THEOREM ElementsFitPages ==
  ASSUME MempoolAssumption
  PROVE  Spec => []ElementsFit
<1>1. PoolInv /\ CountersAgree => ElementsFit
  BY Zenon DEF PoolInv
<1> QED
  BY <1>1, PoolInvariant, PTL

(* free_chunks counts the datastore's chunks, and num_free is at most what  *)
(* the list holds: mempool_free_2 sets aside at least chunk_size elements.  *)
THEOREM CountersRight ==
  ASSUME MempoolAssumption
  PROVE  Spec => []CountersAgree
<1>1. PoolInv /\ CountersAgree => CountersAgree
  OBVIOUS
<1> QED
  BY <1>1, PoolInvariant, PTL

(* mempool_create_datastore makes at least the elements it is asked for,    *)
(* and no later step of any core loses one.                                 *)
THEOREM NoElementLost ==
  ASSUME MempoolAssumption
  PROVE  Spec => NoneLost
<1>1. PoolInv /\ CountersAgree /\ [Next]_vars => [KeepsAll]_vars
  <2>1. ASSUME PoolInv, [Next]_vars PROVE KeepsAll
    BY ZenonT(60), <2>1, CountRight, KeepsNext DEF Keeps
  <2> QED
    BY Zenon, <2>1
<1> QED
  BY <1>1, PoolInvariant, PTL DEF Spec, NoneLost

(* The pools implement MemoryPool: mempool_alloc refuses only when neither  *)
(* the core nor the datastore has an element.                               *)
THEOREM ImplementsMemoryPool ==
  ASSUME MempoolAssumption
  PROVE  Spec => PoolSpec
<1>1. Init => Abstract!Init
  BY Zenon, InitInv
<1>2. PoolInv /\ CountersAgree /\ [Next]_vars => [Abstract!Next]_(Abstract!vars)
  <2>1. ASSUME PoolInv, [Next]_vars PROVE [Abstract!Next]_(Abstract!vars)
    BY ZenonT(60), <2>1, CountRight, KeepsNext DEF Keeps
  <2> QED
    BY ZenonT(60), <2>1
<1> QED
  BY <1>1, <1>2, PoolInvariant, PTL DEF Spec, PoolSpec, Abstract!Spec

(* The same of the pools of user code, whose mempool_free_2 does not reset  *)
(* num_free: the counters are weaker, the rest is as in the kernel.         *)
THEOREM UserPoolInvariant ==
  ASSUME MempoolAssumption
  PROVE  UserSpec => [](PoolInv /\ UserCountersAgree)
<1>1. Init => PoolInv /\ UserCountersAgree
  BY ZenonT(60), InitInv
<1>2. PoolInv /\ UserCountersAgree /\ [UserNext]_vars => (PoolInv /\ UserCountersAgree)'
  <2>1. ASSUME PoolInv, UserCountersAgree, [UserNext]_vars
        PROVE  PoolInv' /\ UserCountersAgree'
    BY ZenonT(60), <2>1, CountRight, KeepsNext, UserCounters DEF Keeps
  <2> QED
    BY Zenon, <2>1
<1> QED
  BY <1>1, <1>2, PTL DEF UserSpec

(* What the pools of user code promise: an element has one place and fits   *)
(* its pages, mempool_free_2 never sets an empty list aside, no element is  *)
(* lost, and they implement MemoryPool.                                     *)
THEOREM UserPoolsSound ==
  ASSUME MempoolAssumption
  PROVE  UserSpec => /\ [](OnePlace /\ ElementsFit /\ UserCountersAgree)
                     /\ NoneLost /\ PoolSpec
<1>1. Init => Abstract!Init
  BY Zenon, InitInv
<1>2. PoolInv /\ UserCountersAgree => OnePlace /\ ElementsFit /\ UserCountersAgree
  BY Zenon, OnePlaceIs DEF PoolInv
<1>3. PoolInv /\ UserCountersAgree /\ [UserNext]_vars
        => [KeepsAll]_vars /\ [Abstract!Next]_(Abstract!vars)
  <2>1. ASSUME PoolInv, [UserNext]_vars PROVE KeepsAll /\ [Abstract!Next]_(Abstract!vars)
    BY Zenon, <2>1, CountRight, KeepsNext DEF Keeps
  <2> QED
    BY Zenon, <2>1
<1> QED
  BY <1>1, <1>2, <1>3, UserPoolInvariant, PTL DEF UserSpec, NoneLost, PoolSpec, Abstract!Spec
=============================================================================
