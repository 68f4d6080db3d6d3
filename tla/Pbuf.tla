-------------------------------- MODULE Pbuf --------------------------------
(***************************************************************************)
(* Packet buffers of the TCP stack (dp/lwip/pbuf.c): chains of counted      *)
(* buffers, each with the length of the rest of its chain, and a packet of  *)
(* the network attached to some.  Lengths are of W values (16 bits in the   *)
(* code), so that the total of a long chain wraps.                          *)
(***************************************************************************)
EXTENDS Integers, SequencesExt

CONSTANTS
  Pbufs,      \* the memory of pbufs
  Mbufs,      \* packets of the network
  W,          \* 2^16
  BufSize,    \* PBUF_POOL_BUFSIZE
  Types,      \* kinds of pbuf that are asked for
  Lens,       \* lengths that are asked for
  Hlen,       \* space in front of a new payload
  MaxRef      \* pointers a caller keeps to a pbuf

(* What the constants are.                                                  *)
PbufAssumption == {W, BufSize, Hlen, MaxRef} \subseteq Nat /\ 0 \notin Pbufs \cup Mbufs

VARIABLES
  mem,        \* struct pbuf: [next, tot_len, len, ref, type, room, mbuf]
  free,       \* pbufs in their pool
  held,       \* pointers of callers to each pbuf
  mfree       \* mbufs in their pool

vars == <<mem, free, held, mfree>>

Fresh == [next |-> 0, tot_len |-> 0, len |-> 0, ref |-> 0, type |-> "ROM", room |-> 0, mbuf |-> 0]
Init ==
  /\ mem = [p \in Pbufs |-> Fresh]
  /\ free = Pbufs /\ mfree = Mbufs
  /\ held = [p \in Pbufs |-> 0]

RECURSIVE Chain(_, _)
Chain(m, p) == IF p = 0 THEN <<>> ELSE <<p>> \o Chain(m, m[p].next)
Bytes(m, p) == LET c == Chain(m, p) IN FoldSeq(LAMBDA q, t : m[q].len + t, 0, c)
Preds(p) == {q \in Pbufs \ free : mem[q].next = p}

(* What a caller may pass: a packet it holds that is not part of another.   *)
Packet(p) == p \notin free /\ held[p] > 0 /\ Preds(p) = {}

-----------------------------------------------------------------------------

(* pbuf_alloc: one pbuf, or from PBUF_POOL as many as it takes.  mbuf keeps *)
(* what it was.  A caller may attach a packet to a PBUF_ROM pbuf.           *)
Pieces(type, n) ==
  IF type # "POOL" THEN <<n>>
  ELSE LET first == IF n < BufSize - Hlen THEN n ELSE BufSize - Hlen
           more == (n - first + BufSize - 1) \div BufSize
       IN <<first>> \o [i \in 1 .. more |-> IF i < more THEN BufSize ELSE n - first - (more - 1) * BufSize]

pbuf_alloc(type, n) ==
  LET pieces == Pieces(type, n)
      new == SubSeq(SetToSortSeq(free, <), 1, Len(pieces))
      k == Len(new)
      of(p) == CHOOSE i \in 1 .. k : new[i] = p
  IN /\ Len(pieces) <= Cardinality(free)
     /\ \E m \in IF type = "ROM" THEN {0} \cup mfree ELSE {0} :
          /\ mem' = [p \in Pbufs |->
               IF p \notin ToSet(new) THEN mem[p]
               ELSE [next |-> IF of(p) < k THEN new[of(p) + 1] ELSE 0,
                     tot_len |-> FoldSeq(LAMBDA a, b : a + b, 0, SubSeq(pieces, of(p), k)),
                     len |-> pieces[of(p)], ref |-> 1, type |-> type,
                     room |-> IF type # "ROM" /\ of(p) = 1 THEN Hlen ELSE 0,
                     mbuf |-> IF m = 0 THEN mem[p].mbuf ELSE m]]
          /\ mfree' = mfree \ {m}
     /\ free' = free \ ToSet(new)
     /\ held' = [held EXCEPT ![new[1]] = 1]

(* pbuf_free: as far as the counts drop to zero; the packets go with        *)
(* them. What else a free pbuf holds is of no account. The first form       *)
(* frees the whole chain.                                                   *)
RECURSIVE pbuf_free_chain(_, _)
pbuf_free_chain(s, p) ==
  IF p = 0 THEN s
  ELSE pbuf_free_chain([s EXCEPT !.mem[p] = Fresh,
                                 !.mfree = @ \cup ({s.mem[p].mbuf} \ {0}), !.free = @ \cup {p}],
                       s.mem[p].next)
RECURSIVE FreeFrom(_, _)
FreeFrom(s, p) ==
  IF p = 0 THEN s
  ELSE LET ref == s.mem[p].ref - 1
           t == [s EXCEPT !.mem[p].ref = ref]
       IN IF ref > 0 THEN t
          ELSE FreeFrom([t EXCEPT !.mem[p] = Fresh, !.mfree = @ \cup ({s.mem[p].mbuf} \ {0}),
                                  !.free = @ \cup {p}], s.mem[p].next)
pbuf_free(s, p) == FreeFrom(s, p)

State == [mem |-> mem, free |-> free, mfree |-> mfree]
Becomes(s) == mem' = s.mem /\ free' = s.free /\ mfree' = s.mfree

Free(p) ==
  /\ p \notin free /\ held[p] > 0
  /\ held' = [held EXCEPT ![p] = @ - 1]
  /\ Becomes(pbuf_free(State, p))

pbuf_ref(p) ==
  /\ p \notin free /\ held[p] \in 1 .. MaxRef - 1
  /\ mem' = [mem EXCEPT ![p].ref = @ + 1]
  /\ held' = [held EXCEPT ![p] = @ + 1]
  /\ UNCHANGED <<free, mfree>>

(* pbuf_realloc shrinks; the pbufs it no longer needs are freed.            *)
RECURSIVE Shrunk(_, _, _, _)
Shrunk(m, q, rem, grow) ==
  IF rem > m[q].len
  THEN Shrunk([m EXCEPT ![q].tot_len = (@ + grow) % W], m[q].next, rem - m[q].len, grow)
  ELSE [mem |-> [m EXCEPT ![q].len = rem, ![q].tot_len = rem, ![q].next = 0], rest |-> m[q].next]

pbuf_realloc(p, n) ==
  /\ Packet(p) /\ n < mem[p].tot_len
  /\ LET s == Shrunk(mem, p, n, n - mem[p].tot_len)
     IN Becomes(pbuf_free([State EXCEPT !.mem = s.mem], s.rest))
  /\ UNCHANGED held

(* pbuf_header, by one byte either way: no further than the start of the    *)
(* buffer, and only to hide for ROM.                                        *)
pbuf_header(p, inc) ==
  /\ Packet(p)
  /\ inc < 0 => mem[p].len > 0
  /\ inc > 0 => mem[p].type # "ROM" /\ mem[p].room > 0 /\ mem[p].len + inc < W
  /\ mem' = [mem EXCEPT ![p].len = @ + inc, ![p].tot_len = (@ + inc) % W, ![p].room = IF mem[p].type = "ROM" THEN 0 ELSE @ - inc]
  /\ UNCHANGED <<free, held, mfree>>

(* pbuf_cat: t's reference becomes the link.                                *)
Linked(h, t) ==
  [p \in Pbufs |->
     IF ~Contains(Chain(mem, h), p) THEN mem[p]
     ELSE [mem[p] EXCEPT !.tot_len = (@ + mem[t].tot_len) % W,
                         !.next = IF @ = 0 THEN t ELSE @]]
CanLink(h, t) == Packet(h) /\ Packet(t) /\ ~Contains(Chain(mem, h), t) /\ Last(Chain(mem, h)) # Last(Chain(mem, t))
pbuf_cat(h, t) ==
  /\ CanLink(h, t) /\ held[t] = 1
  /\ mem' = Linked(h, t)
  /\ held' = [held EXCEPT ![t] = 0]
  /\ UNCHANGED <<free, mfree>>

(* pbuf_chain: the caller keeps its reference.                              *)
pbuf_chain(h, t) ==
  /\ CanLink(h, t)
  /\ mem' = [Linked(h, t) EXCEPT ![t].ref = @ + 1]
  /\ UNCHANGED <<free, held, mfree>>

(* pbuf_dechain.                                                            *)
pbuf_dechain(p) ==
  LET q == mem[p].next
  IN /\ Packet(p) /\ q # 0
     /\ Becomes(pbuf_free([State EXCEPT !.mem[p].next = 0, !.mem[p].tot_len = mem[p].len,
                                        !.mem[q].tot_len = (mem[p].tot_len - mem[p].len) % W], q))
     /\ UNCHANGED held

(* pbuf_coalesce: a copy in one PBUF_RAM pbuf takes the place of the chain. *)
pbuf_coalesce(p) ==
  /\ "RAM" \in Types /\ Packet(p) /\ mem[p].next # 0 /\ free # {} /\ Bytes(mem, p) < W
  /\ LET q == Min(free)
     IN /\ Becomes(pbuf_free([State EXCEPT !.free = @ \ {q},
                       !.mem[q] = [Fresh EXCEPT !.len = mem[p].tot_len, !.tot_len = mem[p].tot_len,
                                     !.ref = 1, !.type = "RAM", !.room = Hlen, !.mbuf = mem[q].mbuf]], p))
        /\ held' = [held EXCEPT ![p] = @ - 1, ![q] = 1]

(* pbuf_split_64k: the longest front whose total does not wrap; the rest    *)
(* goes to the caller.                                                      *)
RECURSIVE Fitting(_, _, _)
Fitting(front, i, r) ==
  IF r # 0 /\ (front + mem[r].len) % W > front THEN Fitting((front + mem[r].len) % W, r, mem[r].next)
  ELSE [last |-> i, rest |-> r]

(* Where the chain is cut.                                                  *)
Cut(p) == Fitting(mem[p].len, p, mem[p].next)

pbuf_split_64k(p) ==
  LET f == Cut(p)
      c == Chain(mem, p)
  IN /\ Packet(p) /\ f.rest # 0 /\ held[f.rest] < MaxRef
     /\ mem' = [q \in Pbufs |->
          IF ~Contains(c, q) \/ Contains(Chain(mem, f.rest), q) THEN mem[q]
          ELSE [mem[q] EXCEPT !.tot_len = (@ - mem[f.rest].tot_len) % W,
                              !.next = IF q = f.last THEN 0 ELSE @]]
     /\ held' = [held EXCEPT ![f.rest] = @ + 1]
     /\ UNCHANGED <<free, mfree>>

Next ==
  \/ \E type \in Types, n \in Lens : pbuf_alloc(type, n)
  \/ \E p \in Pbufs :
       \/ Free(p) \/ pbuf_ref(p) \/ pbuf_dechain(p) \/ pbuf_coalesce(p) \/ pbuf_split_64k(p)
       \/ \E n \in 0 .. W - 1 : pbuf_realloc(p, n)
       \/ \E inc \in {-1, 1} : pbuf_header(p, inc)
       \/ \E t \in Pbufs : pbuf_cat(p, t) \/ pbuf_chain(p, t)

Spec == Init /\ [][Next]_vars

-----------------------------------------------------------------------------

(* "p->tot_len == p->len + (p->next? p->next->tot_len: 0)": the total of    *)
(* every pbuf is the length of its chain, as far as 16 bits can say.        *)
TotLen == \A p \in Pbufs \ free : mem[p].tot_len = Bytes(mem, p) % W

(* "the reference count always equals the number of pointers that refer to  *)
(* this pbuf", of callers and of chains: nothing that is free is referred   *)
(* to, and nothing that is not is lost.                                     *)
RefExact ==
  \A p \in Pbufs :
    /\ p \notin free => mem[p].ref = held[p] + Cardinality(Preds(p)) /\ mem[p].ref > 0
    /\ p \in free => held[p] = 0 /\ Preds(p) = {}

(* A packet is in its pool or attached to one pbuf, never both and never to *)
(* two: a recycled pbuf does not free the packet of its last user.          *)
MbufsOnce ==
  \A m \in Mbufs : Cardinality({p \in Pbufs \ free : mem[p].mbuf = m}) = (IF m \in mfree THEN 0 ELSE 1)

(* After pbuf_split_64k the "total length is smaller than 64K": the total   *)
(* of the front is exact although that of the chain had wrapped.            *)
SplitRight ==
  \A p \in Pbufs : pbuf_split_64k(p) => Bytes(mem', p) < W /\ mem'[p].tot_len = Bytes(mem', p)

=============================================================================
