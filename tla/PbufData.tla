------------------------------ MODULE PbufData ------------------------------
(***************************************************************************)
(* The functions of dp/lwip/pbuf.c that read and write the contents of a    *)
(* chain, against what they promise of the bytes of the packet.  A chain is *)
(* a sequence of payloads.                                                  *)
(***************************************************************************)
EXTENDS Integers, SequencesExt

CONSTANTS
  Byte,       \* values of a byte, 0 among them
  MaxLen,     \* bytes of a payload
  MaxPbufs,   \* payloads of a chain
  MaxMem,     \* bytes of the memory they are compared with
  Searches    \* pbuf_memfind is called

VARIABLES chain, other, mem, at, result

vars == <<chain, other, mem, at, result>>

Payloads(n) == UNION {[1 .. k -> Byte] : k \in 0 .. n}
ChainsOf(n) == UNION {[1 .. k -> Payloads(MaxLen)] : k \in 1 .. n}
Far == 1000   \* 0xffff

RECURSIVE pbuf_get_at(_, _)
pbuf_get_at(q, from) ==
  IF q = <<>> THEN 0
  ELSE IF Len(q[1]) <= from THEN pbuf_get_at(Tail(q), from - Len(q[1]))
  ELSE q[1][from + 1]

(* pbuf_memcmp.                                                             *)
RECURSIVE pbuf_memcmp(_, _, _)
pbuf_memcmp(q, start, s2) ==
  IF q = <<>> THEN Far
  ELSE IF Len(q[1]) <= start THEN pbuf_memcmp(Tail(q), start - Len(q[1]), s2)
  ELSE LET diff == {i \in 1 .. Len(s2) : pbuf_get_at(q, start + i - 1) # s2[i]}
       IN IF diff = {} THEN 0 ELSE Min(diff)

Total(q) == FoldSeq(LAMBDA p, t : Len(p) + t, 0, q)

(* The loop of pbuf_memfind: after a difference it goes on behind it.       *)
RECURSIVE FindFrom(_, _, _)
FindFrom(q, s2, i) ==
  IF i > Total(q) - Len(s2) THEN Far
  ELSE LET plus == pbuf_memcmp(q, i, s2)
       IN IF plus = 0 THEN i ELSE FindFrom(q, s2, i + plus)
pbuf_memfind(q, s2, start) == IF Total(q) >= Len(s2) + start THEN FindFrom(q, s2, start) ELSE Far

(* pbuf_copy_partial: what is copied.                                       *)
RECURSIVE pbuf_copy_partial(_, _, _)
pbuf_copy_partial(q, len, offset) ==
  IF len = 0 \/ q = <<>> THEN <<>>
  ELSE IF offset # 0 /\ offset >= Len(q[1]) THEN pbuf_copy_partial(Tail(q), len, offset - Len(q[1]))
  ELSE LET n == IF Len(q[1]) - offset > len THEN len ELSE Len(q[1]) - offset
       IN SubSeq(q[1], offset + 1, offset + n) \o pbuf_copy_partial(Tail(q), len - n, 0)

(* pbuf_take: the chain with the memory in it, or an error.                 *)
RECURSIVE TakeFrom(_, _)
TakeFrom(q, s) ==
  IF s = <<>> THEN q
  ELSE LET n == IF Len(s) > Len(q[1]) THEN Len(q[1]) ELSE Len(s)
       IN <<SubSeq(s, 1, n) \o SubSeq(q[1], n + 1, Len(q[1]))>> \o TakeFrom(Tail(q), SubSeq(s, n + 1, Len(s)))

(* pbuf_take: nothing when the chain is too short.                          *)
pbuf_take(q, s) == IF Total(q) < Len(s) THEN <<>> ELSE TakeFrom(q, s)

(* pbuf_copy: piece by piece, the shorter of what is left on each side;     *)
(* done is the part of to that is already written, "ARG" and "VAL" are its  *)
(* errors.                                                                  *)
RECURSIVE CopyFrom(_, _, _, _, _)
CopyFrom(to, from, i, j, done) ==
  LET n == IF Len(to[1]) - i >= Len(from[1]) - j THEN Len(from[1]) - j ELSE Len(to[1]) - i
      wrote == done \o SubSeq(from[1], j + 1, j + n)
      from1 == IF j + n >= Len(from[1]) THEN Tail(from) ELSE from
      j1 == IF j + n >= Len(from[1]) THEN 0 ELSE j + n
      to1 == IF i + n = Len(to[1]) THEN Tail(to) ELSE to
      i1 == IF i + n = Len(to[1]) THEN 0 ELSE i + n
      queue(q) == Len(q) > 1 /\ Len(q[1]) = Total(q)
  IN IF to1 = <<>> /\ from1 # <<>> THEN [err |-> "ARG", data |-> wrote]
     ELSE IF queue(from1) \/ queue(to1) THEN [err |-> "VAL", data |-> wrote]
     ELSE IF from1 = <<>> THEN [err |-> "OK", data |-> wrote]
     ELSE CopyFrom(to1, from1, i1, j1, wrote)

pbuf_copy(to, from) ==
  IF Total(to) < Total(from) THEN [err |-> "ARG", data |-> <<>>] ELSE CopyFrom(to, from, 0, 0, <<>>)

-----------------------------------------------------------------------------
(* Each state is one set of arguments, and then the results.                *)

None == [cmp |-> 0, find |-> 0, part |-> <<>>, take |-> <<>>, copy |-> [err |-> "OK", data |-> <<>>]]
Init ==
  /\ chain \in ChainsOf(MaxPbufs) /\ other \in {<<<<0>>, <<0, 0>>>>, <<<<0, 0>>>>, <<<<>>, <<0>>, <<0>>>>}
  /\ mem \in Payloads(MaxMem) \ {<<>>} /\ at \in 0 .. 2
  /\ result = None

Call ==
  /\ result = None
  /\ result' = [cmp |-> pbuf_memcmp(chain, at, mem),
                find |-> IF Searches THEN pbuf_memfind(chain, mem, at) ELSE Far,
                part |-> pbuf_copy_partial(chain, Len(mem), at),
                take |-> pbuf_take(chain, mem),
                copy |-> pbuf_copy(other, chain)]
  /\ UNCHANGED <<chain, other, mem, at>>

Spec == Init /\ [][Call]_vars

-----------------------------------------------------------------------------

Data == FlattenSeq(chain)
Called == result # None
Slice(d, from, n) == SubSeq(d, from + 1, IF from + n < Len(d) THEN from + n ELSE Len(d))

(* pbuf_copy_partial copies the bytes at the offset, as many as there are.  *)
PartialRight == Called => result.part = Slice(Data, at, Len(mem))

(* pbuf_take replaces the front of the packet, leaves the rest and the      *)
(* lengths of the pbufs, and refuses more than the packet holds.            *)
TakeRight ==
  Called => IF Len(mem) > Len(Data) THEN result.take = <<>>
            ELSE /\ FlattenSeq(result.take) = mem \o Slice(Data, Len(mem), Len(Data))
                 /\ \A i \in DOMAIN chain : Len(result.take[i]) = Len(chain[i])

(* pbuf_copy copies the packet whatever the pieces of the two chains, as    *)
(* long as neither looks like a queue of packets.                           *)
CopyRight ==
  Called /\ Len(FlattenSeq(other)) >= Len(Data) /\ (\A i \in DOMAIN chain : chain[i] # <<>>)
         /\ (\A i \in DOMAIN other : other[i] # <<>>)
    => result.copy = [err |-> "OK", data |-> Data]

(* pbuf_memcmp: "zero if equal, nonzero otherwise (0xffff if p is too       *)
(* short, diffoffset+1 otherwise)", for memory the packet is long enough    *)
(* for,                                                                     *)
CompareRight ==
  Called /\ at + Len(mem) <= Len(Data) =>
    LET diff == {i \in DOMAIN mem : Data[at + i] # mem[i]}
    IN result.cmp = IF diff = {} THEN 0 ELSE Min(diff)

(* ... and for a packet that is too short.                                  *)
TooShort == Called /\ at + Len(mem) > Len(Data) => result.cmp = Far

(* pbuf_memfind: "0xFFFF if substr was not found in p or the index where it *)
(* was found".                                                              *)
FindRight ==
  Called => LET hits == {i \in at .. Len(Data) - Len(mem) : Slice(Data, i, Len(mem)) = mem}
            IN result.find = IF hits = {} THEN Far ELSE Min(hits)

=============================================================================
