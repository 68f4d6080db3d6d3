----------------------------- MODULE InetChksum -----------------------------
(***************************************************************************)
(* The Internet checksum (dp/lwip/inet_chksum.c) against the definition of  *)
(* RFC 1071: the ones' complement sum of the words of the data in network   *)
(* order.  An octet has B values, a word B * B; the host is little endian.  *)
(***************************************************************************)
EXTENDS Integers, SequencesExt

CONSTANTS
  B,          \* values of an octet: 256
  Octets,     \* octets of the data
  MaxLen,     \* octets of a pbuf
  MaxPbufs,   \* pbufs of a chain
  LongLens,   \* lengths of longer data, in a pbuf of its own
  Words       \* values of the words of the pseudo header

VARIABLES
  chain,      \* the payloads of a chain
  addr,       \* where it lies in memory, modulo 4
  header,     \* [src, dst, proto, len]: two words, two words, two words
  result

vars == <<chain, addr, header, result>>

W == B * B
D == W * W

FOLD_U32T(u) == u \div W + (u % W)
SWAP_BYTES_IN_WORD(w) == (w % B) * B + ((w \div B) % B)
Sum(s) == FoldLeft(LAMBDA a, b : a + b, 0, s)
(* The words and the double words of the octets s, as the host loads them.  *)
Loads(s) == [i \in 1 .. Len(s) \div 2 |-> s[2 * i - 1] + B * s[2 * i]]
LongLoads(s) == LET l == Loads(s) IN [i \in 1 .. Len(l) \div 2 |-> l[2 * i - 1] + W * l[2 * i]]
Rest(s, n) == SubSeq(s, n + 1, Len(s))

-----------------------------------------------------------------------------
(* lwip_standard_chksum, version 1.                                         *)
chksum_1(s) ==
  LET acc == Sum([i \in 1 .. Len(s) \div 2 |-> B * s[2 * i - 1] + s[2 * i]]) + IF Len(s) % 2 = 1 THEN B * s[Len(s)] ELSE 0
      once == FOLD_U32T(acc)
  IN SWAP_BYTES_IN_WORD(IF once >= W THEN FOLD_U32T(once) ELSE once)

(* Version 2: the first octet at an odd address and the last octet that is  *)
(* left are added together.  And a form that does not swap back.            *)
Ends(s, t) == (IF Len(s) = Len(t) THEN 0 ELSE B * s[1]) + IF Len(t) % 2 = 1 THEN t[Len(t)] ELSE 0
Aligned(at, s) == IF at % 2 = 1 /\ Len(s) > 0 THEN Tail(s) ELSE s
SwapIf_never(odd, w) == w
SwapIf(odd, w) == IF odd THEN SWAP_BYTES_IN_WORD(w) ELSE w
chksum_2(at, s) ==
  LET t == Aligned(at, s)
  IN SwapIf(at % 2 = 1, FOLD_U32T(FOLD_U32T((Sum(Loads(t)) + Ends(s, t)) % D)))

(* Version 3, the bulk eight octets at a time with the carry added back.    *)
AddCarry(a, b) == LET c == (a + b) % D IN IF c < a THEN c + 1 ELSE c
chksum_3(at, s) ==
  LET t == Aligned(at, s)
      ps == at + Len(s) - Len(t)
      first == IF ps % 4 # 0 /\ Len(t) > 1 THEN 2 ELSE 0
      u == Rest(t, first)
      bulk == 8 * (Len(u) \div 8)
      long == FoldLeft(AddCarry, Sum(Loads(SubSeq(t, 1, first))), LongLoads(SubSeq(u, 1, bulk)))
      sum == FOLD_U32T(long) + Sum(Loads(Rest(u, bulk))) + Ends(s, t)
  IN SwapIf(at % 2 = 1, FOLD_U32T(FOLD_U32T(sum)))

inet_chksum(at, s) == W - 1 - chksum_2(at, s)

-----------------------------------------------------------------------------
(* A pbuf of a chain: its sum is added, and swapped after an odd length.    *)
AddPbuf(r, at, s, len) ==
  LET acc == FOLD_U32T(r.acc + chksum_2(at, s))
      odd == len % 2 = 1
  IN [acc |-> SwapIf(odd, acc), swapped |-> IF odd THEN ~r.swapped ELSE r.swapped]
Back(r) == SwapIf(r.swapped, r.acc)

inet_chksum_pbuf(c, at) ==
  W - 1 - Back(FoldLeft(LAMBDA r, q : AddPbuf(r, at, q, Len(q)), [acc |-> 0, swapped |-> FALSE], c))

(* inet_cksum_pseudo_partial_base: the first n octets of the chain; it      *)
(* looks at the length of the pbuf and not at what it took.                 *)
Take(q, n) == IF Len(q) > n THEN n ELSE Len(q)
partial_base(c, at, h, n, acc) ==
  LET step(r, q) ==
        IF r.left = 0 THEN r
        ELSE LET k == Take(q, r.left)
             IN AddPbuf(r, at, SubSeq(q, 1, k), Len(q)) @@ [left |-> IF r.left > k THEN r.left - k ELSE 0]
      r == FoldLeft(step, [acc |-> acc, swapped |-> FALSE, left |-> n], c)
  IN W - 1 - FOLD_U32T(FOLD_U32T(Back(r) + SWAP_BYTES_IN_WORD(h.proto) + SWAP_BYTES_IN_WORD(h.len)))

inet_chksum_pseudo_partial(c, at, h, n) ==
  partial_base(c, at, h, n, FOLD_U32T(FOLD_U32T(Sum(h.src \o h.dst))))

(* in_pseudo: the carries of two 32 bit additions are added back.           *)
in_pseudo(a, b, c) ==
  LET s == a + b
      s2 == (s % D) + c + s \div D
      s3 == ((s2 % D) + s2 \div D) % D
      f == FOLD_U32T(s3)
  IN IF f > W - 1 THEN f - (W - 1) ELSE f
hton32(x) == SWAP_BYTES_IN_WORD(x % W) * W + SWAP_BYTES_IN_WORD(x \div W)
inet_chksum_pseudo(h) == in_pseudo(h.src[1] + W * h.src[2], h.dst[1] + W * h.dst[2], hton32(h.proto + h.len))

-----------------------------------------------------------------------------

None == [one |-> -1]
Two == Words \X Words

(* Chains of any short data, and longer data in which three octets repeat.  *)
Short == UNION {[1 .. k -> UNION {[1 .. l -> Octets] : l \in 0 .. MaxLen}] : k \in 1 .. MaxPbufs}
Long == {<<[i \in 1 .. l |-> o[(i % 3) + 1]]>> : l \in LongLens, o \in [1 .. 3 -> Octets]}
Header(s, p, n) == [src |-> s, dst |-> s, proto |-> p, len |-> n]

Init ==
  /\ \/ /\ chain \in Short
        /\ \E s \in Two, p, n \in Words : header = Header(s, p, n) /\ (Len(chain) > 1 => s[1] = s[2] /\ p = n)
     \/ chain \in Long /\ \E w \in Words : header = Header(<<w, w>>, w, w)
  /\ addr \in 0 .. 3
  /\ result = None

Call ==
  /\ result = None
  /\ LET s == FlattenSeq(chain)
     IN result' = [one |-> chksum_1(s), two |-> inet_chksum(addr, s), three |-> chksum_3(addr, s),
                   pbuf |-> inet_chksum_pbuf(chain, addr), pseudo |-> inet_chksum_pseudo(header),
                   partial |-> [n \in 0 .. Len(s) |-> inet_chksum_pseudo_partial(chain, addr, header, n)]]
  /\ UNCHANGED <<chain, addr, header>>

Spec == Init /\ [][Call]_vars

-----------------------------------------------------------------------------

(* RFC 1071: the sum of words in network order, with end-around carries.    *)
EndAround(x) == IF x = 0 THEN 0 ELSE ((x - 1) % (W - 1)) + 1
Network(s) == Sum([i \in 1 .. (Len(s) + 1) \div 2 |-> B * s[2 * i - 1] + IF 2 * i <= Len(s) THEN s[2 * i] ELSE 0])
Host(words) == Sum([i \in DOMAIN words |-> SWAP_BYTES_IN_WORD(words[i])])
Data == FlattenSeq(chain)
Called == result # None

(* "points to start of data to be summed at any boundary", "host order (!)  *)
(* lwip checksum": the sum does not depend on where the data lies.          *)
SumRight == Called => W - 1 - result.two = SWAP_BYTES_IN_WORD(EndAround(Network(Data)))

(* "you can select from the implementations below": they agree.             *)
VersionsAgree == Called => result.one = W - 1 - result.two /\ result.three = result.one

(* The sum of a chain is the sum of its octets, however it is cut.          *)
ChainRight == Called => result.pbuf = result.two

(* With the pseudo header and only the first octets of the chain the words  *)
(* of both are summed, wherever the limit falls in a pbuf.                  *)
PartialSum ==
  Called => \A n \in 0 .. Len(Data) :
    W - 1 - result.partial[n] =
      SWAP_BYTES_IN_WORD(EndAround(Network(SubSeq(Data, 1, n)) + Host(header.src \o header.dst) + header.proto + header.len))

(* What is put in the TCP header for the card is the sum of the pseudo      *)
(* header, with every carry of the 32 bit additions.                        *)
PseudoRight ==
  Called => result.pseudo = SWAP_BYTES_IN_WORD(EndAround(Host(header.src \o header.dst) + header.proto + header.len))

=============================================================================
