------------------------------- MODULE Ip4Addr -------------------------------
(***************************************************************************)
(* IPv4 addresses as lwIP reads, writes and classifies them                 *)
(* (dp/lwip/ip4_addr.c).  An address is four octets of O values; a text is  *)
(* a sequence of numerals between dots and what follows the last one; a     *)
(* numeral is a sequence of characters: 0 .. 15 the digits, X the letter x. *)
(***************************************************************************)
EXTENDS Integers, SequencesExt, Bitwise

CONSTANTS
  O,            \* values of an octet, a power of two: 256
  SomeOctets,   \* octets of the addresses that are written
  MaxParts      \* numerals of a text

VARIABLES
  text,         \* [parts, end]: a text to read, "" or " " or another end
  octets,       \* an address to write
  buflen,       \* and the room for it
  netif,        \* [ip, netmask, broadcast]: an interface, on one octet
  result

vars == <<text, octets, buflen, netif, result>>

Word == O * O * O * O
X == 16

-----------------------------------------------------------------------------
(* One numeral: the base from its prefix, then digits as far as they go;    *)
(* Word stands for a numeral that is refused.                               *)
Digit(c, base) == c <= 9 \/ (base = 16 /\ c <= 15)
Base(p) == IF p[1] # 0 THEN 10 ELSE IF Len(p) > 1 /\ p[2] = X THEN 16 ELSE 8
Digits(p) == SubSeq(p, CASE Base(p) = 10 -> 1 [] Base(p) = 8 -> 2 [] OTHER -> 3, Len(p))
Numeral(p) ==
  IF p = <<>> \/ p[1] > 9 \/ \E i \in DOMAIN Digits(p) : ~Digit(Digits(p)[i], Base(p)) THEN Word
  ELSE FoldLeft(LAMBDA v, c : (v * Base(p) + c) % Word, 0, Digits(p))

(* The address from the values of the parts: all but the last are shifted   *)
(* to their octet, the last fills what is left.                             *)
Concoct(v) ==
  LET n == Len(v)
      shifted(i) == (v[i] * O ^ (4 - i)) % Word
  IN FoldLeft(LAMBDA a, i : a | shifted(i), v[n], [i \in 1 .. n - 1 |-> i])

ipaddr_aton(t) ==
  LET v == [i \in DOMAIN t.parts |-> Numeral(t.parts[i])]
      n == Len(v)
  IN IF \/ \E i \in DOMAIN v : v[i] = Word
        \/ n > 4
        \/ t.end \notin {"", " "}
        \/ n > 1 /\ v[n] >= O ^ (5 - n)
     THEN [ok |-> FALSE, addr |-> 0]
     ELSE [ok |-> TRUE, addr |-> Concoct(v)]

(* All ones stands for a text that is refused.                              *)
ipaddr_addr(t) == IF ipaddr_aton(t).ok THEN ipaddr_aton(t).addr ELSE Word - 1

(* The digits of each octet and a dot, the last dot replaced by the end     *)
(* of the string, as long as there is room.                                 *)
Decimal(o) == IF o >= 100 THEN <<o \div 100, (o \div 10) % 10, o % 10>> ELSE IF o >= 10 THEN <<o \div 10, o % 10>> ELSE <<o>>
Full(len, room) == len >= room
ipaddr_ntoa_r(a, room) ==
  LET parts == [i \in 1 .. 4 |-> Decimal(a[i])]
      chars == FoldLeft(LAMBDA n, p : n + Len(p) + 1, 0, parts)
      stop == CHOOSE n \in 0 .. chars : (n = chars \/ Full(n, room)) /\ \A k \in 0 .. n - 1 : ~Full(k, room)
  IN [parts |-> IF stop < chars THEN <<>> ELSE parts, written |-> stop]

-----------------------------------------------------------------------------
(* Netmasks and broadcast addresses, in one octet.                          *)
Bits == {k \in 0 .. 7 : 2 ^ k < O}
ip4_addr_netmask_valid(m) ==
  LET zero == {k \in Bits : m & (2 ^ k) = 0}
  IN \A k \in zero : \A j \in Bits : j < k => m & (2 ^ j) = 0

HostOnes(a, m) == a & (O - 1 - m) = (O - 1) & (O - 1 - m)
ip4_addr_isbroadcast(a, n) ==
  \/ a \in {0, O - 1}
  \/ /\ n.broadcast
     /\ a # n.ip
     /\ a & n.netmask = n.ip & n.netmask
     /\ HostOnes(a, n.netmask)

-----------------------------------------------------------------------------

None == [none |-> TRUE]
Numerals ==
  {<<>>, <<0>>, <<7>>, <<3, 1>>, <<3, 2>>, <<0, 1, 7>>, <<0, X, 1, 15>>, <<1, 10>>, <<9, 9, 9, 9>>}
Empty == [parts |-> <<<<>>>>, end |-> ""]

Init ==
  /\ text \in [parts : UNION {[1 .. n -> Numerals] : n \in 1 .. MaxParts}, end : {"", " ", "#"}]
  /\ (Len(text.parts) > 3 => \A i \in 2 .. 3 : Len(text.parts[i]) = 1)
  /\ octets \in IF text = Empty THEN [1 .. 4 -> SomeOctets] ELSE {<<0, 0, 0, 0>>}
  /\ buflen \in IF text = Empty THEN 0 .. 16 ELSE {16}
  /\ netif \in IF text = Empty /\ buflen = 0 /\ octets = <<0, 0, 0, 0>>
               THEN [ip : 1 .. O - 2, netmask : 0 .. O - 1, broadcast : BOOLEAN]
               ELSE {[ip |-> 1, netmask |-> O - 1, broadcast |-> TRUE]}
  /\ result = None

Call ==
  /\ result = None
  /\ result' = [aton |-> ipaddr_aton(text), addr |-> ipaddr_addr(text), ntoa |-> ipaddr_ntoa_r(octets, buflen),
                valid |-> ip4_addr_netmask_valid(netif.netmask),
                broadcast |-> {a \in 0 .. O - 1 : ip4_addr_isbroadcast(a, netif)}]
  /\ UNCHANGED <<text, octets, buflen, netif>>

Spec == Init /\ [][Call]_vars

-----------------------------------------------------------------------------

Called == result # None
Value(a) == ((a[1] * O + a[2]) * O + a[3]) * O + a[4]

(* What a C compiler makes of a numeral, and the address that RFC-style     *)
(* texts a, a.b, a.b.c and a.b.c.d denote.                                  *)
Plain(p) == CASE p = <<0>> -> 0 [] p = <<7>> -> 7 [] p = <<3, 1>> -> 31 [] p = <<3, 2>> -> 32
              [] p = <<0, 1, 7>> -> 15 [] p = <<0, X, 1, 15>> -> 31 [] p = <<9, 9, 9, 9>> -> 9999 [] OTHER -> -1
Denotes(t) ==
  LET n == Len(t.parts)
      v == [i \in 1 .. n |-> Plain(t.parts[i])]
  IN IF n > 4 \/ t.end = "#" \/ -1 \in Range(v) \/ v[n] >= O ^ (5 - n) \/ \E i \in 1 .. n - 1 : v[i] >= O THEN -1
     ELSE FoldLeft(LAMBDA a, i : a + v[i] * O ^ (4 - i), v[n], [i \in 1 .. n - 1 |-> i])

(* "Values are specified as for C: 0x=hex, 0=octal, 1-9=decimal", "a.b.c    *)
(* (with c treated as 16 bits)": a text that denotes an address is taken    *)
(* and gives that address.                                                  *)
Understood == Called /\ Denotes(text) # -1 => result.aton = [ok |-> TRUE, addr |-> Denotes(text)]

(* "Returns 1 if the address is valid, 0 if not", "a.b.c.d -- 8.8.8.8       *)
(* bits": what does not denote an address is refused.                       *)
ValidOnly == Called /\ result.aton.ok => Denotes(text) # -1

(* "either pointer to buf which now holds the ASCII representation of addr  *)
(* or NULL if buf was too small": never more than the room is written, NULL *)
(* exactly when the string and its end do not fit, and what is written      *)
(* reads back as the same address.                                          *)
RoundTrip ==
  Called =>
    LET n == result.ntoa
    IN /\ n.written <= buflen
       /\ n.parts = <<>> <=> buflen < FoldLeft(LAMBDA k, o : k + 1 + Len(Decimal(o)), 0, octets)
       /\ n.parts # <<>> => ipaddr_aton([parts |-> n.parts, end |-> ""]) = [ok |-> TRUE, addr |-> Value(octets)]

(* "starting with ones, then only zeros": exactly the masks O - 2^k.        *)
NetmaskValid == Called => (result.valid <=> netif.netmask \in {O - 2 ^ k : k \in Bits} \cup {0})

(* On an interface with a netmask, the broadcast addresses are all zeros,   *)
(* all ones and the last address of its block, unless that is its own.      *)
LastOfBlock ==
  Called /\ netif.broadcast /\ result.valid =>
    LET size == O - netif.netmask
        last == netif.ip - (netif.ip % size) + size - 1
    IN result.broadcast = {0, O - 1} \cup ({last} \ {netif.ip})

=============================================================================
