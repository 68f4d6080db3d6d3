------------------------------ MODULE Steering ------------------------------
(***************************************************************************)
(* Outgoing connections: each CPU takes local ports from a range of its     *)
(* own, and the replies must come back to it.  get_port_with_fdir asks the  *)
(* card for a filter; when that fails get_local_port_and_set_queue looks    *)
(* for a port whose Toeplitz hash falls in a flow group of the CPU.         *)
(* Addresses and ports are numbers; the hash works on their bits.           *)
(***************************************************************************)
EXTENDS Integers, Sequences, FiniteSets

CONSTANTS
  NCpus,          \* CPUs 0 .. NCpus - 1
  PORTS_PER_CPU,
  PortBits,       \* bits of a port: 16
  Dsts,           \* remote ends, 0 .. 3
  MaxFilters,     \* filters the card has room for
  MaxConnects     \* bound: calls of connect of a CPU

VARIABLES
  key,            \* RSS key of the card, a sequence of bits
  cur_cpu,        \* CPU of each flow group
  local_port,     \* last port of a CPU, 0 for none
  filters,        \* filters of the card: [dst, port, queue]
  conns,          \* connections: [cpu, fg, dst, port]
  calls,          \* connects of each CPU
  lapped          \* CPUs that have left their range or begun it again

vars == <<key, cur_cpu, local_port, filters, conns, calls, lapped>>

Cpus == 0 .. NCpus - 1
Fgs == {0, 1}
Outbound == 2
Bits(n, k) == [i \in 1 .. k |-> (n \div 2 ^ (k - i)) % 2]
Input(dst, p) == Bits(dst, 2) \o Bits(p, PortBits)
Width == 3
KeyLen == Width + 2 + PortBits

Init ==
  /\ key \in {[i \in 1 .. KeyLen |-> IF i % m = r THEN 1 ELSE 0] : m \in 2 .. 3, r \in 0 .. 1}
  /\ cur_cpu \in [Fgs -> Cpus]
  /\ local_port = [c \in Cpus |-> 0]
  /\ filters = {} /\ conns = {} /\ calls = [c \in Cpus |-> 0] /\ lapped = {}

(* For each bit of the input that is set, the window of the key that has    *)
(* moved on to that bit is added.                                           *)
Window(n) == SubSeq(key, n, n + Width - 1)
compute_toeplitz_hash(in) ==
  [b \in 1 .. Width |-> Cardinality({n \in DOMAIN in : in[n] = 1 /\ Window(n)[b] = 1}) % 2]

fg_idx(dst, p) == compute_toeplitz_hash(Input(dst, p))[Width] % Cardinality(Fgs)

(* The first port of the range is passed over.                              *)
First(c) == c * PORTS_PER_CPU
Next1(c) == (IF local_port[c] = 0 THEN First(c) ELSE local_port[c]) + 1

(* The search by hash: at the end of the range it goes back, but the port   *)
(* it looks at is still the old one.                                        *)
Search(c, dst, from) ==
  LET end == (c + 1) * PORTS_PER_CPU
      back(l) == IF l >= end THEN c * PORTS_PER_CPU + 1 ELSE l
      try[n \in 0 .. 2 * PORTS_PER_CPU] ==
        IF n = 0 THEN [port |-> from, next |-> back(from), lap |-> from >= end]
        ELSE LET s == try[n - 1]
             IN IF cur_cpu[fg_idx(dst, s.port)] = c THEN s
                ELSE [port |-> s.next + 1, next |-> back(s.next + 1), lap |-> s.lap \/ s.next + 1 >= end]
  IN try[2 * PORTS_PER_CPU]

(* tcp_bind looks for the port in the lists of the flow group.              *)
InUse(fg, p) == \E k \in conns : k.fg = fg /\ k.port = p

(* The rest of bsys_tcp_connect: it may fail, and leaves the filter then.   *)
Connected(c, fg, dst, p) ==
  \/ ~InUse(fg, p) /\ conns' = conns \cup {[cpu |-> c, fg |-> fg, dst |-> dst, port |-> p]}
  \/ UNCHANGED conns

Call(c) == calls[c] < MaxConnects /\ calls' = [calls EXCEPT ![c] = @ + 1] /\ UNCHANGED <<key, cur_cpu>>

get_port_with_fdir(c, dst) ==
  LET p == Next1(c)
  IN /\ Call(c) /\ Cardinality(filters) < MaxFilters
     /\ local_port' = [local_port EXCEPT ![c] = p]
     /\ filters' = {f \in filters : f.dst # dst \/ f.port # p} \cup {[dst |-> dst, port |-> p, queue |-> c]}
     /\ lapped' = IF p > (c + 1) * PORTS_PER_CPU THEN lapped \cup {c} ELSE lapped
     /\ Connected(c, Outbound, dst, p)

(* The filter is refused.                                                   *)
get_local_port_and_set_queue(c, dst) ==
  LET s == Search(c, dst, Next1(c))
      found == cur_cpu[fg_idx(dst, s.port)] = c
  IN /\ Call(c) /\ found
     /\ local_port' = [local_port EXCEPT ![c] = s.next]
     /\ lapped' = IF s.lap THEN lapped \cup {c} ELSE lapped
     /\ UNCHANGED filters
     /\ Connected(c, fg_idx(dst, s.port), dst, s.port)

(* The filter is refused and the card does not tell its key: the call fails *)
(* and the port has been passed over.                                       *)
rss_hash_conf_get_fails(c) ==
  /\ Call(c)
  /\ local_port' = [local_port EXCEPT ![c] = Next1(c)]
  /\ lapped' = IF Next1(c) > (c + 1) * PORTS_PER_CPU THEN lapped \cup {c} ELSE lapped
  /\ UNCHANGED <<filters, conns>>

(* Only accepted connections have an id: the filter stays.                  *)
bsys_tcp_close(k) ==
  /\ conns' = conns \ {k}
  /\ UNCHANGED <<key, cur_cpu, local_port, filters, calls, lapped>>

Next ==
  \/ \E c \in Cpus, dst \in Dsts : get_port_with_fdir(c, dst) \/ get_local_port_and_set_queue(c, dst)
  \/ \E c \in Cpus : rss_hash_conf_get_fails(c)
  \/ \E k \in conns : bsys_tcp_close(k)

Spec == Init /\ [][Next]_vars

-----------------------------------------------------------------------------

(* The card: a filter decides, and else the hash, which is for each bit of  *)
(* the result the parity of the input under the key from that bit on.       *)
Parity(in, b) == Cardinality({n \in DOMAIN in : in[n] = 1 /\ key[n + b - 1] = 1}) % 2
Arrives(dst, p) ==
  LET f == {g \in filters : g.dst = dst /\ g.port = p}
      fg == Parity(Input(dst, p), Width) % Cardinality(Fgs)
  IN IF f # {} THEN <<(CHOOSE g \in f : TRUE).queue, Outbound>> ELSE <<cur_cpu[fg], fg>>

(* As long as no CPU has used up its ports, the answers to a connection     *)
(* arrive at the CPU that opened it and in the flow group that holds it,    *)
(* with filters and without, also after others were closed or failed.       *)
Steered == lapped = {} => \A k \in conns : Arrives(k.dst, k.port) = <<k.cpu, k.fg>>

(* Until then no two connections have the same local port.                  *)
Distinct == \A k, l \in conns : k.port = l.port => k = l
FirstLap == lapped = {} => Distinct

(* tcp_bind: "Check if the address already is in use (on all lists)".       *)
AddressFree == Distinct

=============================================================================
