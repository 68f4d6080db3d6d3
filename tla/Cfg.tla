-------------------------------- MODULE Cfg --------------------------------
(***************************************************************************)
(* The configuration (dp/core/cfg.c): the arguments, then the parsers of    *)
(* config_tbl in their order.  The first error ends the program.            *)
(*                                                                          *)
(* A setting is absent, a scalar or a list, as libconfig gives it; a text   *)
(* is its value or "bad" when sscanf does not match it.                     *)
(***************************************************************************)
EXTENDS Integers, SequencesExt

CONSTANTS
  Width,          \* bits of an address: 32
  MaxPorts, MaxCpus, MaxDevs, \* CFG_MAX_PORTS, CFG_MAX_CPU, CFG_MAX_ETHDEV
  cpu_count,      \* processors of the machine
  Addrs,          \* host addresses of the file
  Masks,          \* lengths of the netmask
  PortValues, SloValues, CpuValues, DevValues,  \* numbers of the file; 0 is "bad" for a device
  MaxList,        \* length of its lists
  Macs            \* MAC addresses of static entries; 0 is "bad"

VARIABLES
  file,   \* the settings
  CFG,
  arp,    \* the static entries: the MAC of an address, 0 for none
  pc      \* the parser to run, "ready" or "failed"

vars == <<file, CFG, arp, pc>>

Absent == [kind |-> "absent", v |-> <<>>]
Settings(S) ==
  {Absent} \cup [kind : {"scalar"}, v : {<<x>> : x \in S}] \cup [kind : {"list"}, v : SeqOf(S, MaxList)]

(* libconfig: the value of a scalar, 0 for a list; elements of a list.      *)
config_setting_get_int(s) == IF s.kind = "scalar" THEN s.v[1] ELSE 0
config_setting_length(s) == IF s.kind = "list" THEN Len(s.v) ELSE 0

(* The files: a valid one in which one setting, or port and slo, is any.    *)
One(S) == [kind |-> "scalar", v |-> <<CHOOSE x \in S : x > 0>>]
Valid == [log |-> 5, host |-> CHOOSE a \in Addrs : TRUE, bits |-> 1, port |-> One(PortValues), slo |-> One(SloValues),
          cpu |-> [kind |-> "scalar", v |-> <<0>>], devices |-> One(DevValues), arp |-> <<>>, gateway |-> TRUE,
          loader |-> TRUE]
Files ==
  {[Valid EXCEPT !.port = p, !.slo = s] : p \in Settings(PortValues), s \in Settings(SloValues)}
  \cup {[Valid EXCEPT !.host = a, !.bits = n, !.log = l, !.loader = b, !.gateway = g] :
         a \in Addrs, n \in Masks, l \in 5 .. 6, b, g \in BOOLEAN}
  \cup {[Valid EXCEPT !.cpu = c] : c \in Settings(CpuValues)}
  \cup {[Valid EXCEPT !.devices = d] : d \in Settings(DevValues)}
  \cup {[Valid EXCEPT !.arp = t] : t \in SeqOf(Addrs \X Macs, MaxList)}

Init ==
  /\ file \in Files
  /\ CFG = [host_addr |-> 0, mask |-> 0, broadcast_addr |-> 0, ports |-> <<>>, slos |-> <<>>,
            cpu |-> <<>>, ethdev |-> <<>>]
  /\ arp = [a \in Addrs |-> 0]
  /\ pc = "arguments"

Parser(at, ok, next) ==
  /\ pc = at
  /\ pc' = IF ok THEN next ELSE "failed"
  /\ UNCHANGED file

parse_arguments ==
  /\ Parser("arguments", file.log <= 5, "host_addr")
  /\ UNCHANGED <<CFG, arp>>

-----------------------------------------------------------------------------
(* parse_host_addr. A shift by the width of the word shifts by nothing on   *)
(* this processor.                                                          *)
Ones == 2 ^ Width - 1
Shifted(bits) == 2 ^ (Width - (bits % Width)) - 1
Mask(bits) == Ones - Shifted(bits)
Or(a, hosts) == a - (a % (hosts + 1)) + hosts

parse_host_addr ==
  LET mask == Mask(file.bits)
  IN /\ Parser("host_addr", file.bits # 0, "port")
     /\ CFG' = [CFG EXCEPT !.host_addr = file.host, !.mask = mask, !.broadcast_addr = Or(file.host, Ones - mask)]
     /\ UNCHANGED arp

(* parse_port and parse_slo: a list is read up to the size of the table.    *)
Room(n) == n < MaxPorts
Read(s, Okay(_)) ==
  LET n == CHOOSE k \in 0 .. Len(s.v) :
             /\ \A i \in 1 .. k : Room(i - 1) /\ Okay(s.v[i])
             /\ k = config_setting_length(s) \/ ~Room(k) \/ ~Okay(s.v[k + 1])
  IN [v |-> SubSeq(s.v, 1, n), ok |-> n = config_setting_length(s) \/ ~Room(n)]
ReadInts(s, Okay(_)) ==
  LET x == config_setting_get_int(s)
  IN IF x # 0 THEN [v |-> IF Okay(x) THEN <<x>> ELSE <<>>, ok |-> Okay(x)]
     ELSE Read(s, Okay)

parse_port ==
  LET r == ReadInts(file.port, LAMBDA p : p > 0 /\ p <= 65534)
  IN /\ Parser("port", file.port # Absent /\ r.ok, "slo")
     /\ CFG' = [CFG EXCEPT !.ports = r.v]
     /\ UNCHANGED arp

parse_slo ==
  LET r == ReadInts(file.slo, LAMBDA x : TRUE)
  IN /\ Parser("slo", file.slo # Absent /\ r.ok, "gateway_addr")
     /\ CFG' = [CFG EXCEPT !.slos = r.v]
     /\ UNCHANGED arp

parse_gateway_addr ==
  /\ Parser("gateway_addr", file.gateway, "arp")
  /\ UNCHANGED <<CFG, arp>>

(* parse_arp: the entries before a bad one are inserted. A second entry     *)
(* for an address replaces the MAC.                                         *)
arp_insert(t, e) == [t EXCEPT ![e[1]] = e[2]]
parse_arp ==
  LET good == SelectInSeq(file.arp, LAMBDA e : e[2] = 0)
      n == IF good = 0 THEN Len(file.arp) ELSE good - 1
  IN /\ Parser("arp", good = 0, "devices")
     /\ arp' = FoldLeft(arp_insert, arp, SubSeq(file.arp, 1, n))
     /\ UNCHANGED CFG

-----------------------------------------------------------------------------
(* add_cpu and add_dev: what is listed twice is taken once, what does not   *)
(* fit is an error.                                                         *)
Add(have, x, max) == [v |-> IF Len(have) >= max THEN have ELSE Append(have, x), ok |-> Len(have) < max]
add_cpu(have, c) ==
  IF c < 0 \/ c >= cpu_count THEN [v |-> have, ok |-> FALSE]
  ELSE IF \E i \in DOMAIN have : have[i] = c THEN [v |-> have, ok |-> TRUE]
  ELSE Add(have, c, MaxCpus)
add_dev(have, d) ==
  IF d[1] = 0 THEN [v |-> have, ok |-> FALSE]
  ELSE IF \E i \in DOMAIN have : have[i] = d THEN [v |-> have, ok |-> TRUE]
  ELSE Add(have, d, MaxDevs)
AddAll(s, add(_, _)) ==
  FoldLeft(LAMBDA r, x : IF r.ok THEN add(r.v, x) ELSE r, [v |-> <<>>, ok |-> TRUE], s)

(* memcmp compares the whole structure, with a byte of padding that nothing *)
(* has set.                                                                 *)
parse_devices ==
  \E pad \in [DOMAIN file.devices.v -> 0 .. 1] :
  LET r == AddAll([i \in DOMAIN pad |-> <<file.devices.v[i], pad[i]>>], add_dev)
  IN /\ Parser("devices", file.devices # Absent /\ r.ok, "cpu")
     /\ CFG' = [CFG EXCEPT !.ethdev = r.v]
     /\ UNCHANGED arp

(* An empty list is read as the number 0.                                   *)
parse_cpu ==
  LET r == AddAll(IF file.cpu.v = <<>> THEN <<0>> ELSE file.cpu.v, add_cpu)
  IN /\ Parser("cpu", file.cpu # Absent /\ r.ok, "loader_path")
     /\ CFG' = [CFG EXCEPT !.cpu = r.v]
     /\ UNCHANGED arp

parse_loader_path ==
  /\ Parser("loader_path", file.loader, "ready")
  /\ UNCHANGED <<CFG, arp>>

Next ==
  \/ parse_arguments \/ parse_host_addr \/ parse_port \/ parse_slo \/ parse_gateway_addr \/ parse_arp
  \/ parse_devices \/ parse_cpu \/ parse_loader_path

Spec == Init /\ [][Next]_vars

-----------------------------------------------------------------------------

(* What a table of the configuration holds fits in it, whatever the file    *)
(* lists.                                                                   *)
InBounds ==
  /\ Len(CFG.ports) <= MaxPorts /\ Len(CFG.slos) <= MaxPorts
  /\ Len(CFG.cpu) <= MaxCpus /\ Len(CFG.ethdev) <= MaxDevs

(* A file that is accepted gets the processors and devices it lists, and    *)
(* each processor once: two threads never share one.                        *)
AsListed ==
  pc = "ready" =>
    /\ {d[1] : d \in ToSet(CFG.ethdev)} = ToSet(file.devices.v)
    /\ file.cpu.v # <<>> => ToSet(CFG.cpu) = ToSet(file.cpu.v)
    /\ IsInjective(CFG.cpu) /\ CFG.cpu # <<>>

(* The last static entry of an address counts.                              *)
LastEntry ==
  pc = "ready" =>
    \A i \in DOMAIN file.arp :
      (\A j \in DOMAIN file.arp : j > i => file.arp[j][1] # file.arp[i][1]) => arp[file.arp[i][1]] = file.arp[i][2]

(* "CIDR IP address and netmask": the mask has the given length, and the    *)
(* broadcast address is the last one of the network of the host.  A length  *)
(* counts modulo the width of an address (cfg.c:245): a /32 gives mask 0    *)
(* and the broadcast address of all ones, as if it were a /0.               *)
Network ==
  pc = "ready" =>
    LET hosts == 2 ^ (Width - (file.bits % Width))
    IN /\ CFG.mask = 2 ^ Width - hosts
       /\ CFG.broadcast_addr \div hosts = CFG.host_addr \div hosts
       /\ CFG.broadcast_addr % hosts = hosts - 1

(* "slo(s) in nanoseconds for each request type": with a port for each type *)
(* there is an objective for each.                                          *)
EveryType == pc = "ready" => Len(CFG.slos) >= Len(CFG.ports)

=============================================================================
