------------------------------- MODULE Devices -------------------------------
(***************************************************************************)
(* Bringing up the Ethernet devices: the first CPU takes each device of the *)
(* configuration through DPDK (init_ethdev, dp/drivers/common.c); then the  *)
(* networker starts them, which puts the rings of Shinjuku in the place of  *)
(* those of DPDK (dev_start of dp/drivers/ixgbe.c and i40e.c) while the     *)
(* hardware may already receive.  Any step may fail; the program then ends. *)
(***************************************************************************)
EXTENDS Integers, Sequences, FiniteSets

CONSTANTS
  N,            \* devices of the configuration
  Kinds,        \* their kinds: "ixgbe", "ixgbevf", "i40e", "em" or "unknown"
  MaxPorts,     \* RTE_MAX_ETHPORTS
  NumCpus,      \* CFG.num_cpus: transmit queues of a device
  L             \* descriptors of a receive ring

VARIABLES
  kind,         \* kind of each device
  port,         \* ports of DPDK: the device attached, 0 for none, and its configuration
  eth,          \* the devices added: [port, pci]
  nb_rx,        \* receive queues of each device, none or one
  pc, cur,      \* where the bring-up is, and the device it is at
  tx,           \* the transmit queue it is at
  rxq, txq,     \* hardware queues of a device: [on, base, head, tail, ctx]; [on, base]
  ring,         \* receive rings of Shinjuku: "empty", "mbuf" or "done"
  stray,        \* a frame was written where there is no mbuf
  early,        \* devices that kept the head of frames for the rings of DPDK
  mac, macs     \* CFG.mac, and the addresses each device accepts

seen == <<stray, early>>
hw == <<rxq, txq, ring, seen>>
vars == <<kind, port, eth, nb_rx, pc, cur, tx, rxq, txq, ring, stray, early, mac, macs>>

Devs == 1 .. N
Ports == 0 .. MaxPorts - 1
Detached == [pci |-> 0, conf |-> {}]
(* The modes of default_conf, and how DPDK calls them.                      *)
default_conf == {"rx_rss", "rss_tcp", "rss_udp", "ip_checksum", "strip_crc", "tx_none"}
Known == {"rx_rss", "rss_tcp", "rss_udp", "ip_checksum", "strip_crc", "tx_none", "header_split", "vlan_filter", "jumbo_frame"}
translate_conf(conf) == conf \cap Known

Init ==
  /\ kind \in [Devs -> Kinds] /\ nb_rx \in [Devs -> 0 .. 1]
  /\ port = [p \in Ports |-> Detached] /\ eth = <<>>
  /\ pc = "driver_init" /\ cur = 1 /\ tx = 0
  /\ rxq = [d \in Devs |-> [on |-> FALSE, base |-> "dpdk", head |-> 0, tail |-> 0, ctx |-> "dpdk", from |-> 0]]
  /\ txq = [d \in Devs |-> [q \in 1 .. NumCpus |-> [on |-> FALSE, base |-> "dpdk"]]]
  /\ ring = [d \in Devs |-> [i \in 0 .. L - 1 |-> "empty"]] /\ stray = FALSE /\ early = {}
  /\ mac = 0 /\ macs = [d \in Devs |-> {d}]

Fail == pc' = "failed" /\ UNCHANGED <<kind, port, eth, nb_rx, cur, tx, hw, mac, macs>>

-----------------------------------------------------------------------------
(* The first CPU.                                                           *)

rte_eth_dev_find_free_port(ports) ==
  LET free == {p \in Ports : ports[p].pci = 0}
  IN IF free = {} THEN MaxPorts ELSE CHOOSE p \in free : \A q \in free : p <= q

(* DPDK's driver of the device attaches it to the first free port, unless   *)
(* the pipe for its interrupts cannot be made.                              *)
rte_eal_pci_probe_one_driver(ports, d) ==
  {ports} \cup IF rte_eth_dev_find_free_port(ports) = MaxPorts THEN {}
               ELSE {[ports EXCEPT ![rte_eth_dev_find_free_port(ports)].pci = d]}
dpdk_devinit(ports, d) == IF kind[d] = "unknown" THEN {} ELSE rte_eal_pci_probe_one_driver(ports, d)

(* A virtual function has one queue, and only for one CPU.                  *)
init_fn(d) == kind[d] \in {"ixgbe", "i40e"} \/ (kind[d] = "ixgbevf" /\ NumCpus <= 1)

(* A port without a device cannot be configured.                            *)
Configured(ports, p) == p \in Ports /\ ports[p].pci # 0

driver_init ==
  /\ pc = "driver_init" /\ cur <= N
  /\ \E ports \in dpdk_devinit(port, cur) :
       LET p == rte_eth_dev_find_free_port(port)
       IN IF ~Configured(ports, p) \/ ~init_fn(cur) THEN Fail
          ELSE /\ port' = [ports EXCEPT ![p].conf = translate_conf(default_conf)]
               /\ eth' = Append(eth, [port |-> p, pci |-> cur])
               /\ cur' = cur + 1
               /\ UNCHANGED <<kind, nb_rx, pc, tx, hw, mac, macs>>

(* A step of init_ethdev that fails, or a device without a driver.          *)
init_ethdev_fails == pc = "driver_init" /\ cur <= N /\ Fail

(* Every CPU has its transmit queue and the networker its receive queues.   *)
init_hw == /\ pc = "driver_init" /\ cur > N
           /\ pc' = "start" /\ cur' = 1
           /\ UNCHANGED <<kind, port, eth, nb_rx, tx, hw, mac, macs>>

-----------------------------------------------------------------------------
(* The networker: init_network_cpu, eth_dev_start, dev_start.               *)

Goto(step) == pc' = step /\ UNCHANGED <<kind, port, eth, nb_rx, cur, tx, mac, macs>>
Intel40 == kind[cur] = "i40e"

skip_dev ==
  /\ pc = "start" /\ cur <= N /\ nb_rx[cur] = 0
  /\ cur' = cur + 1
  /\ UNCHANGED <<kind, port, eth, nb_rx, pc, tx, hw, mac, macs>>

(* DPDK starts the device with its own rings.                               *)
rte_eth_dev_start ==
  /\ pc = "start" /\ cur <= N /\ nb_rx[cur] = 1
  /\ rxq' = [rxq EXCEPT ![cur].on = TRUE, ![cur].tail = L - 1]
  /\ txq' = [txq EXCEPT ![cur] = [q \in 1 .. NumCpus |-> [@[q] EXCEPT !.on = TRUE]]]
  /\ UNCHANGED <<ring, seen>>
  /\ Goto(IF Intel40 THEN "rx_off" ELSE "alloc")

i40e_switch_rx_queue_off ==
  /\ pc = "rx_off"
  /\ rxq' = [rxq EXCEPT ![cur].on = FALSE]
  /\ UNCHANGED <<txq, ring, seen>> /\ Goto("alloc")

(* Every descriptor gets an mbuf.  And a form that leaves out the first.    *)
alloc_rx_mbufs_short(r) == [i \in 0 .. L - 1 |-> IF i = 0 THEN r[i] ELSE "mbuf"]
alloc_rx_mbufs(r) == [i \in 0 .. L - 1 |-> "mbuf"]
alloc ==
  /\ pc = "alloc"
  /\ ring' = [ring EXCEPT ![cur] = alloc_rx_mbufs(@)]
  /\ UNCHANGED <<rxq, txq, seen>> /\ Goto("rx_base")

(* ixgbe writes the base of the ring into registers; i40e writes a          *)
(* cleared context, and the tail.                                           *)
rx_ctx(q) == [q EXCEPT !.ctx = "ours", !.from = 0, !.tail = L - 1]
rx_base ==
  /\ pc = "rx_base"
  /\ rxq' = [rxq EXCEPT ![cur] = IF Intel40 THEN rx_ctx(@) ELSE [@ EXCEPT !.base = "ours"]]
  /\ UNCHANGED <<txq, ring, seen>> /\ Goto(IF Intel40 THEN "rx_on" ELSE "tx_base")

(* The hardware loads the context when the queue is switched on.            *)
Loaded(q) == [q EXCEPT !.on = TRUE, !.base = q.ctx, !.head = q.from]
i40e_switch_rx_queue_on ==
  /\ pc = "rx_on"
  /\ rxq' = [rxq EXCEPT ![cur] = Loaded(@)]
  /\ UNCHANGED <<txq, ring, seen>> /\ Goto("tx_base")

(* The transmit queues in turn.                                             *)
LastTx == NumCpus
dev_start_tx ==
  /\ pc = "tx_base" /\ tx < LastTx
  /\ tx' = tx + 1
  /\ txq' = [txq EXCEPT ![cur][tx + 1].base = "ours"]
  /\ UNCHANGED <<kind, port, eth, nb_rx, pc, cur, rxq, ring, seen, mac, macs>>

(* The rest of eth_dev_start: the first device gives its address to         *)
(* CFG.mac, the others get it.                                              *)
First == mac = 0
eth_dev_start ==
  /\ pc = "tx_base" /\ tx = LastTx
  /\ mac' = IF First THEN cur ELSE mac
  /\ macs' = [macs EXCEPT ![cur] = IF First THEN @ ELSE @ \cup {mac}]
  /\ pc' = "start" /\ cur' = cur + 1 /\ tx' = 0
  /\ UNCHANGED <<kind, port, eth, nb_rx, hw>>

init_network_cpu_fails == pc \notin {"driver_init", "failed"} /\ cur <= N /\ Fail

-----------------------------------------------------------------------------

Started == {d \in Devs : pc \notin {"driver_init", "failed"} /\ d < cur /\ nb_rx[d] = 1}

(* The hardware puts a frame where its head is, as long as there is room;   *)
(* that may be before dev_start has come to the base of the ring, which     *)
(* leaves the head of an ixgbe where it is.                                 *)
Receive(d) ==
  /\ rxq[d].on /\ rxq[d].head # rxq[d].tail
  /\ early' = IF rxq[d].base = "dpdk" /\ kind[d] # "i40e" THEN early \cup {d} ELSE early
  /\ rxq' = [rxq EXCEPT ![d].head = (@ + 1) % L]
  /\ IF rxq[d].base = "ours"
     THEN /\ ring' = [ring EXCEPT ![d][rxq[d].head] = "done"]
          /\ stray' = (stray \/ ring[d][rxq[d].head] # "mbuf")
     ELSE UNCHANGED <<ring, stray>>
  /\ UNCHANGED <<kind, port, eth, nb_rx, pc, cur, tx, txq, mac, macs>>

Next ==
  \/ driver_init \/ init_ethdev_fails \/ init_hw
  \/ skip_dev \/ rte_eth_dev_start \/ i40e_switch_rx_queue_off \/ alloc \/ rx_base
  \/ i40e_switch_rx_queue_on \/ dev_start_tx \/ eth_dev_start \/ init_network_cpu_fails
  \/ \E d \in Devs : Receive(d)

Spec == Init /\ [][Next]_vars

-----------------------------------------------------------------------------

(* A device is driven through the port of DPDK it is attached to, and no    *)
(* other device has that port, although driver_init looks for the port      *)
(* before DPDK takes it and the pipe of a probe may fail.                   *)
PortsMatch == \A i \in 1 .. Len(eth) : eth[i].pci = i /\ port[eth[i].port].pci = i

(* Once a device is started every queue of it is on and works on the ring   *)
(* of Shinjuku, and every receive descriptor holds an mbuf.                 *)
Hijacked ==
  \A d \in Started :
    /\ rxq[d].on /\ rxq[d].base = "ours" /\ rxq[d].tail = L - 1
    /\ \A q \in 1 .. NumCpus : txq[d][q].on /\ txq[d][q].base = "ours"
    /\ \A i \in 0 .. L - 1 : ring[d][i] # "empty"

(* The hardware never writes a frame through a descriptor without an mbuf.  *)
NoStray == ~stray

(* The driver looks for frames from the first descriptor on: the first one  *)
(* received into the ring is there, also when frames came before to an i40e.*)
FirstSeen ==
  \A d \in Started \ early : (\E i \in 0 .. L - 1 : ring[d][i] = "done") => ring[d][0] = "done"

(* Started devices all take frames for the address of the program.          *)
OneMac == \A d \in Started : mac # 0 /\ mac \in macs[d]

=============================================================================
