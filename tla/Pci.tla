--------------------------------- MODULE Pci ---------------------------------
(***************************************************************************)
(* A PCI device as dp/core/pci.c finds it in sysfs, and its memory bars as  *)
(* they are mapped in the process and in the page table of Dune.  Any call  *)
(* to the system may fail.                                                  *)
(***************************************************************************)
EXTENDS Integers, Sequences, FiniteSets

CONSTANTS
  PCI_MAX_BARS,
  Kinds,        \* kinds of bars, out of "mem", "prefetch", "readonly", "io", "none"
  MaxMaps       \* bound: mappings at a time

VARIABLES
  sysfs,        \* [info, resource, bars, enable]: the directory of the device
  dev,          \* what pci_alloc_dev returned
  pcidma_fd,    \* "unset", "open" or "failed"
  master,       \* the device may use DMA
  host, dune    \* mappings [bar, resource, len] of the process and of Dune

vars == <<sysfs, dev, pcidma_fd, master, host, dune>>

Info == {"vendor", "device", "subsystem_vendor", "subsystem_device", "numa_node", "max_vfs"}
Optional == {"numa_node", "max_vfs"}
NoDevice == [info |-> <<>>]

(* A line of the resource file; a bar that is not there is a line of zeros. *)
Start(kind) == IF kind = "none" THEN 0 ELSE 8
End(kind) == IF kind = "none" THEN 0 ELSE 11

(* Files are absent, hold a value or something that is not a number; one    *)
(* of them is wrong at a time.                                              *)
Good == [f \in Info |-> "value"]
Init ==
  /\ sysfs \in [info : {Good} \cup {[Good EXCEPT ![f] = v] : f \in Info, v \in {"absent", "bad"}},
                resource : {"lines", "absent", "short", "bad"}, bars : [1 .. PCI_MAX_BARS -> Kinds],
                enable : {"0", "1", "bad"}]
  /\ dev = NoDevice /\ pcidma_fd = "unset" /\ master = FALSE /\ host = {} /\ dune = {}

(* The fields of the device, or NoDevice.                                       *)
May(f) == f \in Optional
pci_scan_dev_info(info) ==
  IF \E f \in Info : info[f] = "bad" \/ (info[f] = "absent" /\ ~May(f)) THEN NoDevice
  ELSE [info |-> [f \in Info |-> IF info[f] = "absent" THEN "default" ELSE "value"]]

(* The length of a line, and the bars of the device.                        *)
Bar(kind) == [kind |-> kind, len |-> End(kind) - Start(kind) + 1]
pci_scan_dev_resources(s) == IF s.resource = "lines" THEN [i \in 1 .. PCI_MAX_BARS |-> Bar(s.bars[i])] ELSE <<>>

pci_alloc_dev ==
  /\ dev = NoDevice
  /\ LET d == pci_scan_dev_info(sysfs.info)
         bars == pci_scan_dev_resources(sysfs)
     IN d # NoDevice /\ bars # <<>> /\ dev' = [info |-> d.info, bars |-> bars]
  /\ UNCHANGED <<sysfs, pcidma_fd, master, host, dune>>

(* The write of the file may fail when it is closed, which nobody looks at. *)
pci_enable_device ==
  /\ dev # NoDevice /\ sysfs.enable = "0"
  /\ \E e \in {"0", "1"} : sysfs' = [sysfs EXCEPT !.enable = e]
  /\ UNCHANGED <<dev, pcidma_fd, master, host, dune>>

(* /dev/pcidma is opened once, also when that failed.                       *)
pci_set_master ==
  /\ dev # NoDevice
  /\ \E fd \in IF pcidma_fd = "unset" THEN {"open", "failed"} ELSE {pcidma_fd} :
       /\ pcidma_fd' = fd
       /\ \E ok \in BOOLEAN : master' = (master \/ (fd = "open" /\ ok))
  /\ UNCHANGED <<sysfs, dev, host, dune>>

-----------------------------------------------------------------------------

Mem(kind) == kind \in {"mem", "prefetch", "readonly"}

(* The n-th memory bar, 0 for none.                                         *)
pci_find_mem_bar(bars, count) ==
  LET found == {i \in DOMAIN bars : Mem(bars[i].kind) /\ Cardinality({j \in 1 .. i - 1 : Mem(bars[j].kind)}) = count}
  IN IF found = {} THEN 0 ELSE CHOOSE i \in found : TRUE

(* The difference of two pointers, divided by the size of what they point   *)
(* to (24 octets): the first bar for every bar.                             *)
pci_bar_to_idx(i) == ((i - 1) \div 24) + 1

(* What a failure after mmap leaves in the process; and one that leaves all.*)
Unmapped_not(maps, m) == maps \cup {m}
Unmapped(maps, m) == maps

pci_map_mem_bar(i, wc) ==
  /\ dev # NoDevice /\ Cardinality(host) < MaxMaps
  /\ LET bar == dev.bars[i]
         idx == pci_bar_to_idx(i)
         m == [bar |-> i, resource |-> idx, len |-> bar.len]
     IN /\ bar.kind # "readonly" /\ bar.len # 0
        /\ wc => bar.kind = "prefetch"
        /\ sysfs.bars[idx] \in IF wc THEN {"prefetch"} ELSE {"mem", "prefetch"}
        /\ m \notin host
        /\ \/ host' = host \cup {m} /\ dune' = dune \cup {m}
           \/ host' = Unmapped(host, m) /\ dune' = dune
  /\ UNCHANGED <<sysfs, dev, pcidma_fd, master>>

(* Both mappings go.                                                        *)
pci_unmap_mem_bar(m) ==
  /\ m \in host
  /\ dune' = dune \ {m}
  /\ host' = host \ {m}
  /\ UNCHANGED <<sysfs, dev, pcidma_fd, master>>

Next ==
  \/ pci_alloc_dev \/ pci_enable_device \/ pci_set_master
  \/ \E i \in 1 .. PCI_MAX_BARS, wc \in BOOLEAN : pci_map_mem_bar(i, wc)
  \/ \E m \in host : pci_unmap_mem_bar(m)

Spec == Init /\ [][Next]_vars

-----------------------------------------------------------------------------

(* "allocates a PCI device and fully populates it with information from     *)
(* sysfs", or fails: a field has a default only where the file is optional. *)
FullyPopulated ==
  dev # NoDevice =>
    /\ \A f \in Info : dev.info[f] = "value" \/ (f \in Optional /\ sysfs.info[f] = "absent")
    /\ Len(dev.bars) = PCI_MAX_BARS

(* Dune maps an address of a device exactly as long as the process has it:  *)
(* no failure and no order of calls leaves half a mapping.                  *)
MapsAgree == host = dune

(* "specifies how many preceding memory bars to skip": the bars found are   *)
(* the memory bars, in order and each once.                                 *)
FindsAll ==
  dev # NoDevice =>
    LET n == Cardinality({i \in DOMAIN dev.bars : Mem(dev.bars[i].kind)})
        at(c) == pci_find_mem_bar(dev.bars, c)
    IN \A c \in 0 .. PCI_MAX_BARS :
         IF c < n THEN Mem(dev.bars[at(c)].kind) /\ \A b \in 0 .. c - 1 : at(b) < at(c) ELSE at(c) = 0

(* "maps a memory-mapped I/O bar", "@bar: the PCI bar": what is mapped is   *)
(* the bar that was asked for.                                              *)
MapsTheBar == \A m \in host : m.resource = m.bar

=============================================================================
