------------------------------- MODULE TxRing -------------------------------
(***************************************************************************)
(* The way of a response to the wire on one worker: udp_send (inc/ix/       *)
(* transmit.h), the transmit queue (inc/ix/ethqueue.h, dp/core/ethqueue.c)  *)
(* and the descriptor ring of the drivers (dp/drivers/ixgbe.c, i40e.c),     *)
(* beside the NIC.  Each pass of do_work reclaims, transmits and then       *)
(* handles a request that may send.                                         *)
(***************************************************************************)
EXTENDS Integers, Sequences, FiniteSets

CONSTANTS
  Driver,       \* "ixgbe" or "i40e"
  LEN,          \* descriptors in the ring, a power of two
  MOD,          \* 2^16, the range of head and tail
  Mbufs,
  Iovs,         \* the iovs of each packet: 1, or 2 across a page boundary
  MaxSends,     \* packets sent in one pass
  NULL

(* What the constants are.                                                  *)
TxRingAssumption ==
  /\ Driver \in {"ixgbe", "i40e"} /\ LEN \in Nat \ {0} /\ MOD % LEN = 0
  /\ Iovs \subseteq {1, 2} /\ MaxSends \in Nat

VARIABLES
  head, tail,   \* of tx_queue
  desc,         \* descriptor: packet and part (0 header, then the iovs), and dd
  entries,      \* ring_entries: the packet that ends at a descriptor
  hw, tdt,      \* the NIC's next descriptor, and the tail it was told
  cap, bufs,    \* of eth_tx_queue
  nr_iov,       \* of a packet
  owner,        \* "free", "queue", "ring", or "lost"
  sent,         \* the parts of a packet that the NIC has sent
  short,        \* history: packets completed with parts not sent
  pc, sends     \* the place in do_work, sends of this pass

ring == <<head, tail, desc, entries, hw, tdt>>
vars == <<ring, cap, bufs, nr_iov, owner, sent, short, pc, sends>>

Slot(pos) == pos % LEN
u16(x) == x % MOD
NoDesc == [m |-> NULL, part |-> 0, dd |-> FALSE]
Pieces(m) == 0 .. nr_iov[m]

(* tx_queue_setup and ixgbe_reset_tx_queue; eth_process_reclaim has not run *)
(* yet and cap is zero.                                                     *)
Init ==
  /\ head = 0 /\ tail = 0 /\ hw = 0 /\ tdt = 0
  /\ desc = [i \in 0 .. LEN - 1 |-> NoDesc]
  /\ entries = [i \in 0 .. LEN - 1 |-> NULL]
  /\ cap = 0 /\ bufs = <<>>
  /\ nr_iov = [m \in Mbufs |-> 1] /\ owner = [m \in Mbufs |-> "free"]
  /\ sent = [m \in Mbufs |-> {}] /\ short = {}
  /\ pc = "start" /\ sends = 0

(* ixgbe_tx_xmit_ctx puts the context descriptor of dev_start on the ring,  *)
(* with no packet.                                                          *)
ixgbe_tx_xmit_ctx ==
  /\ pc = "start" /\ pc' = "reclaim"
  /\ tail' = IF Driver = "ixgbe" THEN u16(tail + 1) ELSE tail
  /\ tdt' = tail'
  /\ UNCHANGED <<head, desc, entries, hw, cap, bufs, nr_iov, owner, sent, short, sends>>

(* The positions that tx_reclaim completes: up to the last packet whose end *)
(* is done, with no packet before it that is not.                           *)
Reclaimable ==
  LET used == u16(tail - head)
      at(k) == Slot(head + k)
      ends == {k \in 0 .. used - 1 : entries[at(k)] # NULL}
      done == {k \in ends : \A j \in ends : j <= k => desc[at(j)].dd}
  IN IF done = {} THEN 0 ELSE (CHOOSE k \in done : \A j \in done : j <= k) + 1

Completed(n) == {entries[Slot(head + k)] : k \in 0 .. n - 1} \ {NULL}

(* tx_reclaim: mbuf_xmit_done for each completed packet, here               *)
(* udp_mbuf_done, which gives back its pages, its response and the packet.  *)
tx_reclaim ==
  LET n == Reclaimable
      done == Completed(n)
  IN /\ head' = u16(head + n)
     /\ entries' = [i \in 0 .. LEN - 1 |->
          IF entries[i] \in done THEN NULL ELSE entries[i]]
     /\ owner' = [m \in Mbufs |-> IF m \in done THEN "free" ELSE owner[m]]
     /\ short' = short \cup {m \in done : sent[m] # Pieces(m)}

(* eth_process_reclaim.                                                     *)
eth_process_reclaim ==
  /\ pc = "reclaim" /\ pc' = "xmit"
  /\ tx_reclaim
  /\ cap' = u16(LEN + head' - tail)
  /\ UNCHANGED <<tail, desc, hw, tdt, bufs, nr_iov, sent, sends>>

(* The descriptors of a packet in each driver: one per part (ixgbe), or one *)
(* in all (i40e).  The ring keeps a free descriptor.                        *)
Need(m) == IF Driver = "ixgbe" THEN nr_iov[m] + 1 ELSE 1
Room(m, h, t) == u16(t + Need(m) - h) < LEN

(* The packet is put on the ring, recorded at descriptor tail + end.        *)
Put(m, n, end) ==
  /\ desc' = [i \in 0 .. LEN - 1 |->
       IF (i - tail) % LEN < n
       THEN [m |-> m, part |-> (i - tail) % LEN, dd |-> FALSE]
       ELSE desc[i]]
  /\ entries' = [entries EXCEPT ![Slot(tail + end)] = m]
  /\ tail' = u16(tail + n)
  /\ owner' = [owner EXCEPT ![m] = "ring"]
  /\ bufs' = Tail(bufs)
  /\ UNCHANGED <<head, hw, tdt, cap, nr_iov, sent, short, pc, sends>>

(* ixgbe_tx_xmit_one that records the packet at its first descriptor.       *)
ixgbe_tx_xmit_one_first ==
  /\ Driver = "ixgbe" /\ pc = "xmit" /\ bufs # <<>>
  /\ Room(Head(bufs), head, tail)
  /\ Put(Head(bufs), Need(Head(bufs)), 0)

(* eth_process_send: the queue goes to the ring.  tx_xmit_one reclaims when *)
(* it finds no room, and stops the loop if there is still none; then        *)
(* eth_process_send panics.                                                 *)
ixgbe_tx_xmit_one ==
  /\ Driver = "ixgbe" /\ pc = "xmit" /\ bufs # <<>>
  /\ Room(Head(bufs), head, tail)
  /\ Put(Head(bufs), Need(Head(bufs)), Need(Head(bufs)) - 1)

i40e_tx_xmit_one ==
  /\ Driver = "i40e" /\ pc = "xmit" /\ bufs # <<>>
  /\ Room(Head(bufs), head, tail)
  /\ Put(Head(bufs), 1, 0)

tx_xmit_reclaim ==
  /\ pc = "xmit" /\ bufs # <<>> /\ ~Room(Head(bufs), head, tail)
  /\ tx_reclaim
  /\ pc' = IF Room(Head(bufs), head', tail) THEN "xmit" ELSE "panic"
  /\ UNCHANGED <<tail, desc, hw, tdt, cap, bufs, nr_iov, sent, sends>>

tx_xmit ==
  /\ pc = "xmit" /\ bufs = <<>>
  /\ tdt' = tail /\ pc' = "work" /\ sends' = 0
  /\ UNCHANGED <<head, tail, desc, entries, hw, cap, bufs, nr_iov, owner, sent, short>>

(* eth_send of a packet.                                                    *)
eth_send(m, nr) ==
  /\ nr + 1 <= cap
  /\ bufs' = Append(bufs, m)
  /\ cap' = cap - (nr + 1)
  /\ owner' = [owner EXCEPT ![m] = "queue"]

(* udp_send: allocate, describe the response, resolve, enqueue.  When       *)
(* arp_lookup_mac has no address, or eth_send no room, the packet is freed, *)
(* its response and the references to its pages are not (the caller drops   *)
(* them): the response is lost.                                             *)
udp_send(m, nr) ==
  /\ pc = "work" /\ sends < MaxSends /\ owner[m] = "free"
  /\ nr_iov' = [nr_iov EXCEPT ![m] = nr]
  /\ sent' = [sent EXCEPT ![m] = {}]
  /\ sends' = sends + 1
  /\ \E mac \in BOOLEAN :
       \/ mac /\ eth_send(m, nr)
       \/ /\ ~mac \/ nr + 1 > cap
          /\ owner' = [owner EXCEPT ![m] = "lost"]
          /\ UNCHANGED <<cap, bufs>>
  /\ UNCHANGED <<ring, short, pc>>

handle_request ==
  /\ pc = "work" /\ pc' = "reclaim"
  /\ UNCHANGED <<ring, cap, bufs, nr_iov, owner, sent, short, sends>>

(* The NIC sends one descriptor and writes back the last of a packet.       *)
Nic ==
  /\ hw # tdt
  /\ LET d == desc[Slot(hw)]
     IN /\ sent' = IF d.m = NULL THEN sent
                   ELSE [sent EXCEPT ![d.m] = @ \cup {d.part}]
        /\ desc' = IF entries[Slot(hw)] = NULL THEN desc
                   ELSE [desc EXCEPT ![Slot(hw)].dd = TRUE]
  /\ hw' = u16(hw + 1)
  /\ UNCHANGED <<head, tail, entries, tdt, cap, bufs, nr_iov, owner, short, pc, sends>>

Worker ==
  \/ ixgbe_tx_xmit_ctx \/ eth_process_reclaim
  \/ ixgbe_tx_xmit_one \/ i40e_tx_xmit_one \/ tx_xmit_reclaim \/ tx_xmit \/ handle_request
Next ==
  \/ Worker \/ Nic
  \/ \E m \in Mbufs, nr \in Iovs : udp_send(m, nr)

(* The worker loops for ever and the NIC sends what it is told to.          *)
Spec == Init /\ [][Next]_vars /\ WF_vars(Worker) /\ WF_vars(Nic)

-----------------------------------------------------------------------------
(* The state has its type.                                                  *)
TypeOK ==
  /\ {head, tail, hw, tdt} \subseteq 0 .. MOD - 1
  /\ cap \in 0 .. LEN
  /\ entries \in [0 .. LEN - 1 -> Mbufs \cup {NULL}]
  /\ owner \in [Mbufs -> {"free", "queue", "ring", "lost"}]
  /\ pc \in {"start", "reclaim", "xmit", "work", "panic"}

(* The positions stay in order around the ring, across the wrap of the      *)
(* 16-bit head and tail: what is reclaimed has been sent, what is sent has  *)
(* been announced, and tail never catches up with head.                     *)
RingOrder ==
  /\ u16(hw - head) <= u16(tdt - head)
  /\ u16(tdt - head) <= u16(tail - head)
  /\ u16(tail - head) < LEN

(* ring_entries holds exactly the packets on the ring, each at the          *)
(* descriptor of its last part, where the NIC reports completion.           *)
EntriesMatch ==
  /\ \A m \in Mbufs : owner[m] = "ring" <=> \E i \in DOMAIN entries : entries[i] = m
  /\ \A i \in DOMAIN entries : entries[i] # NULL =>
       desc[i].m = entries[i] /\ desc[i].part = Need(entries[i]) - 1

(* A packet is given back only after every part of it was sent: "transmit   *)
(* scatter-gather array" (inc/ix/mbuf.h:77).                                *)
NothingShort == short = {}

(* A packet that eth_send takes reaches the wire and is given back, as long *)
(* as eth_process_send does not panic.                                      *)
Settled(m) == owner[m] \notin {"queue", "ring"} \/ pc = "panic"
SentInTheEnd == \A m \in Mbufs : []<>Settled(m)

(* cap is the "number of available buffers left" (inc/ix/ethqueue.h:182):   *)
(* what eth_send admits, eth_process_send can transmit.                     *)
NoPanic == pc # "panic"
=============================================================================
