------------------------------- MODULE RxPath -------------------------------
(***************************************************************************)
(* The way of a frame from the wire to the dispatcher on the networker CPU: *)
(* the receive rings of the drivers (dp/drivers/ixgbe.c, i40e.c), the       *)
(* backlog of each queue and the batches (inc/ix/ethqueue.h), the checks of *)
(* dp/net/ip.c and udp.c, and do_networking (dp/core/networker.c).  A frame *)
(* is known by what becomes of it:                                          *)
(*   req    a datagram for a configured port                               *)
(*   loose  the same, with an error bit but no "checksum was computed" bit  *)
(*   bad    the NIC computed a checksum and it is wrong                     *)
(*   other  not UDP over IP, malformed, or for another port                 *)
(*   short  a datagram whose UDP length exceeds the frame                   *)
(***************************************************************************)
EXTENDS Integers, Sequences, FiniteSets

CONSTANTS
  Driver, Queues,   \* "ixgbe" or "i40e"; 1 .. number of queues
  LEN, MOD, THRESH, \* ring length, range of head and tail, RDT_THRESH
  DEPTH, BATCH,     \* ETH_RX_MAX_DEPTH, ETH_RX_MAX_BATCH
  Mbufs, Kinds,     \* buffers 1 .. n; frames that come
  MaxInFlight       \* requests that the clients leave unanswered

(* What the constants are.                                                  *)
RxPathAssumption ==
  /\ Driver \in {"ixgbe", "i40e"} /\ Queues = 1 .. Cardinality(Queues)
  /\ Mbufs = 1 .. Cardinality(Mbufs) /\ MOD % LEN = 0 /\ THRESH \in 1 .. LEN /\ {DEPTH, BATCH} \subseteq Nat \ {0}
  /\ Kinds \subseteq {"req", "loose", "bad", "other", "short"}

VARIABLES
  head, tail,       \* of rx_queue
  desc, entries,    \* the descriptors written back, and ring_entries
  hw, rdt,          \* the NIC's next descriptor and the tail it was told
  backlog,          \* the list of eth_rx_queue
  pool,             \* how often a buffer is on the free list
  batch,            \* recv_mbufs
  empty, q, pc,     \* of eth_process_recv; the queue in turn
  cnt, pkts, back,  \* networker_pointers: pkts new and handed back
  inflight, done    \* with the dispatcher: in use, and on mqueue (a stack)

rings == <<head, tail, desc, entries, hw, rdt>>
share == <<cnt, pkts, back, inflight, done>>
vars == <<rings, backlog, pool, batch, empty, q, pc, share>>

Slot(pos) == pos % LEN
u16(x) == x % MOD
Min2(a, b) == IF a < b THEN a ELSE b

(* alloc_rx_mbufs: a buffer for each descriptor of each ring.               *)
alloc_rx_mbufs ==
  [r \in Queues |-> [i \in 0 .. LEN - 1 |-> (r - 1) * LEN + i + 1]]

(* rx_queue_setup and dev_start.                                            *)
Init ==
  /\ head = [r \in Queues |-> 0] /\ tail = [r \in Queues |-> LEN - 1]
  /\ desc = [r \in Queues |-> [i \in 0 .. LEN - 1 |-> ""]]
  /\ entries = alloc_rx_mbufs
  /\ hw = [r \in Queues |-> 0] /\ rdt = tail
  /\ backlog = [r \in Queues |-> <<>>]
  /\ pool = [m \in Mbufs |->
       IF \E r \in Queues, i \in 0 .. LEN - 1 : entries[r][i] = m THEN 0 ELSE 1]
  /\ batch = <<>> /\ empty = TRUE /\ q = 1 /\ pc = "poll"
  /\ cnt = 0 /\ pkts = <<>> /\ back = <<>> /\ inflight = {} /\ done = <<>>

mbuf_free(m) == pool' = [pool EXCEPT ![m] = @ + 1]

(* The NIC writes a frame to the next descriptor it owns.  Clients do not   *)
(* send more requests than MaxInFlight ahead of the answers.                *)
Pending ==
  Cardinality(inflight) + Len(batch) + Len(pkts)
  + Cardinality({<<r, i>> \in Queues \X (0 .. LEN - 1) : desc[r][i] # ""})
  + Cardinality({<<r, i>> \in Queues \X (1 .. DEPTH) : i <= Len(backlog[r])})

Nic(r, k) ==
  /\ Slot(hw[r]) # Slot(rdt[r]) /\ Pending < MaxInFlight
  /\ desc' = [desc EXCEPT ![r][Slot(hw[r])] = k]
  /\ hw' = [hw EXCEPT ![r] = u16(@ + 1)]
  /\ UNCHANGED <<head, tail, entries, rdt, backlog, pool, batch, empty, q, pc, share>>

Ready(r) == desc[r][Slot(head[r])] # ""
NoMbuf == \A m \in Mbufs : pool[m] = 0

(* eth_recv: is there room in the backlog?                                  *)
eth_recv(r) == Len(backlog[r]) < DEPTH

(* Writing the address of the new buffer clears the done bit.               *)
Refill(at, new) ==
  /\ entries' = [entries EXCEPT ![q][at] = new]
  /\ desc' = [desc EXCEPT ![q][at] = ""]

(* One turn of rx_poll: the buffer of the descriptor is replaced and queued,*)
(* or freed.                                                                *)
PollOne(valid) ==
  /\ pc = "poll" /\ Ready(q)
  /\ LET at == Slot(head[q])
         k == desc[q][at]
         b == entries[q][at]
     IN \E new \in {m \in Mbufs : pool[m] > 0} :
          /\ new = CHOOSE m \in Mbufs : pool[m] > 0
          /\ Refill(at, new)
          /\ IF valid[k] /\ eth_recv(q)
             THEN /\ backlog' = [backlog EXCEPT ![q] = Append(@, [m |-> b, k |-> k])]
                  /\ pool' = [pool EXCEPT ![new] = @ - 1]
             ELSE /\ pool' = [pool EXCEPT ![new] = @ - 1, ![b] = @ + 1]
                  /\ UNCHANGED backlog
  /\ head' = [head EXCEPT ![q] = u16(@ + 1)]
  /\ UNCHANGED <<tail, hw, rdt, batch, empty, q, pc, share>>

ixgbe_rx_poll == Driver = "ixgbe" /\ PollOne([k \in Kinds |-> k # "bad"])
i40e_rx_poll == Driver = "i40e" /\ PollOne([k \in Kinds |-> k \notin {"bad", "loose"}])

(* Telling the NIC one descriptor too many.                                 *)
Rdt_full(r) ==
  IF u16(LEN - (tail[r] + 1 - head[r])) >= THRESH
  THEN /\ tail' = [tail EXCEPT ![r] = u16(head[r] + LEN)]
       /\ rdt' = [rdt EXCEPT ![r] = u16(head[r] + LEN)]
  ELSE UNCHANGED <<tail, rdt>>

(* The end of rx_poll: the NIC learns of new descriptors once THRESH of them*)
(* are ready.                                                               *)
Rdt(r) ==
  IF u16(LEN - (tail[r] + 1 - head[r])) >= THRESH
  THEN /\ tail' = [tail EXCEPT ![r] = u16(head[r] + LEN - 1)]
       /\ rdt' = [rdt EXCEPT ![r] = u16(head[r] + LEN - 1)]
  ELSE UNCHANGED <<tail, rdt>>

(* eth_process_poll: no descriptor is ready, or no buffer is left; on to the*)
(* next queue.                                                              *)
eth_process_poll ==
  /\ pc = "poll" /\ (~Ready(q) \/ NoMbuf)
  /\ Rdt(q)
  /\ IF q + 1 \in Queues THEN q' = q + 1 /\ UNCHANGED pc
     ELSE q' = 1 /\ pc' = "recv"
  /\ empty' = TRUE
  /\ UNCHANGED <<head, desc, entries, hw, backlog, pool, batch, share>>

(* eth_input, ip_input and udp_input: what is not for a port is freed.      *)
udp_input(k) == IF k \in {"req", "loose"} THEN 0 ELSE -1
eth_input(f) ==
  CASE udp_input(f.k) >= 0 -> UNCHANGED pool
    [] f.k = "short" -> pool' = [pool EXCEPT ![f.m] = @ + 2]
    [] OTHER -> mbuf_free(f.m)

(* eth_process_recv_queue and its use in eth_process_recv: one frame of the *)
(* queue.                                                                   *)
eth_process_recv_queue(r) ==
  /\ pc = "recv" /\ backlog[r] # <<>>
  /\ LET f == Head(backlog[r])
     IN /\ eth_input(f)
        /\ IF udp_input(f.k) >= 0 THEN batch' = Append(batch, f.m) /\ empty' = FALSE
           ELSE UNCHANGED <<batch, empty>>
  /\ backlog' = [backlog EXCEPT ![r] = Tail(@)]

Nothing(r) == pc = "recv" /\ backlog[r] = <<>> /\ UNCHANGED <<backlog, batch, empty, pool>>

(* eth_process_recv: round after round over the queues.                     *)
eth_process_recv ==
  /\ \/ eth_process_recv_queue(q)
     \/ Nothing(q)
  /\ IF q + 1 \in Queues THEN q' = q + 1 /\ UNCHANGED pc
     ELSE q' = 1 /\ pc' = "round"
  /\ UNCHANGED <<rings, share>>

Round ==
  /\ pc = "round"
  /\ pc' = CASE ~empty /\ Len(batch) < BATCH -> "recv"
             [] batch = <<>> -> "poll"
             [] OTHER -> "wait"
  /\ empty' = TRUE
  /\ UNCHANGED <<rings, backlog, pool, batch, q, share>>

(* do_networking: waits for the dispatcher, frees what it handed back and   *)
(* passes the batch on.                                                     *)
do_networking ==
  /\ pc = "wait" /\ cnt = 0
  /\ pool' = [m \in Mbufs |-> pool[m] + Cardinality({i \in DOMAIN back : back[i] = m})]
  /\ back' = <<>>
  /\ pkts' = batch /\ cnt' = Len(batch) /\ batch' = <<>>
  /\ pc' = "poll"
  /\ UNCHANGED <<rings, backlog, empty, q, inflight, done>>

(* handle_networker takes a batch and hands back buffers of mqueue.         *)
handle_networker ==
  /\ cnt # 0
  /\ inflight' = inflight \cup {pkts[i] : i \in DOMAIN pkts}
  /\ LET n == Min2(BATCH, Len(done))
     IN back' = SubSeq(done, 1, n) /\ done' = SubSeq(done, n + 1, Len(done))
  /\ pkts' = <<>> /\ cnt' = 0
  /\ UNCHANGED <<rings, backlog, pool, batch, empty, q, pc>>

(* A request is finished and its buffer enters mqueue.                      *)
Finish(m) ==
  /\ m \in inflight
  /\ inflight' = inflight \ {m} /\ done' = <<m>> \o done
  /\ UNCHANGED <<rings, backlog, pool, batch, empty, q, pc, cnt, pkts, back>>

Networker ==
  \/ ixgbe_rx_poll \/ i40e_rx_poll \/ eth_process_poll
  \/ eth_process_recv \/ Round \/ do_networking
Next ==
  \/ Networker \/ handle_networker
  \/ \E m \in Mbufs : Finish(m)
  \/ \E r \in Queues, k \in Kinds : Nic(r, k)

(* The networker and the dispatcher loop for ever and requests end; frames  *)
(* need not come.                                                           *)
Spec ==
  /\ Init /\ [][Next]_vars
  /\ WF_vars(Networker) /\ WF_vars(handle_networker)
  /\ \A m \in Mbufs : WF_vars(Finish(m))

-----------------------------------------------------------------------------
(* The state has its type.                                                  *)
TypeOK ==
  /\ \A r \in Queues : {head[r], tail[r], hw[r], rdt[r]} \subseteq 0 .. MOD - 1
  /\ \A r \in Queues : Len(backlog[r]) <= DEPTH
  /\ pool \in [Mbufs -> Nat]
  /\ pc \in {"poll", "recv", "round", "wait"} /\ q \in Queues

Places(m) ==
  pool[m]
  + Cardinality({<<r, i>> \in Queues \X (0 .. LEN - 1) : entries[r][i] = m})
  + Cardinality({<<r, i>> \in Queues \X (1 .. DEPTH) :
                   i <= Len(backlog[r]) /\ backlog[r][i].m = m})
  + Cardinality({i \in DOMAIN batch : batch[i] = m})
  + Cardinality({i \in DOMAIN pkts : pkts[i] = m})
  + Cardinality({i \in DOMAIN back : back[i] = m})
  + Cardinality({m} \cap inflight) + Cardinality({i \in DOMAIN done : done[i] = m})

(* Every buffer is in exactly one place from the free list over ring,       *)
(* backlog and batch to the dispatcher and back: none is lost and none is   *)
(* used for two frames.                                                     *)
OnePlace == \A m \in Mbufs : Places(m) = 1

(* Between head and the NIC's position all descriptors hold frames and      *)
(* elsewhere none does, across the wrap of the 16-bit positions: the NIC    *)
(* never writes over a frame that rx_poll has not taken.                    *)
RingOrder ==
  \A r \in Queues :
    LET ahead == u16(hw[r] - head[r])
    IN /\ ahead < LEN
       /\ \A i \in 0 .. LEN - 1 : (desc[r][Slot(head[r] + i)] # "") <=> i < ahead

(* A frame on the ring is taken off it, given that the pool has room for the*)
(* requests in flight beside the rings and the buffers of one batch.        *)
Taken(r, i) == desc[r][i] = ""
TakenInTheEnd == \A r \in Queues : \A i \in 0 .. LEN - 1 : []<>Taken(r, i)

(* The NIC is given descriptors again: receiving never stops for good.      *)
Armed(r) == Slot(hw[r]) # Slot(rdt[r])
KeepsReceiving == \A r \in Queues : []<>Armed(r)

(* The batch fits recv_mbufs[ETH_RX_MAX_BATCH]: eth_process_recv will "stop *)
(* when all queues are empty or the batch limit is hit"                     *)
(* (inc/ix/ethqueue.h:126).                                                 *)
BatchFits == Len(batch) <= BATCH

(* eth_process_recv stops only "when all queues are empty or the batch limit*)
(* is hit" (inc/ix/ethqueue.h:126).                                         *)
StopsWhenEmpty ==
  [][pc = "round" /\ pc' # "recv" =>
       Len(batch) >= BATCH \/ \A r \in Queues : backlog[r] = <<>>]_vars
=============================================================================
