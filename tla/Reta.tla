-------------------------------- MODULE Reta --------------------------------
(***************************************************************************)
(* The redirection table of a card: CPUs that give flow groups away write   *)
(* their entries at the same time (reta_update of dp/drivers/ixgbe.c and    *)
(* i40e.c, called by eth_fg_assign_to_cpu).  ixgbe has registers of four    *)
(* entries that it reads, changes and writes under a lock; i40e converts    *)
(* the request for DPDK.  The mask of a request is a bitmap (ix/bitmap.h).  *)
(***************************************************************************)
EXTENDS Integers, FiniteSets

CONSTANTS
  Cpus,         \* CPUs that update the table
  Queues,
  Fgs,          \* nb_rx_fgs, a multiple of 4
  Bits,         \* BITS_PER_LONG, a multiple of 4
  Width,        \* values of the index of ixgbe: 256
  Driver        \* "ixgbe" or "i40e"

VARIABLES
  conf,         \* request of a CPU: [mask, reta]
  reg,          \* the registers, four entries each
  lock,         \* CPU that holds the lock, or None
  i, part,      \* entry a CPU is at, and the register it has read
  pc

vars == <<conf, reg, lock, i, part, pc>>

None == "none"
Entries == 0 .. Fgs - 1
BITMAP_POS_IDX(pos) == pos \div Bits
BITMAP_POS_SHIFT(pos) == pos % Bits
bitmap_init(n, state) == [w \in 0 .. ((n + Bits - 1) \div Bits) - 1 |-> [b \in 0 .. Bits - 1 |-> state]]
bitmap_set(bits, pos) == [bits EXCEPT ![BITMAP_POS_IDX(pos)][BITMAP_POS_SHIFT(pos)] = TRUE]
bitmap_test(bits, pos) == bits[BITMAP_POS_IDX(pos)][BITMAP_POS_SHIFT(pos)]

(* A CPU gives away one or four of its groups: requests do not overlap.      *)
Mask(s) ==
  LET add[t \in SUBSET s] ==
        IF t = {} THEN bitmap_init(Fgs, FALSE) ELSE LET p == CHOOSE p \in t : TRUE IN bitmap_set(add[t \ {p}], p)
  IN add[s]
Init ==
  /\ \E own \in [Entries -> Cpus \cup {None}], q \in [Cpus -> Queues] :
       /\ \A c \in Cpus : Cardinality({f \in Entries : own[f] = c}) \in {1, 4}
       /\ conf = [c \in Cpus |-> [mask |-> Mask({f \in Entries : own[f] = c}), reta |-> [f \in Entries |-> q[c]]]]
  /\ reg = [r \in 0 .. (Fgs \div 4) - 1 |-> [j \in 0 .. 3 |-> 0]]
  /\ lock = None /\ i = [c \in Cpus |-> 0] /\ part = [c \in Cpus |-> [j \in 0 .. 3 |-> 0]]
  /\ pc = [c \in Cpus |-> "lock"]

Step(c, next) == pc' = [pc EXCEPT ![c] = next]

(* The lock of the card.                                                    *)
Free == lock = None
spin_lock(c) ==
  /\ pc[c] = "lock" /\ Free
  /\ lock' = c
  /\ Step(c, IF Driver = "ixgbe" THEN "read" ELSE "convert")
  /\ UNCHANGED <<conf, reg, i, part>>

(* The mask of the four entries from i on; and one that looks at the first  *)
(* word only.                                                               *)
Masked_low(c, n) == {j \in 0 .. 3 : conf[c].mask[0][BITMAP_POS_SHIFT(n) + j]}
Masked(c, n) == {j \in 0 .. 3 : conf[c].mask[BITMAP_POS_IDX(n)][BITMAP_POS_SHIFT(n) + j]}

(* The index is an octet.                                                   *)
NextIndex(n) == (n + 4) % Width

(* An empty mask is passed over, a full one needs no read.                  *)
ixgbe_read(c) ==
  /\ pc[c] = "read" /\ i[c] < Fgs
  /\ LET m == Masked(c, i[c])
     IN IF m = {} THEN i' = [i EXCEPT ![c] = NextIndex(@)] /\ UNCHANGED <<part, pc>>
        ELSE /\ part' = [part EXCEPT ![c] = IF m = 0 .. 3 THEN [j \in 0 .. 3 |-> 0] ELSE reg[i[c] \div 4]]
             /\ Step(c, "write") /\ UNCHANGED i
  /\ UNCHANGED <<conf, reg, lock>>

ixgbe_write(c) ==
  /\ pc[c] = "write"
  /\ reg' = [reg EXCEPT ![i[c] \div 4] =
               [j \in 0 .. 3 |-> IF j \in Masked(c, i[c]) THEN conf[c].reta[i[c] + j] ELSE part[c][j]]]
  /\ i' = [i EXCEPT ![c] = NextIndex(@)]
  /\ Step(c, "read")
  /\ UNCHANGED <<conf, lock, part>>

(* DPDK takes the entries of a mask, which is converted word by word.       *)
Converted(c, n) == conf[c].mask[BITMAP_POS_IDX(Bits * (n \div Bits))][n % Bits]
i40e_reta_update(c) ==
  /\ pc[c] = "convert"
  /\ reg' = [r \in DOMAIN reg |-> [j \in 0 .. 3 |->
               IF Converted(c, 4 * r + j) THEN conf[c].reta[4 * r + j] ELSE reg[r][j]]]
  /\ i' = [i EXCEPT ![c] = Fgs]
  /\ Step(c, "read")
  /\ UNCHANGED <<conf, lock, part>>

spin_unlock(c) ==
  /\ pc[c] = "read" /\ i[c] >= Fgs
  /\ lock' = None
  /\ Step(c, "done")
  /\ UNCHANGED <<conf, reg, i, part>>

Next == \E c \in Cpus : spin_lock(c) \/ ixgbe_read(c) \/ ixgbe_write(c) \/ i40e_reta_update(c) \/ spin_unlock(c)
Spec == Init /\ [][Next]_vars /\ WF_vars(Next)

-----------------------------------------------------------------------------

(* An update changes exactly the entries of its mask and no update is lost: *)
(* what a CPU wrote stays, and what nobody asked for stays as it was.       *)
TableRight ==
  \A f \in Entries :
    LET value == reg[f \div 4][f % 4]
        asked == {c \in Cpus : bitmap_test(conf[c].mask, f)}
    IN /\ \A c \in asked : pc[c] = "done" => value = conf[c].reta[f]
       /\ asked = {} => value = 0

(* Every update comes to an end, however the CPUs are scheduled.            *)
AllDone == \A c \in Cpus : pc[c] = "done"
AllUpdated == <>AllDone

=============================================================================
