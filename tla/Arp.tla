--------------------------------- MODULE Arp ---------------------------------
(***************************************************************************)
(* Address resolution, dp/net/arp.c, with ip_send_one (dp/net/ip.c) and the *)
(* run lists of dp/core/cpu.c that carry waiting packets back to their CPU. *)
(* CPUs interleave between the accesses to an entry and the locked sections;*)
(* arp_timer_handler runs on the CPU that armed the timer and takes no lock *)
(* for the entry.  A request or its answer may be lost.                     *)
(*                                                                          *)
(* Where two CPUs work on one entry the code can free what is still in use  *)
(* or put a timer on a wheel twice.  The model stops before such a step and *)
(* says so in broken: what it shows holds until then.                       *)
(***************************************************************************)
EXTENDS Integers, Sequences, FiniteSets

CONSTANTS
  Cpus, Addrs, Pkts,
  Static,             \* the addresses with a static entry
  Entries,            \* the elements of arp_mempool
  Slots,              \* the elements of pending_pkt_mempool
  ARP_MAX_ATTEMPTS,
  NULL

(* There is an element for every static entry: parse_arp fails otherwise,   *)
(* and the dataplane does not start.                                        *)
ASSUME ArpAssumption ==
  /\ ARP_MAX_ATTEMPTS \in Nat \ {0} /\ Static \subseteq Addrs
  /\ \E f \in [Static -> Entries] : \A a, b \in Static : f[a] = f[b] => a = b
  /\ IsFiniteSet(Slots) /\ IsFiniteSet(Pkts)
  /\ NULL \notin Cpus \cup Addrs \cup Pkts \cup Entries \cup Slots

VARIABLES
  arp_tbl,            \* the entries in the table
  entry,              \* addr, flags, retries and the CPU on whose wheel its timer is
  arp_lock,           \* held by a CPU that never lets go
  arp_send_pkt_lock,  \* the CPU that holds it
  slot,               \* pending_pkt: entry it waits on, packet, cpu, dispatched
  runlist,            \* per CPU, the newest runner first
  pkt,                \* where a packet is
  cpu,                \* per CPU, the call in progress
  broken              \* the next step would use what is not the CPU's to use

locks == <<arp_lock, arp_send_pkt_lock>>
table == <<arp_tbl, entry>>
vars == <<table, locks, slot, runlist, pkt, cpu, broken>>

NoCall == [pc |-> "idle", p |-> NULL, a |-> NULL, e |-> NULL, s |-> NULL]
NoSlot == [e |-> NULL, p |-> NULL, cpu |-> NULL, dispatched |-> FALSE]
NoEntry == [addr |-> NULL, flags |-> {}, retries |-> 0, timer |-> NULL]

(* arp_insert, for the addresses that parse_arp reads before the CPUs run.  *)
arp_insert(a) == [NoEntry EXCEPT !.addr = a, !.flags = {"VALID", "STATIC"}]

(* arp_init, and the static entries.                                        *)
Init ==
  /\ LET at == CHOOSE f \in [Static -> Entries] :
                 \A a, b \in Static : f[a] = f[b] => a = b
     IN /\ arp_tbl = {at[a] : a \in Static}
        /\ entry = [e \in Entries |->
             IF e \in arp_tbl THEN arp_insert(CHOOSE a \in Static : at[a] = e)
             ELSE NoEntry]
  /\ arp_lock = FALSE /\ arp_send_pkt_lock = NULL
  /\ slot = [s \in Slots |-> NoSlot]
  /\ runlist = [c \in Cpus |-> <<>>]
  /\ pkt = [p \in Pkts |-> "ready"]
  /\ cpu = [c \in Cpus |-> NoCall]
  /\ broken = FALSE

arp_lookup(a) == {e \in arp_tbl : entry[e].addr = a}
FreeSlots == {s \in Slots : slot[s].p = NULL}
Waiting(e) == {s \in Slots : slot[s].p # NULL /\ slot[s].e = e}
At(c, pc) == cpu[c].pc = pc /\ ~broken
Go(c, pc) == cpu' = [cpu EXCEPT ![c].pc = pc]
Hold(c, e, pc) == cpu' = [cpu EXCEPT ![c].e = e, ![c].pc = pc]

(* The call is over; send_pending_pkt has yet to free its pending_pkt.      *)
Finish(c) ==
  cpu' = [cpu EXCEPT ![c] =
    IF @.s = NULL THEN NoCall ELSE [@ EXCEPT !.pc = "done", !.e = NULL]]

(* The step that CPU c would take next goes wrong; the model ends here.     *)
Break == broken' = TRUE /\ UNCHANGED <<table, locks, slot, runlist, pkt, cpu>>

(* ip_send_one of a packet for a.                                           *)
ip_send_one(c, p, a) ==
  /\ At(c, "idle") /\ pkt[p] = "ready"
  /\ cpu' = [cpu EXCEPT ![c] = [NoCall EXCEPT !.pc = "lookup", !.p = p, !.a = a]]
  /\ pkt' = [pkt EXCEPT ![p] = "stack"]
  /\ UNCHANGED <<table, locks, slot, runlist, broken>>

(* cpu_do_bookkeeping runs the newest runner, here send_pending_pkt.        *)
cpu_do_bookkeeping(c) ==
  /\ At(c, "idle") /\ runlist[c] # <<>>
  /\ LET s == Head(runlist[c])
     IN cpu' = [cpu EXCEPT ![c] =
          [pc |-> "lookup", p |-> slot[s].p, a |-> entry[slot[s].e].addr,
           e |-> NULL, s |-> s]]
  /\ runlist' = [runlist EXCEPT ![c] = Tail(@)]
  /\ UNCHANGED <<table, locks, slot, pkt, broken>>

(* arp_input of a packet from a, to this host or to another: only the first *)
(* may create an entry.                                                     *)
arp_input(c, a, am_target) ==
  /\ At(c, "idle")
  /\ cpu' = [cpu EXCEPT ![c] =
       [NoCall EXCEPT !.pc = IF am_target THEN "lookup" ELSE "search", !.a = a]]
  /\ UNCHANGED <<table, locks, slot, runlist, pkt, broken>>

Found(c, e) == Hold(c, e, IF cpu[c].p = NULL THEN "update" ELSE "mac")

(* arp_lookup: the search without the lock ...                              *)
Lookup(c) ==
  /\ At(c, "lookup")
  /\ IF arp_lookup(cpu[c].a) = {} THEN Go(c, "create")
     ELSE \E e \in arp_lookup(cpu[c].a) : Found(c, e)
  /\ UNCHANGED <<table, locks, slot, runlist, pkt, broken>>

mempool_alloc(free) == CHOOSE x \in free : TRUE

NewEntry(c, e) ==
  /\ arp_tbl' = arp_tbl \cup {e}
  /\ entry' = [entry EXCEPT ![e] = [NoEntry EXCEPT !.addr = cpu[c].a]]
  /\ Found(c, e)

(* ... the creation that does not search again ...                          *)
Create_once(c) ==
  /\ At(c, "create") /\ ~arp_lock
  /\ arp_tbl # Entries /\ NewEntry(c, mempool_alloc(Entries \ arp_tbl))
  /\ UNCHANGED <<locks, slot, runlist, pkt, broken>>

(* ... and the creation under arp_lock, which searches again.  When the pool*)
(* is empty the call fails and the lock stays taken; a packet is then given *)
(* to arp_add_pending_pkt all the same.                                     *)
Create(c) ==
  /\ At(c, "create") /\ ~arp_lock
  /\ \/ /\ \E e \in arp_lookup(cpu[c].a) : Found(c, e)
        /\ UNCHANGED <<table, arp_lock>>
     \/ /\ arp_lookup(cpu[c].a) = {}
        /\ arp_tbl # Entries /\ NewEntry(c, mempool_alloc(Entries \ arp_tbl))
        /\ UNCHANGED arp_lock
     \/ /\ arp_lookup(cpu[c].a) = {} /\ arp_tbl = Entries
        /\ arp_lock' = TRUE
        /\ IF cpu[c].p = NULL THEN Finish(c) ELSE Go(c, "search")
        /\ UNCHANGED table
  /\ UNCHANGED <<arp_send_pkt_lock, slot, runlist, pkt, broken>>

(* arp_lookup without leave to create: of arp_add_pending_pkt, whose        *)
(* -ENOENT ip_send_one ignores, and of arp_update_mac.                      *)
Search(c) ==
  /\ At(c, "search")
  /\ IF arp_lookup(cpu[c].a) = {}
     THEN /\ Finish(c)
          /\ pkt' = IF cpu[c].p = NULL THEN pkt ELSE [pkt EXCEPT ![cpu[c].p] = "lost"]
     ELSE /\ \E e \in arp_lookup(cpu[c].a) :
               Hold(c, e, IF cpu[c].p = NULL THEN "update" ELSE "add")
          /\ UNCHANGED pkt
  /\ UNCHANGED <<table, locks, slot, runlist, broken>>

(* arp_lookup_mac, the test of the entry.  With an address the packet goes  *)
(* to eth_send_one; when that fails, the caller of ip_send_one frees it.    *)
arp_lookup_mac(c) ==
  /\ At(c, "mac")
  /\ IF "VALID" \in entry[cpu[c].e].flags
     THEN /\ \E end \in {"sent", "freed"} : pkt' = [pkt EXCEPT ![cpu[c].p] = end]
          /\ Finish(c)
     ELSE Go(c, "request") /\ UNCHANGED pkt
  /\ UNCHANGED <<table, locks, slot, runlist, broken>>

(* Under arp_send_pkt_lock it sends a request, unless the timer says that   *)
(* one is under way.                                                        *)
Request(c) ==
  /\ At(c, "request") /\ arp_send_pkt_lock = NULL
  /\ IF entry[cpu[c].e].timer # NULL
     THEN Hold(c, NULL, "search") /\ UNCHANGED <<entry, arp_send_pkt_lock>>
     ELSE /\ entry' = [entry EXCEPT ![cpu[c].e].flags = @ \cup {"RESOLVING"}]
          /\ arp_send_pkt_lock' = c
          /\ Go(c, "request_arm")
  /\ UNCHANGED <<arp_tbl, arp_lock, slot, runlist, pkt, broken>>

Arming == {"request_arm", "update_arm", "retry_arm"}

(* timer_add of arp_lookup_mac, which then unlocks, of arp_update_mac and of*)
(* arp_timer_handler, which is then over.  The timer goes on the wheel of   *)
(* this CPU; it must not be on one.                                         *)
timer_add(c) ==
  /\ cpu[c].pc \in Arming /\ At(c, cpu[c].pc)
  /\ IF entry[cpu[c].e].timer # NULL THEN Break
     ELSE /\ entry' = [entry EXCEPT ![cpu[c].e].timer = c]
          /\ arp_send_pkt_lock' =
               IF cpu[c].pc = "request_arm" THEN NULL ELSE arp_send_pkt_lock
          /\ CASE cpu[c].pc = "request_arm" -> Hold(c, NULL, "search")
               [] cpu[c].pc = "update_arm" -> Go(c, "dispatch")
               [] cpu[c].pc = "retry_arm" -> Finish(c)
          /\ UNCHANGED <<arp_tbl, arp_lock, slot, runlist, pkt, broken>>

(* arp_add_pending_pkt, under pending_pkt_lock; ip_send_one ignores -ENOMEM.*)
arp_add_pending_pkt(c) ==
  /\ At(c, "add")
  /\ IF FreeSlots = {}
     THEN pkt' = [pkt EXCEPT ![cpu[c].p] = "leaked"] /\ UNCHANGED slot
     ELSE /\ slot' = [slot EXCEPT ![mempool_alloc(FreeSlots)] =
               [e |-> cpu[c].e, p |-> cpu[c].p, cpu |-> c, dispatched |-> FALSE]]
          /\ pkt' = [pkt EXCEPT ![cpu[c].p] = "waiting"]
  /\ Finish(c)
  /\ UNCHANGED <<table, locks, runlist, broken>>

(* arp_update_mac: the entry becomes valid unless it is static ...          *)
arp_update_mac(c) ==
  /\ At(c, "update")
  /\ IF "STATIC" \in entry[cpu[c].e].flags THEN Finish(c) /\ UNCHANGED entry
     ELSE /\ entry' = [entry EXCEPT ![cpu[c].e].flags = {"VALID"},
                                    ![cpu[c].e].retries = 0]
          /\ Go(c, "timer_mod")
  /\ UNCHANGED <<arp_tbl, locks, slot, runlist, pkt, broken>>

(* ... timer_mod takes its timer from the wheel it is on, to add it to this *)
(* CPU's ...                                                                *)
timer_mod(c) ==
  /\ At(c, "timer_mod")
  /\ entry' = [entry EXCEPT ![cpu[c].e].timer = NULL]
  /\ Go(c, "update_arm")
  /\ UNCHANGED <<arp_tbl, locks, slot, runlist, pkt, broken>>

(* The orders in which the elements of S can be put in front of a run list. *)
Orders(S) ==
  {q \in [1 .. Cardinality(S) -> S] : \A i, j \in DOMAIN q : q[i] = q[j] => i = j}

(* ... and the packets that wait go to the run lists of their CPUs.         *)
Dispatch(c) ==
  /\ At(c, "dispatch")
  /\ LET new == {s \in Waiting(cpu[c].e) : ~slot[s].dispatched}
     IN /\ slot' = [s \in Slots |->
             IF s \in new THEN [slot[s] EXCEPT !.dispatched = TRUE] ELSE slot[s]]
        /\ \E order \in [Cpus -> UNION {Orders(S) : S \in SUBSET new}] :
             /\ \A d \in Cpus : order[d] \in Orders({s \in new : slot[s].cpu = d})
             /\ runlist' = [d \in Cpus |-> order[d] \o runlist[d]]
  /\ Finish(c)
  /\ UNCHANGED <<table, locks, pkt, broken>>

(* send_pending_pkt frees its pending_pkt.                                  *)
send_pending_pkt(c) ==
  /\ At(c, "done")
  /\ slot' = [slot EXCEPT ![cpu[c].s] = NoSlot]
  /\ cpu' = [cpu EXCEPT ![c] = NoCall]
  /\ UNCHANGED <<table, locks, runlist, pkt, broken>>

(* arp_timer_handler that never ends an entry.                              *)
arp_timer_handler_keep(c, e) ==
  /\ At(c, "idle") /\ e \in arp_tbl /\ entry[e].timer = c
  /\ entry' = [entry EXCEPT ![e].timer = NULL,
                            ![e].retries = (@ + 1) % ARP_MAX_ATTEMPTS]
  /\ cpu' = [cpu EXCEPT ![c] =
       [NoCall EXCEPT !.pc = "retry", !.a = entry[e].addr, !.e = e]]
  /\ UNCHANGED <<arp_tbl, locks, slot, runlist, pkt, broken>>

(* timer_run takes a timer off this CPU's wheel and calls arp_timer_handler,*)
(* which counts the attempt ...                                             *)
arp_timer_handler(c, e) ==
  /\ At(c, "idle") /\ e \in arp_tbl /\ entry[e].timer = c
  /\ entry' = [entry EXCEPT ![e].timer = NULL, ![e].retries = @ + 1]
  /\ cpu' = [cpu EXCEPT ![c] =
       [NoCall EXCEPT !.a = entry[e].addr, !.e = e,
          !.pc = IF entry[e].retries + 1 >= ARP_MAX_ATTEMPTS THEN "drop" ELSE "retry"]]
  /\ UNCHANGED <<arp_tbl, locks, slot, runlist, pkt, broken>>

(* ... sends another request ...                                            *)
Retry(c) ==
  /\ At(c, "retry")
  /\ entry' = [entry EXCEPT ![cpu[c].e].flags = @ \cup {"RESOLVING"}]
  /\ Go(c, "retry_arm")
  /\ UNCHANGED <<arp_tbl, locks, slot, runlist, pkt, broken>>

(* ... or, after the last attempt, frees under pending_pkt_lock the packets *)
(* that wait.  None may be on its way through a run list ...                *)
Drop(c) ==
  /\ At(c, "drop")
  /\ LET W == Waiting(cpu[c].e)
     IN IF \E s \in W : slot[s].dispatched THEN Break
        ELSE /\ pkt' = [p \in Pkts |->
                  IF \E s \in W : slot[s].p = p THEN "freed" ELSE pkt[p]]
             /\ slot' = [s \in Slots |-> IF s \in W THEN NoSlot ELSE slot[s]]
             /\ Go(c, "unlink")
             /\ UNCHANGED <<table, locks, runlist, broken>>

(* Someone else still uses e: a call that found it, a packet added since the*)
(* others were freed, or a wheel.                                           *)
InUse(c, e) ==
  \/ \E d \in Cpus \ {c} : cpu[d].e = e
  \/ Waiting(e) # {} \/ entry[e].timer # NULL

(* ... and frees the entry, without a lock.                                 *)
Unlink(c) ==
  /\ At(c, "unlink")
  /\ IF InUse(c, cpu[c].e) THEN Break
     ELSE /\ arp_tbl' = arp_tbl \ {cpu[c].e}
          /\ entry' = [entry EXCEPT ![cpu[c].e] = NoEntry]
          /\ cpu' = [cpu EXCEPT ![c] = NoCall]
          /\ UNCHANGED <<locks, slot, runlist, pkt, broken>>

Step(c) ==
  \/ Lookup(c) \/ Create(c) \/ Search(c)
  \/ arp_lookup_mac(c) \/ Request(c) \/ timer_add(c) \/ arp_add_pending_pkt(c)
  \/ arp_update_mac(c) \/ timer_mod(c) \/ Dispatch(c)
  \/ send_pending_pkt(c) \/ Retry(c) \/ Drop(c) \/ Unlink(c)

Expire(e) == \E c \in Cpus : arp_timer_handler(c, e)

Next ==
  \/ \E c \in Cpus : Step(c) \/ cpu_do_bookkeeping(c)
  \/ \E c \in Cpus, p \in Pkts, a \in Addrs : ip_send_one(c, p, a)
  \/ \E c \in Cpus, a \in Addrs, t \in BOOLEAN : arp_input(c, a, t)
  \/ \E e \in Entries : Expire(e)
  \/ broken /\ UNCHANGED vars

(* A CPU goes on with what it has begun, and its polling loop comes back to *)
(* its run list and its timers; nothing is assumed of the network.          *)
Fairness ==
  /\ \A c \in Cpus : WF_vars(Step(c)) /\ SF_vars(cpu_do_bookkeeping(c))
  /\ \A e \in Entries : SF_vars(Expire(e))

Spec == Init /\ [][Next]_vars
FairSpec == Spec /\ Fairness

-----------------------------------------------------------------------------
(* The state has its type.                                                  *)
TypeOK ==
  /\ arp_tbl \subseteq Entries /\ arp_lock \in BOOLEAN
  /\ arp_send_pkt_lock \in Cpus \cup {NULL}
  /\ \A e \in Entries : /\ entry[e].flags \subseteq {"RESOLVING", "VALID", "STATIC"}
                        /\ entry[e].retries \in Nat
                        /\ entry[e].timer \in Cpus \cup {NULL}
  /\ \A s \in Slots : slot[s].p \in Pkts \cup {NULL}
  /\ \A p \in Pkts :
       pkt[p] \in {"ready", "stack", "waiting", "sent", "freed", "lost", "leaked"}
  /\ \A c \in Cpus : runlist[c] \in Seq(Slots)

(* CPUs that look up an unknown address at the same time create one entry   *)
(* for it between them.                                                     *)
OneEntry == \A e, f \in arp_tbl : entry[e].addr = entry[f].addr => e = f

(* The call will arm the timer of the entry it holds, or remove the entry.  *)
Minds(c, e) ==
  /\ cpu[c].e = e
  /\ \/ cpu[c].pc \in Arming \cup
           {"request", "update", "timer_mod", "retry", "drop", "unlink"}
     \/ cpu[c].pc = "mac" /\ "VALID" \notin entry[e].flags

(* No entry is forgotten: the timer of an entry that is not static is       *)
(* pending, or a call is about to set it or to remove the entry.  Packets   *)
(* wait on such entries only, and so are looked at again even if the answer *)
(* came before they were added to the list.                                 *)
Watched ==
  /\ \A e \in arp_tbl : entry[e].addr \notin Static =>
       entry[e].timer # NULL \/ \E c \in Cpus : Minds(c, e)
  /\ \A s \in Slots : slot[s].p # NULL =>
       slot[s].e \in arp_tbl /\ entry[slot[s].e].addr \notin Static

(* A pending_pkt on a run list is allocated, is on one run list and is      *)
(* there once.                                                              *)
RunnersLive ==
  \A c \in Cpus : \A i \in 1 .. Len(runlist[c]) :
    LET s == runlist[c][i]
    IN /\ slot[s].p # NULL /\ slot[s].dispatched /\ slot[s].cpu = c
       /\ \A j \in 1 .. Len(runlist[c]) : runlist[c][j] = s => j = i

(* A static entry stays: answers do not replace it, and it never expires.   *)
StaticStays ==
  \A a \in Static : \E e \in arp_lookup(a) :
    entry[e].flags = {"VALID", "STATIC"} /\ entry[e].timer = NULL

(* arp_add_pending_pkt runs out of pending packets only when there are more *)
(* packets than these: none is kept by a packet that has gone.              *)
LeaksNeedFullPool ==
  (\E p \in Pkts : pkt[p] = "leaked") => Cardinality(Slots) < Cardinality(Pkts)

(* The table and the queues of waiting packets are sound however lookups,   *)
(* answers and timers of several CPUs interleave, up to the first step that *)
(* uses what another CPU has freed or armed (broken).                       *)
ArpSound ==
  /\ TypeOK /\ OneEntry /\ Watched /\ RunnersLive /\ StaticStays
  /\ LeaksNeedFullPool

(* A packet that ip_send_one takes is at last sent or freed, although an    *)
(* answer may come between arp_lookup_mac and arp_add_pending_pkt, when     *)
(* there is a pending_pkt for each packet (LeaksNeedFullPool).  The         *)
(* exceptions: the last attempt removed the entry between these two (lost:  *)
(* ip_send_one ignores the error, and nobody frees the packet), arp_lookup  *)
(* found the pool empty and kept arp_lock, or two CPUs met on the entry     *)
(* (broken).                                                                *)
PacketsLeave ==
  \A p \in Pkts : (pkt[p] = "stack") ~>
    \/ pkt[p] \in {"sent", "freed"}
    \/ pkt[p] = "lost" \/ arp_lock \/ broken
=============================================================================
