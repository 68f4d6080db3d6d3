------------------------------ MODULE ArpProofs ------------------------------
(***************************************************************************)
(* ArpSound for any number of CPUs, addresses, packets, table entries and   *)
(* pending packets.                                                         *)
(*                                                                          *)
(* The inductive invariant IInv follows a call of ip_send_one, arp_input or *)
(* arp_timer_handler through its unlocked steps.  TablePart: an entry that  *)
(* a call holds is in the table, for the call's address, and each entry has *)
(* a timer or a call that sees to it.  SlotPart: a pending_pkt on a run     *)
(* list, or being sent by send_pending_pkt, waits on a valid entry, so that *)
(* the sending CPU never queues the packet again.  PacketPart: a packet has *)
(* one owner, a call or a pending_pkt, and so at most one pending_pkt per   *)
(* packet is in use.                                                        *)
(***************************************************************************)
EXTENDS Arp, TLAPS

Calls ==
  {"idle", "lookup", "search", "create", "mac", "request", "request_arm", "add",
   "update", "timer_mod", "update_arm", "dispatch",
   "retry", "retry_arm", "drop", "unlink", "done"}

PktStates == {"ready", "stack", "waiting", "sent", "freed", "lost", "leaked"}

EntryType ==
  [addr : Addrs \cup {NULL}, flags : SUBSET {"RESOLVING", "VALID", "STATIC"},
   retries : Nat, timer : Cpus \cup {NULL}]
SlotType ==
  [e : Entries \cup {NULL}, p : Pkts \cup {NULL}, cpu : Cpus \cup {NULL},
   dispatched : BOOLEAN]
CallType ==
  [pc : Calls, p : Pkts \cup {NULL}, a : Addrs \cup {NULL},
   e : Entries \cup {NULL}, s : Slots \cup {NULL}]

Types ==
  /\ arp_tbl \in SUBSET Entries
  /\ arp_lock \in BOOLEAN /\ arp_send_pkt_lock \in Cpus \cup {NULL}
  /\ entry \in [Entries -> EntryType]
  /\ slot \in [Slots -> SlotType]
  /\ runlist \in [Cpus -> Seq(Slots)]
  /\ pkt \in [Pkts -> PktStates]
  /\ cpu \in [Cpus -> CallType]

(* Where a call holds the entry it works on ...                             *)
Working ==
  {"mac", "request", "request_arm", "add", "update", "timer_mod", "update_arm",
   "dispatch", "retry", "retry_arm", "drop", "unlink"}
(* ... and where it knows that this is not a static one.                    *)
Tied ==
  {"create", "request", "request_arm", "add", "timer_mod", "update_arm",
   "dispatch", "retry", "retry_arm", "drop", "unlink"}

(* What a call knows of its entry between two of its steps.                 *)
CallOk(c) ==
  /\ cpu[c].pc # "idle" => cpu[c].a \in Addrs
  /\ cpu[c].pc = "idle" => cpu[c].s = NULL
  /\ cpu[c].e # NULL => cpu[c].e \in arp_tbl /\ entry[cpu[c].e].addr = cpu[c].a
  /\ cpu[c].pc \in Working => cpu[c].e # NULL
  /\ cpu[c].pc \in {"mac", "request", "request_arm", "add"} => cpu[c].p \in Pkts
  /\ cpu[c].pc \in Tied => cpu[c].a \notin Static
  /\ cpu[c].pc = "search" /\ cpu[c].p # NULL => cpu[c].a \notin Static
  /\ cpu[c].pc \in {"timer_mod", "update_arm", "dispatch"} =>
       "VALID" \in entry[cpu[c].e].flags

Tended ==
  \A e \in arp_tbl : entry[e].addr \notin Static =>
    entry[e].timer # NULL \/ \E c \in Cpus : Minds(c, e)

TablePart ==
  /\ OneEntry /\ StaticStays /\ Tended
  /\ \A e \in arp_tbl : entry[e].addr \in Addrs
  /\ \A e \in arp_tbl : "STATIC" \in entry[e].flags => entry[e].addr \in Static
  /\ \A c \in Cpus : CallOk(c)

Live(s) == slot[s].p # NULL

(* The pending_pkt that send_pending_pkt works on.                          *)
RunnerOk(c) ==
  cpu[c].s # NULL =>
    /\ cpu[c].s \in Slots /\ Live(cpu[c].s)
    /\ slot[cpu[c].s].dispatched /\ slot[cpu[c].s].cpu = c
    /\ cpu[c].p = slot[cpu[c].s].p /\ cpu[c].a = entry[slot[cpu[c].s].e].addr
    /\ cpu[c].pc \in {"lookup", "mac", "done"}
    /\ \A i \in 1 .. Len(runlist[c]) : runlist[c][i] # cpu[c].s

SlotOk(s) ==
  Live(s) => /\ slot[s].e \in arp_tbl /\ entry[slot[s].e].addr \notin Static
             /\ slot[s].dispatched => "VALID" \in entry[slot[s].e].flags

SlotPart ==
  /\ RunnersLive
  /\ \A s \in Slots : SlotOk(s)
  /\ \A c \in Cpus : RunnerOk(c)

(* The call has a packet that it has not yet sent or queued.                *)
Holds(c) ==
  /\ cpu[c].pc \in {"lookup", "search", "create", "mac", "request", "request_arm", "add"}
  /\ cpu[c].p # NULL /\ cpu[c].s = NULL

PacketPart ==
  /\ \A s \in Slots : Live(s) => pkt[slot[s].p] \in {"waiting", "sent", "freed"}
  /\ \A s, t \in Slots : Live(s) /\ slot[s].p = slot[t].p => s = t
  /\ \A c \in Cpus : Holds(c) => pkt[cpu[c].p] = "stack"
  /\ \A c, d \in Cpus : Holds(c) /\ Holds(d) /\ cpu[c].p = cpu[d].p => c = d
  /\ LeaksNeedFullPool

IInv == Types /\ TablePart /\ SlotPart /\ PacketPart

-----------------------------------------------------------------------------
(* A step of CPU c has left the calls of the other CPUs alone.              *)
OthersKept(c) ==
  cpu' \in [Cpus -> CallType] /\ \A d \in Cpus : d # c => cpu'[d] = cpu[d]

(* CPU c goes on to pc, with e, and has kept the packet, the address and    *)
(* the pending_pkt it works on.                                             *)
GoesOn(c, e, pc) ==
  /\ OthersKept(c)
  /\ cpu'[c].pc = pc /\ cpu'[c].p = cpu[c].p /\ cpu'[c].e = e
  /\ cpu'[c].a = cpu[c].a /\ cpu'[c].s = cpu[c].s

(* The call of CPU c is over, but for the pending_pkt it may have to free.  *)
Ended(c) ==
  /\ OthersKept(c)
  /\ cpu[c].s = NULL => cpu'[c] = NoCall
  /\ cpu[c].s # NULL =>
       /\ cpu'[c].pc = "done" /\ cpu'[c].p = cpu[c].p /\ cpu'[c].e = NULL
       /\ cpu'[c].a = cpu[c].a /\ cpu'[c].s = cpu[c].s

(* A call that starts, with the locals r.                                   *)
LEMMA CallSet ==
  ASSUME cpu \in [Cpus -> CallType], NEW c \in Cpus, NEW r \in CallType,
         cpu' = [cpu EXCEPT ![c] = r]
  PROVE  OthersKept(c) /\ cpu'[c] = r
BY Zenon DEF OthersKept

(* Go changes only the place of the call.                                   *)
LEMMA GoGoes ==
  ASSUME cpu \in [Cpus -> CallType], NEW c \in Cpus, NEW pc \in Calls, Go(c, pc)
  PROVE  GoesOn(c, cpu[c].e, pc)
BY Zenon DEF Go, GoesOn, OthersKept, CallType

(* Hold gives the call an entry, or takes it away.                          *)
LEMMA HoldGoes ==
  ASSUME cpu \in [Cpus -> CallType], NEW c \in Cpus, NEW e \in Entries \cup {NULL},
         NEW pc \in Calls, Hold(c, e, pc)
  PROVE  GoesOn(c, e, pc)
BY ZenonT(60) DEF Hold, GoesOn, OthersKept, CallType

(* A CPU without a call is one with NoCall.                                 *)
LEMMA NoCallOk ==
  /\ NoCall \in CallType /\ NoCall.pc = "idle" /\ NoCall.s = NULL /\ NoCall.e = NULL
  /\ NoCall.p = NULL
BY Zenon DEF NoCall, CallType, Calls

(* Finish ends a call.                                                      *)
LEMMA FinishEnds ==
  ASSUME cpu \in [Cpus -> CallType], NEW c \in Cpus, Finish(c)
  PROVE  Ended(c)
<1> DEFINE r == IF cpu[c].s = NULL THEN NoCall
                ELSE [cpu[c] EXCEPT !.pc = "done", !.e = NULL]
<1>1. cpu' = [cpu EXCEPT ![c] = r]
  BY Zenon DEF Finish
<1>2. cpu[c] \in CallType
  BY Zenon
<1>3. CASE cpu[c].s = NULL
  <2>1. r = NoCall
    BY Zenon, <1>3
  <2>2. OthersKept(c) /\ cpu'[c] = NoCall
    BY Zenon, <1>1, <2>1, NoCallOk, CallSet
  <2> QED
    BY Zenon, <1>3, <2>2 DEF Ended
<1>4. CASE cpu[c].s # NULL
  <2>1. r = [cpu[c] EXCEPT !.pc = "done", !.e = NULL]
    BY Zenon, <1>4
  <2>2. /\ r \in CallType /\ r.pc = "done" /\ r.p = cpu[c].p /\ r.e = NULL
        /\ r.a = cpu[c].a /\ r.s = cpu[c].s
    BY Zenon, <1>2, <2>1 DEF CallType, Calls
  <2> HIDE DEF r
  <2>3. OthersKept(c) /\ cpu'[c] = r
    BY Zenon, <1>1, <2>2, CallSet
  <2> QED
    BY Zenon, <1>4, <2>2, <2>3 DEF Ended
<1> QED
  BY Zenon, <1>3, <1>4

-----------------------------------------------------------------------------
(* The table is the same, an entry keeps its address and stays valid, and a *)
(* static one does not change.                                              *)
EntriesKept ==
  /\ arp_tbl' = arp_tbl
  /\ \A e \in arp_tbl : /\ entry'[e].addr = entry[e].addr
                        /\ "VALID" \in entry[e].flags => "VALID" \in entry'[e].flags
                        /\ "STATIC" \in entry'[e].flags => "STATIC" \in entry[e].flags
                        /\ entry[e].addr \in Static => entry'[e] = entry[e]

(* The step leaves no entry without a timer that CPU c saw to.              *)
Tends(c) ==
  \A e \in arp_tbl : entry[e].addr \notin Static =>
    \/ entry'[e].timer # NULL \/ Minds(c, e)'
    \/ /\ entry[e].timer = NULL /\ ~Minds(c, e)
       /\ "VALID" \notin entry[e].flags => "VALID" \notin entry'[e].flags

(* What is said of the table stays true when the entries are kept.          *)
LEMMA TableKept ==
  ASSUME TablePart, NEW c \in Cpus, OthersKept(c), EntriesKept, CallOk(c)', Tends(c)
  PROVE  TablePart'
<1>0. /\ OneEntry /\ StaticStays /\ Tended
      /\ \A e \in arp_tbl : entry[e].addr \in Addrs
      /\ \A e \in arp_tbl : "STATIC" \in entry[e].flags => entry[e].addr \in Static
      /\ \A d \in Cpus : CallOk(d)
  BY Zenon DEF TablePart
<1>1. /\ arp_tbl' = arp_tbl
      /\ \A e \in arp_tbl : /\ entry'[e].addr = entry[e].addr
                            /\ "VALID" \in entry[e].flags => "VALID" \in entry'[e].flags
                            /\ "STATIC" \in entry'[e].flags => "STATIC" \in entry[e].flags
                            /\ entry[e].addr \in Static => entry'[e] = entry[e]
  BY Zenon DEF EntriesKept
<1>2. OneEntry'
  BY SMTT(30), <1>0, <1>1 DEF OneEntry
<1>3. StaticStays'
  <2> SUFFICES ASSUME NEW a \in Static
               PROVE  \E f \in arp_tbl : /\ entry'[f].addr = a
                                         /\ entry'[f].flags = {"VALID", "STATIC"}
                                         /\ entry'[f].timer = NULL
    <3>1. arp_tbl' = arp_tbl
      BY Zenon, <1>1
    <3> QED
      BY ZenonT(60), <3>1 DEF StaticStays, arp_lookup
  <2>1. PICK f \in arp_tbl : /\ entry[f].addr = a /\ entry[f].flags = {"VALID", "STATIC"}
                             /\ entry[f].timer = NULL
    BY Zenon, <1>0 DEF StaticStays, arp_lookup
  <2>2. entry'[f] = entry[f]
    BY Zenon, <2>1, <1>1
  <2> QED
    BY Zenon, <2>1, <2>2
<1>4. Tended'
  <2> SUFFICES ASSUME NEW e \in arp_tbl, entry[e].addr \notin Static,
                      entry'[e].timer = NULL
               PROVE  \E d \in Cpus : Minds(d, e)'
    BY Zenon, <1>1 DEF Tended
  <2>1. CASE Minds(c, e)'
    BY Zenon, <2>1
  <2>2. CASE /\ entry[e].timer = NULL /\ ~Minds(c, e)
             /\ "VALID" \notin entry[e].flags => "VALID" \notin entry'[e].flags
    <3>1. PICK d \in Cpus : Minds(d, e)
      BY Zenon, <1>0, <2>2 DEF Tended
    <3>2. d # c /\ cpu'[d] = cpu[d]
      BY Zenon, <3>1, <2>2 DEF OthersKept
    <3>3. Minds(d, e)'
      BY Zenon, <3>1, <3>2, <2>2 DEF Minds
    <3> QED
      BY Zenon, <3>3
  <2> QED
    BY Zenon, <2>1, <2>2 DEF Tends
<1>5. \A e \in arp_tbl' : /\ entry'[e].addr \in Addrs
                          /\ "STATIC" \in entry'[e].flags => entry'[e].addr \in Static
  BY Zenon, <1>0, <1>1
<1>6. ASSUME NEW d \in Cpus PROVE CallOk(d)'
  <2>1. CASE d = c
    BY Zenon, <2>1
  <2>2. CASE d # c
    <3>1. cpu'[d] = cpu[d] /\ CallOk(d)
      BY Zenon, <1>0, <2>2 DEF OthersKept
    <3>2. cpu[d].pc \in {"timer_mod", "update_arm", "dispatch"} => cpu[d].e # NULL
      BY Zenon, <3>1 DEF CallOk, Working
    <3> QED
      BY Zenon, <1>1, <3>1, <3>2 DEF CallOk
  <2> QED
    BY Zenon, <2>1, <2>2
<1> QED
  BY Zenon, <1>2, <1>3, <1>4, <1>5, <1>6 DEF TablePart

(* The call of CPU c changes, but goes on with the pending_pkt it had or    *)
(* with none.                                                               *)
RunnerKept(c) ==
  cpu'[c].s # NULL => /\ cpu'[c].s = cpu[c].s /\ cpu'[c].p = cpu[c].p
                      /\ cpu'[c].a = cpu[c].a
                      /\ cpu'[c].pc \in {"lookup", "mac", "done"}

(* A slot that waits stays sound when the entries are kept.                 *)
LEMMA SlotStays ==
  ASSUME NEW s \in Slots, SlotOk(s), EntriesKept,
         slot'[s].p # NULL =>
           slot'[s].p = slot[s].p /\ slot'[s].e = slot[s].e
           /\ (slot'[s].dispatched => slot[s].dispatched \/ "VALID" \in entry'[slot[s].e].flags)
  PROVE  SlotOk(s)'
BY Zenon DEF SlotOk, Live, EntriesKept

(* What is said of the pending packets stays true when they and the entries *)
(* are kept.                                                                *)
LEMMA SlotsKept ==
  ASSUME SlotPart, NEW c \in Cpus, OthersKept(c), EntriesKept, RunnerKept(c),
         UNCHANGED <<slot, runlist>>
  PROVE  SlotPart'
<1>0. RunnersLive /\ (\A s \in Slots : SlotOk(s)) /\ (\A d \in Cpus : RunnerOk(d))
  BY Zenon DEF SlotPart
<1>1. RunnersLive'
  BY SMTT(30), <1>0 DEF RunnersLive
<1>2. \A s \in Slots : SlotOk(s)'
  BY Zenon, <1>0, SlotStays
<1>3. ASSUME NEW d \in Cpus PROVE RunnerOk(d)'
  <2> SUFFICES ASSUME cpu'[d].s # NULL PROVE RunnerOk(d)'
    BY Zenon DEF RunnerOk
  <2>1. /\ cpu'[d].s = cpu[d].s /\ cpu'[d].p = cpu[d].p /\ cpu'[d].a = cpu[d].a
        /\ cpu'[d].pc = cpu[d].pc \/ cpu'[d].pc \in {"lookup", "mac", "done"}
    BY Zenon DEF OthersKept, RunnerKept
  <2>2. RunnerOk(d)
    BY Zenon, <1>0
  <2>3. entry'[slot[cpu[d].s].e].addr = entry[slot[cpu[d].s].e].addr
    BY Zenon, <1>0, <2>1, <2>2 DEF RunnerOk, SlotOk, EntriesKept
  <2> QED
    BY SMTT(30), <2>1, <2>2, <2>3 DEF RunnerOk, Live
<1> QED
  BY Zenon, <1>1, <1>2, <1>3 DEF SlotPart

(* The call of CPU c has no packet that it did not have before.             *)
HoldsLess(c) == Holds(c)' => Holds(c) /\ cpu'[c].p = cpu[c].p

(* Whoever holds a packet after the step held it before.                    *)
LEMMA OthersHold ==
  ASSUME NEW c \in Cpus, OthersKept(c), HoldsLess(c), NEW d \in Cpus, Holds(d)'
  PROVE  Holds(d) /\ cpu'[d].p = cpu[d].p
BY Zenon DEF OthersKept, Holds, HoldsLess

(* What is said of the packets stays true of a step that moves none.        *)
LEMMA PacketsKept ==
  ASSUME PacketPart, NEW c \in Cpus, OthersKept(c), HoldsLess(c), UNCHANGED pkt,
         \A s \in Slots : slot'[s].p # NULL => slot'[s].p = slot[s].p
  PROVE  PacketPart'
<1>1. \A d \in Cpus : Holds(d)' => Holds(d) /\ cpu'[d].p = cpu[d].p
  BY Zenon, OthersHold
<1>2. \A s, t \in Slots : slot'[s].p # NULL /\ slot'[s].p = slot'[t].p => s = t
  <2>1. \A s, t \in Slots : slot[s].p # NULL /\ slot[s].p = slot[t].p => s = t
    BY Zenon DEF PacketPart, Live
  <2> QED
    BY SMTT(30), <2>1
<1>3. LeaksNeedFullPool'
  BY Zenon DEF PacketPart, LeaksNeedFullPool
<1> QED
  BY ZenonT(60), <1>1, <1>2, <1>3 DEF PacketPart, Live

(* A step of CPU c that changes its own call and perhaps an entry.          *)
LEMMA CallStep ==
  ASSUME IInv, NEW c \in Cpus, OthersKept(c), EntriesKept, Types',
         UNCHANGED <<slot, runlist, pkt>>,
         CallOk(c)', Tends(c), RunnerKept(c), HoldsLess(c)
  PROVE  IInv'
<1>1. TablePart' /\ SlotPart'
  BY Zenon, TableKept, SlotsKept DEF IInv
<1>2. PacketPart'
  BY Zenon, PacketsKept DEF IInv
<1> QED
  BY Zenon, <1>1, <1>2 DEF IInv

(* Entry e alone changes: it keeps its address, stays valid if it was, and  *)
(* becomes n.                                                               *)
EntryMoved(e, n) ==
  /\ n \in EntryType /\ entry' = [entry EXCEPT ![e] = n]
  /\ n.addr = entry[e].addr
  /\ "VALID" \in entry[e].flags => "VALID" \in n.flags
  /\ "STATIC" \in n.flags => "STATIC" \in entry[e].flags

(* The other entries are as they were.                                      *)
LEMMA MovedEntries ==
  ASSUME Types, NEW e \in Entries, NEW n, EntryMoved(e, n)
  PROVE  /\ entry' \in [Entries -> EntryType] /\ entry'[e] = n
         /\ \A f \in Entries : f # e => entry'[f] = entry[f]
BY Zenon DEF Types, EntryMoved

(* CPU c sees to no entry but e.                                            *)
MindsOnly(c, e) == \A f \in arp_tbl : Minds(c, f) => f = e

(* The entries that CPU c saw to have a timer, or it still sees to them.    *)
StillMinds(c) ==
  \A f \in arp_tbl : entry[f].addr \notin Static /\ Minds(c, f) =>
    Minds(c, f)' \/ entry[f].timer # NULL

(* A step that changes one entry, which is not static, and the call of its  *)
(* CPU.                                                                     *)
LEMMA EntryStep ==
  ASSUME IInv, NEW c \in Cpus, OthersKept(c), NEW e \in arp_tbl, NEW n,
         EntryMoved(e, n), entry[e].addr \notin Static,
         UNCHANGED <<arp_tbl, arp_lock, slot, runlist, pkt>>,
         arp_send_pkt_lock' \in Cpus \cup {NULL},
         CallOk(c)', RunnerKept(c), HoldsLess(c),
         MindsOnly(c, e), n.timer # NULL \/ Minds(c, e)'
  PROVE  IInv'
<1>1. Types /\ e \in Entries /\ arp_tbl \subseteq Entries
  BY Zenon DEF IInv, Types
<1>2. /\ entry' \in [Entries -> EntryType] /\ entry'[e] = n
      /\ \A f \in Entries : f # e => entry'[f] = entry[f]
  BY Zenon, <1>1, MovedEntries
<1>3. EntriesKept
  BY Zenon, <1>1, <1>2 DEF EntriesKept, EntryMoved
<1>4. Tends(c)
  <2> SUFFICES ASSUME NEW f \in arp_tbl
               PROVE  \/ entry'[f].timer # NULL \/ Minds(c, f)'
                      \/ /\ entry[f].timer = NULL /\ ~Minds(c, f)
                         /\ "VALID" \notin entry[f].flags => "VALID" \notin entry'[f].flags
    BY Zenon DEF Tends
  <2>1. CASE f = e
    BY Zenon, <2>1, <1>2
  <2>2. CASE f # e
    BY Zenon, <2>2, <1>1, <1>2 DEF MindsOnly
  <2> QED
    BY Zenon, <2>1, <2>2
<1>5. Types'
  BY Zenon, <1>1, <1>2 DEF Types, OthersKept
<1> QED
  BY Zenon, <1>3, <1>4, <1>5, CallStep

(* A step that changes only the call of its CPU, and perhaps takes arp_lock *)
(* for good.                                                                *)
LEMMA CallOnly ==
  ASSUME IInv, NEW c \in Cpus, OthersKept(c), arp_lock' \in BOOLEAN,
         UNCHANGED <<arp_tbl, entry, arp_send_pkt_lock, slot, runlist, pkt>>,
         CallOk(c)', RunnerKept(c), HoldsLess(c), StillMinds(c)
  PROVE  IInv'
<1>1. EntriesKept
  BY Zenon DEF EntriesKept
<1>2. Tends(c)
  BY Zenon DEF Tends, StillMinds
<1>3. Types'
  BY Zenon DEF IInv, Types, OthersKept
<1> QED
  BY Zenon, <1>1, <1>2, <1>3, CallStep

(* What the invariant says of CPU c.                                        *)
LEMMA CallFacts ==
  ASSUME IInv, NEW c \in Cpus
  PROVE  cpu \in [Cpus -> CallType] /\ CallOk(c) /\ RunnerOk(c)
BY Zenon DEF IInv, Types, TablePart, SlotPart

(* A call that works on an entry holds one of the table, and is not a       *)
(* runner unless it is in arp_lookup_mac.                                   *)
LEMMA WorkFacts ==
  ASSUME IInv, NEW c \in Cpus, cpu[c].pc \in Working
  PROVE  /\ cpu \in [Cpus -> CallType] /\ CallOk(c)
         /\ cpu[c].e \in arp_tbl /\ cpu[c].e \in Entries /\ cpu[c].e # NULL
         /\ entry[cpu[c].e].addr = cpu[c].a /\ cpu[c].a \in Addrs
         /\ cpu[c].pc # "mac" => cpu[c].s = NULL
         /\ MindsOnly(c, cpu[c].e)
         /\ entry \in [Entries -> EntryType] /\ entry[cpu[c].e] \in EntryType
<1>1. cpu \in [Cpus -> CallType] /\ CallOk(c) /\ RunnerOk(c)
  BY Zenon, CallFacts
<1>2. cpu[c].e \in arp_tbl /\ entry[cpu[c].e].addr = cpu[c].a /\ cpu[c].e # NULL
  BY Zenon, <1>1 DEF CallOk
<1>3. cpu[c].pc # "idle"
  BY Zenon DEF Working
<1>4. cpu[c].pc # "mac" => cpu[c].s = NULL
  BY Zenon, <1>1 DEF RunnerOk, Working
<1>5. MindsOnly(c, cpu[c].e)
  BY Zenon DEF MindsOnly, Minds
<1>6. /\ cpu[c].e \in Entries /\ entry \in [Entries -> EntryType]
      /\ entry[cpu[c].e] \in EntryType
  BY Zenon, <1>2 DEF IInv, Types
<1> QED
  BY Zenon, <1>1, <1>2, <1>3, <1>4, <1>5, <1>6 DEF CallOk

(* A static entry is valid and has no timer.                                *)
LEMMA StaticEntry ==
  ASSUME IInv, NEW e \in arp_tbl, entry[e].addr \in Static
  PROVE  entry[e].flags = {"VALID", "STATIC"} /\ entry[e].timer = NULL
<1>1. PICK f \in arp_tbl : /\ entry[f].addr = entry[e].addr
                           /\ entry[f].flags = {"VALID", "STATIC"}
                           /\ entry[f].timer = NULL
  BY ZenonT(60) DEF IInv, TablePart, StaticStays, arp_lookup
<1>2. f = e
  BY Zenon, <1>1 DEF IInv, TablePart, OneEntry
<1> QED
  BY Zenon, <1>1, <1>2

(* The call that is over knows nothing more.                                *)
LEMMA EndedOk ==
  ASSUME IInv, NEW c \in Cpus, Ended(c), cpu[c].pc # "idle"
  PROVE  CallOk(c)' /\ RunnerKept(c) /\ ~Holds(c)' /\ HoldsLess(c)
<1>1. CallOk(c)
  BY Zenon, CallFacts
<1>2. CASE cpu[c].s = NULL
  <2>1. cpu'[c] = NoCall
    BY Zenon, <1>2 DEF Ended
  <2> QED
    BY Zenon, <2>1, NoCallOk
       DEF CallOk, Working, Tied, RunnerKept, Holds, HoldsLess
<1>3. CASE cpu[c].s # NULL
  <2>1. /\ cpu'[c].pc = "done" /\ cpu'[c].p = cpu[c].p /\ cpu'[c].e = NULL
        /\ cpu'[c].a = cpu[c].a /\ cpu'[c].s = cpu[c].s
    BY Zenon, <1>3 DEF Ended
  <2> QED
    BY Zenon, <1>1, <2>1 DEF CallOk, Working, Tied, RunnerKept, Holds, HoldsLess
<1> QED
  BY Zenon, <1>2, <1>3

(* A step that touches nothing of what the invariant speaks of.             *)
LEMMA Stutters ==
  ASSUME IInv, UNCHANGED <<arp_tbl, entry, arp_lock, arp_send_pkt_lock, slot, runlist,
                           pkt, cpu>>
  PROVE  IInv'
<1>1. Types'
  BY Zenon DEF IInv, Types
<1>2. TablePart'
  <2>1. OneEntry' /\ StaticStays' /\ Tended'
    <3>1. OneEntry /\ StaticStays /\ Tended
      BY Zenon DEF IInv, TablePart
    <3>2. OneEntry'
      BY Zenon, <3>1 DEF OneEntry
    <3>3. StaticStays'
      BY ZenonT(60), <3>1 DEF StaticStays, arp_lookup
    <3>4. Tended'
      BY Zenon, <3>1 DEF Tended, Minds
    <3> QED
      BY Zenon, <3>2, <3>3, <3>4
  <2>2. \A c \in Cpus : CallOk(c)'
    BY Zenon DEF IInv, TablePart, CallOk
  <2> QED
    BY Zenon, <2>1, <2>2 DEF IInv, TablePart
<1>3. SlotPart'
  <2>1. RunnersLive'
    BY SMTT(30) DEF IInv, SlotPart, RunnersLive
  <2>2. \A s \in Slots : SlotOk(s)'
    BY Zenon DEF IInv, SlotPart, SlotOk, Live
  <2>3. \A c \in Cpus : RunnerOk(c)'
    BY Zenon DEF IInv, SlotPart, RunnerOk, Live
  <2> QED
    BY Zenon, <2>1, <2>2, <2>3 DEF SlotPart
<1>4. PacketPart'
  BY Zenon DEF IInv, PacketPart, Live, Holds, LeaksNeedFullPool
<1> QED
  BY Zenon, <1>1, <1>2, <1>3, <1>4 DEF IInv

(* Where the model ends, nothing moves any more.                            *)
LEMMA BreakKeeps ==
  ASSUME IInv, Break
  PROVE  IInv'
BY Zenon, Stutters DEF Break, table, locks

-----------------------------------------------------------------------------
(* arp_input starts a lookup that holds no packet.                          *)
LEMMA InputKeeps ==
  ASSUME IInv, NEW c \in Cpus, NEW a \in Addrs, NEW t \in BOOLEAN,
         arp_input(c, a, t)
  PROVE  IInv'
<1> DEFINE r == [NoCall EXCEPT !.pc = IF t THEN "lookup" ELSE "search", !.a = a]
<1>0. /\ r.pc \in {"lookup", "search"} /\ r.p = NULL /\ r.a = a /\ r.s = NULL
      /\ r.e = NULL /\ r \in CallType
  BY Zenon DEF NoCall, CallType, Calls
<1>1. cpu[c].pc = "idle" /\ cpu' = [cpu EXCEPT ![c] = r]
      /\ UNCHANGED <<arp_tbl, entry, arp_lock, arp_send_pkt_lock, slot, runlist, pkt>>
  BY Zenon DEF arp_input, At, table, locks
<1>2. OthersKept(c) /\ cpu'[c] = r
  BY Zenon, <1>0, <1>1, CallSet, CallFacts
<1> HIDE DEF r
<1>3. CallOk(c)' /\ RunnerKept(c) /\ HoldsLess(c)
  BY Zenon, <1>0, <1>2 DEF CallOk, Working, Tied, RunnerKept, HoldsLess, Holds
<1>4. StillMinds(c)
  BY Zenon, <1>1 DEF StillMinds, Minds, Arming
<1>5. arp_lock' \in BOOLEAN
  BY Zenon, <1>1 DEF IInv, Types
<1> QED
  BY Zenon, <1>1, <1>2, <1>3, <1>4, <1>5, CallOnly

(* The entry that the pending_pkt of a sending CPU waits on is the one that *)
(* a lookup of its address finds.                                           *)
LEMMA RunnerEntry ==
  ASSUME IInv, NEW c \in Cpus, cpu[c].s # NULL
  PROVE  /\ slot[cpu[c].s].e \in arp_lookup(cpu[c].a)
         /\ "VALID" \in entry[slot[cpu[c].s].e].flags
         /\ cpu[c].p \in Pkts
<1>1. RunnerOk(c) /\ SlotOk(cpu[c].s)
  BY Zenon DEF IInv, SlotPart, RunnerOk
<1>2. slot[cpu[c].s] \in SlotType
  BY Zenon, <1>1 DEF RunnerOk, IInv, Types
<1> QED
  BY Zenon, <1>1, <1>2 DEF RunnerOk, SlotOk, Live, arp_lookup, SlotType

(* A search of arp_lookup that finds an entry.  A CPU that sends a          *)
(* pending_pkt goes on to arp_lookup_mac.                                   *)
LEMMA FoundKeeps ==
  ASSUME IInv, NEW c \in Cpus, cpu[c].pc \in {"lookup", "create"},
         NEW e \in arp_lookup(cpu[c].a), Found(c, e),
         UNCHANGED <<arp_tbl, entry, arp_lock, arp_send_pkt_lock, slot, runlist, pkt>>
  PROVE  IInv'
<1>1. cpu \in [Cpus -> CallType] /\ CallOk(c) /\ cpu[c].a \in Addrs
  BY Zenon, CallFacts DEF CallOk
<1>2. e \in arp_tbl /\ entry[e].addr = cpu[c].a /\ e \in Entries /\ e # NULL
  BY Zenon, ArpAssumption DEF arp_lookup, IInv, Types
<1>3. GoesOn(c, e, IF cpu[c].p = NULL THEN "update" ELSE "mac")
  BY Zenon, <1>1, <1>2, HoldGoes DEF Found, Calls
<1>4. CallOk(c)'
  BY Zenon, <1>1, <1>2, <1>3 DEF CallOk, GoesOn, CallType, Working, Tied
<1>5. RunnerKept(c)
  BY Zenon, <1>3, RunnerEntry, ArpAssumption DEF RunnerKept, GoesOn
<1>6. HoldsLess(c)
  BY Zenon, <1>3 DEF Holds, GoesOn, HoldsLess
<1>7. StillMinds(c)
  BY Zenon DEF StillMinds, Minds, Arming
<1>8. arp_lock' \in BOOLEAN
  BY Zenon DEF IInv, Types
<1> QED
  BY Zenon, <1>3, <1>4, <1>5, <1>6, <1>7, <1>8, CallOnly DEF GoesOn

(* An address that a search does not find is not static.                    *)
LEMMA UnknownNotStatic ==
  ASSUME IInv, NEW a, arp_lookup(a) = {}
  PROVE  a \notin Static
BY Zenon DEF IInv, TablePart, StaticStays

(* The unlocked search of arp_lookup.                                       *)
LEMMA LookupKeeps ==
  ASSUME IInv, NEW c \in Cpus, Lookup(c)
  PROVE  IInv'
<1>1. UNCHANGED <<arp_tbl, entry, arp_lock, arp_send_pkt_lock, slot, runlist, pkt>>
      /\ cpu[c].pc = "lookup"
  BY Zenon DEF Lookup, At, table, locks
<1>2. CASE arp_lookup(cpu[c].a) = {}
  <2>1. cpu \in [Cpus -> CallType] /\ CallOk(c) /\ cpu[c].a \notin Static
    BY Zenon, <1>2, CallFacts, UnknownNotStatic
  <2>2. GoesOn(c, cpu[c].e, "create")
    BY Zenon, <1>2, <2>1, GoGoes DEF Lookup, Calls
  <2>3. cpu[c].s = NULL
    BY Zenon, <1>2, RunnerEntry
  <2>4. CallOk(c)'
    BY Zenon, <1>1, <2>1, <2>2, <2>3 DEF CallOk, GoesOn, Working, Tied
  <2>5. RunnerKept(c) /\ HoldsLess(c)
    BY Zenon, <1>1, <2>2, <2>3 DEF RunnerKept, HoldsLess, Holds, GoesOn
  <2>6. StillMinds(c)
    BY Zenon, <1>1 DEF StillMinds, Minds, Arming
  <2>7. arp_lock' \in BOOLEAN
    BY Zenon, <1>1 DEF IInv, Types
  <2> QED
    BY Zenon, <1>1, <2>2, <2>4, <2>5, <2>6, <2>7, CallOnly DEF GoesOn
<1>3. CASE arp_lookup(cpu[c].a) # {}
  BY Zenon, <1>1, <1>3, FoundKeeps DEF Lookup
<1> QED
  BY Zenon, <1>2, <1>3

(* arp_lookup_mac finds that the packet has to wait.  A CPU that sends a    *)
(* pending_pkt finds the entry valid.                                       *)
LEMMA WaitKeeps ==
  ASSUME IInv, NEW c \in Cpus, arp_lookup_mac(c),
         "VALID" \notin entry[cpu[c].e].flags
  PROVE  IInv'
<1>1. cpu[c].pc = "mac" /\ cpu[c].pc \in Working /\ Go(c, "request")
      /\ UNCHANGED <<arp_tbl, entry, arp_lock, arp_send_pkt_lock, slot, runlist, pkt>>
  BY Zenon DEF arp_lookup_mac, At, table, locks, Working
<1>2. /\ cpu \in [Cpus -> CallType] /\ CallOk(c) /\ cpu[c].e \in arp_tbl
      /\ entry[cpu[c].e].addr = cpu[c].a /\ MindsOnly(c, cpu[c].e)
  BY Zenon, <1>1, WorkFacts
<1>3. GoesOn(c, cpu[c].e, "request")
  BY Zenon, <1>1, <1>2, GoGoes DEF Calls
<1>4. cpu[c].s = NULL
  <2> SUFFICES ASSUME cpu[c].s # NULL PROVE FALSE
    BY Zenon
  <2>1. /\ slot[cpu[c].s].e \in arp_tbl /\ entry[slot[cpu[c].s].e].addr = cpu[c].a
        /\ "VALID" \in entry[slot[cpu[c].s].e].flags
    BY Zenon, RunnerEntry DEF arp_lookup
  <2>2. slot[cpu[c].s].e = cpu[c].e
    BY Zenon, <2>1, <1>2 DEF IInv, TablePart, OneEntry
  <2> QED
    BY Zenon, <2>1, <2>2
<1>5. cpu[c].a \notin Static
  BY Zenon, <1>2, StaticEntry
<1>6. CallOk(c)'
  BY Zenon, <1>1, <1>2, <1>3, <1>5 DEF CallOk, GoesOn, Working, Tied
<1>7. RunnerKept(c) /\ HoldsLess(c)
  BY Zenon, <1>1, <1>3, <1>4 DEF RunnerKept, HoldsLess, Holds, GoesOn
<1>8. StillMinds(c)
  BY Zenon, <1>2, <1>3 DEF StillMinds, MindsOnly, Minds, GoesOn
<1>9. arp_lock' \in BOOLEAN
  BY Zenon, <1>1 DEF IInv, Types
<1> QED
  BY Zenon, <1>1, <1>3, <1>6, <1>7, <1>8, <1>9, CallOnly DEF GoesOn

(* The call has changed the flags of its entry and the count of attempts,   *)
(* and is about to set the timer.                                           *)
LEMMA FlagsKeep ==
  ASSUME IInv, NEW c \in Cpus, cpu[c].pc \in Working, cpu[c].pc # "mac",
         NEW pc \in Calls, Go(c, pc), NEW n, EntryMoved(cpu[c].e, n),
         UNCHANGED <<arp_tbl, arp_lock, slot, runlist, pkt>>,
         arp_send_pkt_lock' \in Cpus \cup {NULL},
         cpu[c].a \notin Static,
         \/ cpu[c].pc = "request" /\ pc = "request_arm"
         \/ cpu[c].pc = "retry" /\ pc = "retry_arm"
         \/ /\ pc \in {"timer_mod", "update_arm"} /\ "VALID" \in n.flags
            /\ cpu[c].pc \in {"update", "timer_mod"}
  PROVE  IInv'
<1>1. /\ cpu \in [Cpus -> CallType] /\ CallOk(c)
      /\ cpu[c].e \in arp_tbl /\ cpu[c].e \in Entries /\ cpu[c].e # NULL
      /\ entry[cpu[c].e].addr = cpu[c].a /\ cpu[c].s = NULL /\ MindsOnly(c, cpu[c].e)
      /\ cpu[c].a \in Addrs
  BY Zenon, WorkFacts
<1>2. GoesOn(c, cpu[c].e, pc)
  BY Zenon, <1>1, GoGoes
<1>3. entry'[cpu[c].e] = n /\ n.addr = entry[cpu[c].e].addr
  BY Zenon, <1>1, MovedEntries DEF EntryMoved, IInv
<1>4. CallOk(c)'
  BY Zenon, <1>1, <1>2, <1>3 DEF CallOk, GoesOn, Working, Tied
<1>5. RunnerKept(c) /\ HoldsLess(c)
  BY Zenon, <1>1, <1>2 DEF RunnerKept, HoldsLess, Holds, GoesOn
<1>6. Minds(c, cpu[c].e)'
  BY Zenon, <1>2 DEF Minds, GoesOn, Arming
<1> QED
  BY Zenon, <1>1, <1>2, <1>4, <1>5, <1>6, EntryStep DEF GoesOn

(* An entry with the flag RESOLVING added.                                  *)
LEMMA Resolving ==
  ASSUME IInv, NEW e \in Entries,
         entry' = [entry EXCEPT ![e].flags = @ \cup {"RESOLVING"}]
  PROVE  EntryMoved(e, [entry[e] EXCEPT !.flags = @ \cup {"RESOLVING"}])
<1>1. entry \in [Entries -> EntryType] /\ entry[e] \in EntryType
  BY Zenon DEF IInv, Types
<1> DEFINE n == [entry[e] EXCEPT !.flags = @ \cup {"RESOLVING"}]
<1>2. n \in EntryType /\ n.addr = entry[e].addr /\ n.flags = entry[e].flags \cup {"RESOLVING"}
  BY Zenon, <1>1 DEF EntryType
<1>3. entry' = [entry EXCEPT ![e] = n]
  BY Zenon, <1>1
<1> QED
  BY Zenon, <1>2, <1>3 DEF EntryMoved

(* Under arp_send_pkt_lock a request is under way, or begins.               *)
LEMMA RequestKeeps ==
  ASSUME IInv, NEW c \in Cpus, Request(c)
  PROVE  IInv'
<1>1. /\ cpu[c].pc = "request" /\ cpu[c].pc \in Working /\ cpu[c].pc # "mac"
      /\ UNCHANGED <<arp_tbl, arp_lock, slot, runlist, pkt>>
  BY Zenon DEF Request, At, Working
<1>2. /\ cpu \in [Cpus -> CallType] /\ CallOk(c) /\ cpu[c].e \in Entries
      /\ cpu[c].s = NULL /\ MindsOnly(c, cpu[c].e) /\ cpu[c].a \notin Static
  BY Zenon, <1>1, WorkFacts DEF CallOk, Tied
<1>3. CASE entry[cpu[c].e].timer # NULL
  <2>1. Hold(c, NULL, "search") /\ UNCHANGED <<entry, arp_send_pkt_lock>>
    BY Zenon, <1>3 DEF Request
  <2>2. GoesOn(c, NULL, "search")
    BY Zenon, <1>2, <2>1, HoldGoes DEF Calls
  <2>3. CallOk(c)'
    BY Zenon, <1>1, <1>2, <2>2 DEF CallOk, GoesOn, Working, Tied
  <2>4. RunnerKept(c) /\ HoldsLess(c)
    BY Zenon, <1>1, <1>2, <2>2 DEF RunnerKept, HoldsLess, Holds, GoesOn
  <2>5. StillMinds(c)
    BY Zenon, <1>2, <1>3 DEF StillMinds, MindsOnly
  <2>6. arp_lock' \in BOOLEAN
    BY Zenon, <1>1 DEF IInv, Types
  <2> QED
    BY Zenon, <1>1, <2>1, <2>2, <2>3, <2>4, <2>5, <2>6, CallOnly DEF GoesOn
<1>4. CASE entry[cpu[c].e].timer = NULL
  <2>1. /\ entry' = [entry EXCEPT ![cpu[c].e].flags = @ \cup {"RESOLVING"}]
        /\ arp_send_pkt_lock' = c /\ Go(c, "request_arm")
    BY Zenon, <1>4 DEF Request
  <2>2. EntryMoved(cpu[c].e, [entry[cpu[c].e] EXCEPT !.flags = @ \cup {"RESOLVING"}])
    BY Zenon, <1>2, <2>1, Resolving
  <2>3. "request_arm" \in Calls /\ arp_send_pkt_lock' \in Cpus \cup {NULL}
    BY Zenon, <2>1 DEF Calls
  <2> QED
    BY Zenon, <1>1, <1>2, <2>1, <2>2, <2>3, FlagsKeep
<1> QED
  BY Zenon, <1>3, <1>4

(* arp_timer_handler sends another request.                                 *)
LEMMA RetryKeeps ==
  ASSUME IInv, NEW c \in Cpus, Retry(c)
  PROVE  IInv'
<1>1. /\ cpu[c].pc = "retry" /\ cpu[c].pc \in Working /\ cpu[c].pc # "mac"
      /\ entry' = [entry EXCEPT ![cpu[c].e].flags = @ \cup {"RESOLVING"}]
      /\ Go(c, "retry_arm")
      /\ UNCHANGED <<arp_tbl, arp_lock, arp_send_pkt_lock, slot, runlist, pkt>>
  BY Zenon DEF Retry, At, Working, locks
<1>2. cpu[c].e \in Entries /\ cpu[c].a \notin Static
  BY Zenon, <1>1, WorkFacts DEF CallOk, Tied
<1>3. EntryMoved(cpu[c].e, [entry[cpu[c].e] EXCEPT !.flags = @ \cup {"RESOLVING"}])
  BY Zenon, <1>1, <1>2, Resolving
<1>4. "retry_arm" \in Calls /\ arp_send_pkt_lock' \in Cpus \cup {NULL}
  BY Zenon, <1>1 DEF Calls, IInv, Types
<1> QED
  BY Zenon, <1>1, <1>2, <1>3, <1>4, FlagsKeep

(* arp_update_mac makes an entry valid, unless it is static.                *)
LEMMA UpdateKeeps ==
  ASSUME IInv, NEW c \in Cpus, arp_update_mac(c)
  PROVE  IInv'
<1> DEFINE e == cpu[c].e
<1>1. /\ cpu[c].pc = "update" /\ cpu[c].pc \in Working /\ cpu[c].pc # "mac"
      /\ UNCHANGED <<arp_tbl, arp_lock, arp_send_pkt_lock, slot, runlist, pkt>>
  BY Zenon DEF arp_update_mac, At, Working, locks
<1>2. /\ cpu \in [Cpus -> CallType] /\ e \in Entries /\ e \in arp_tbl
      /\ entry[e].addr = cpu[c].a /\ MindsOnly(c, e)
      /\ entry \in [Entries -> EntryType] /\ entry[e] \in EntryType
  BY Zenon, <1>1, WorkFacts
<1>3. CASE "STATIC" \in entry[e].flags
  <2>1. Finish(c) /\ UNCHANGED entry
    BY Zenon, <1>3 DEF arp_update_mac
  <2>2. Ended(c)
    BY Zenon, <1>2, <2>1, FinishEnds
  <2>3. CallOk(c)' /\ RunnerKept(c) /\ HoldsLess(c)
    BY Zenon, <1>1, <2>2, EndedOk
  <2>4. entry[e].addr \in Static
    BY Zenon, <1>2, <1>3 DEF IInv, TablePart
  <2>5. StillMinds(c)
    BY Zenon, <1>2, <2>4 DEF StillMinds, MindsOnly
  <2>6. arp_lock' \in BOOLEAN
    BY Zenon, <1>1 DEF IInv, Types
  <2> QED
    BY Zenon, <1>1, <2>1, <2>2, <2>3, <2>5, <2>6, CallOnly DEF Ended
<1>4. CASE "STATIC" \notin entry[e].flags
  <2> DEFINE n == [entry[e] EXCEPT !.flags = {"VALID"}, !.retries = 0]
  <2>1. /\ entry' = [entry EXCEPT ![e].flags = {"VALID"}, ![e].retries = 0]
        /\ Go(c, "timer_mod")
    BY Zenon, <1>4 DEF arp_update_mac
  <2>2. 0 \in Nat
    OBVIOUS
  <2>3. n \in EntryType /\ n.addr = entry[e].addr /\ n.flags = {"VALID"}
    BY Zenon, <1>2, <2>2 DEF EntryType
  <2>4. entry' = [entry EXCEPT ![e] = n]
    BY ZenonT(60), <1>2, <2>1
  <2>5. cpu[c].a \notin Static
    BY Zenon, <1>2, <1>4, StaticEntry
  <2> HIDE DEF n
  <2>6. EntryMoved(e, n) /\ "VALID" \in n.flags
    BY Zenon, <2>3, <2>4 DEF EntryMoved
  <2>7. "timer_mod" \in Calls /\ arp_send_pkt_lock' \in Cpus \cup {NULL}
    BY Zenon, <1>1 DEF Calls, IInv, Types
  <2> QED
    BY Zenon, <1>1, <2>1, <2>5, <2>6, <2>7, FlagsKeep
<1> QED
  BY Zenon, <1>3, <1>4

(* timer_mod takes the timer off its wheel.                                 *)
LEMMA TimerModKeeps ==
  ASSUME IInv, NEW c \in Cpus, timer_mod(c)
  PROVE  IInv'
<1> DEFINE e == cpu[c].e
           n == [entry[e] EXCEPT !.timer = NULL]
<1>1. /\ cpu[c].pc = "timer_mod" /\ cpu[c].pc \in Working /\ cpu[c].pc # "mac"
      /\ entry' = [entry EXCEPT ![e].timer = NULL] /\ Go(c, "update_arm")
      /\ UNCHANGED <<arp_tbl, arp_lock, arp_send_pkt_lock, slot, runlist, pkt>>
  BY Zenon DEF timer_mod, At, Working, locks
<1>2. /\ e \in Entries /\ entry \in [Entries -> EntryType] /\ entry[e] \in EntryType
      /\ CallOk(c)
  BY Zenon, <1>1, WorkFacts
<1>3. "VALID" \in entry[e].flags /\ cpu[c].a \notin Static
  BY Zenon, <1>1, <1>2 DEF CallOk, Tied
<1>4. n \in EntryType /\ n.addr = entry[e].addr /\ n.flags = entry[e].flags
  BY Zenon, <1>2 DEF EntryType
<1>5. entry' = [entry EXCEPT ![e] = n]
  BY Zenon, <1>1, <1>2
<1> HIDE DEF n
<1>6. EntryMoved(e, n) /\ "VALID" \in n.flags
  BY Zenon, <1>3, <1>4, <1>5 DEF EntryMoved
<1>7. "update_arm" \in Calls /\ arp_send_pkt_lock' \in Cpus \cup {NULL}
  BY Zenon, <1>1 DEF Calls, IInv, Types
<1> QED
  BY Zenon, <1>1, <1>3, <1>6, <1>7, FlagsKeep

(* A timer that is pending belongs to an entry that is not static; its      *)
(* handler sees to the entry from then on.                                  *)
LEMMA HandlerKeeps ==
  ASSUME IInv, NEW c \in Cpus, NEW e \in Entries, arp_timer_handler(c, e)
  PROVE  IInv'
<1> DEFINE pc == IF entry[e].retries + 1 >= ARP_MAX_ATTEMPTS THEN "drop" ELSE "retry"
           r == [NoCall EXCEPT !.a = entry[e].addr, !.e = e, !.pc = pc]
           n == [entry[e] EXCEPT !.timer = NULL, !.retries = @ + 1]
<1>1. /\ cpu[c].pc = "idle" /\ e \in arp_tbl /\ entry[e].timer = c
      /\ entry' = [entry EXCEPT ![e].timer = NULL, ![e].retries = @ + 1]
      /\ cpu' = [cpu EXCEPT ![c] = r]
      /\ UNCHANGED <<arp_tbl, arp_lock, arp_send_pkt_lock, slot, runlist, pkt>>
  BY Zenon DEF arp_timer_handler, At, locks
<1>2. /\ entry \in [Entries -> EntryType] /\ entry[e] \in EntryType
      /\ cpu \in [Cpus -> CallType] /\ e # NULL /\ c # NULL
      /\ entry[e].addr \in Addrs
  BY Zenon, <1>1, ArpAssumption DEF IInv, Types, TablePart
<1>3. entry[e].addr \notin Static
  BY Zenon, <1>1, <1>2, StaticEntry
<1>4. pc \in {"drop", "retry"}
  BY Zenon
<1> HIDE DEF pc
<1>5. /\ r \in CallType /\ r.pc \in {"drop", "retry"} /\ r.p = NULL /\ r.e = e /\ r.s = NULL
      /\ r.a = entry[e].addr
  BY Zenon, <1>2, <1>4 DEF NoCall, CallType, Calls
<1> HIDE DEF r
<1>6. OthersKept(c) /\ cpu'[c] = r
  BY Zenon, <1>1, <1>2, <1>5, CallSet
<1>7. EntryMoved(e, n)
  <2>1. entry[e].retries \in Nat
    BY Zenon, <1>2 DEF EntryType
  <2>2. entry[e].retries + 1 \in Nat
    BY <2>1
  <2>3. n \in EntryType /\ n.addr = entry[e].addr /\ n.flags = entry[e].flags
    BY Zenon, <1>2, <2>2 DEF EntryType
  <2>4. entry' = [entry EXCEPT ![e] = n]
    BY ZenonT(60), <1>1, <1>2
  <2> HIDE DEF n
  <2> QED
    BY Zenon, <2>3, <2>4 DEF EntryMoved
<1> HIDE DEF n
<1>8. entry'[e].addr = entry[e].addr
  BY Zenon, <1>7, MovedEntries DEF IInv, EntryMoved
<1>9. CallOk(c)'
  BY Zenon, <1>1, <1>2, <1>3, <1>5, <1>6, <1>8 DEF CallOk, Working, Tied
<1>10. RunnerKept(c) /\ HoldsLess(c)
  BY Zenon, <1>5, <1>6 DEF RunnerKept, HoldsLess, Holds
<1>11. Minds(c, e)' /\ MindsOnly(c, e)
  BY Zenon, <1>1, <1>5, <1>6 DEF Minds, MindsOnly, Arming
<1>12. arp_send_pkt_lock' \in Cpus \cup {NULL}
  BY Zenon, <1>1 DEF IInv, Types
<1> QED
  BY Zenon, <1>1, <1>3, <1>6, <1>7, <1>9, <1>10, <1>11, <1>12, EntryStep

(* timer_add.  Afterwards the entry is minded by its timer, and the call    *)
(* gives it up, keeps it to send what waits, or is over.                    *)
LEMMA TimerAddKeeps ==
  ASSUME IInv, NEW c \in Cpus, timer_add(c)
  PROVE  IInv'
<1> DEFINE e == cpu[c].e
           n == [entry[e] EXCEPT !.timer = c]
<1>1. cpu[c].pc \in Arming /\ cpu[c].pc \in Working /\ cpu[c].pc # "mac"
  BY Zenon DEF timer_add, Arming, Working
<1>2. CASE entry[e].timer # NULL
  BY Zenon, <1>2, BreakKeeps DEF timer_add
<1>3. CASE entry[e].timer = NULL
  <2>1. /\ entry' = [entry EXCEPT ![e].timer = c]
        /\ arp_send_pkt_lock' = IF cpu[c].pc = "request_arm" THEN NULL ELSE arp_send_pkt_lock
        /\ CASE cpu[c].pc = "request_arm" -> Hold(c, NULL, "search")
             [] cpu[c].pc = "update_arm" -> Go(c, "dispatch")
             [] cpu[c].pc = "retry_arm" -> Finish(c)
        /\ UNCHANGED <<arp_tbl, arp_lock, slot, runlist, pkt>>
    BY Zenon, <1>3 DEF timer_add
  <2>2. /\ cpu \in [Cpus -> CallType] /\ CallOk(c) /\ cpu[c].s = NULL
        /\ e \in Entries /\ e \in arp_tbl /\ MindsOnly(c, e)
        /\ entry[e].addr = cpu[c].a /\ cpu[c].a \in Addrs
        /\ entry \in [Entries -> EntryType] /\ entry[e] \in EntryType
    BY Zenon, <1>1, WorkFacts
  <2>3. cpu[c].a \notin Static
    BY Zenon, <1>1, <2>2 DEF CallOk, Tied, Arming
  <2>4. n \in EntryType /\ n.addr = entry[e].addr /\ n.flags = entry[e].flags /\ n.timer = c
    BY Zenon, <2>2 DEF EntryType
  <2>5. entry' = [entry EXCEPT ![e] = n]
    BY Zenon, <2>1, <2>2
  <2> HIDE DEF n
  <2>6. EntryMoved(e, n) /\ n.timer # NULL
    BY Zenon, <2>4, <2>5, ArpAssumption DEF EntryMoved
  <2>7. entry'[e].addr = entry[e].addr /\ entry'[e].flags = entry[e].flags
    BY Zenon, <2>2, <2>4, <2>6, MovedEntries DEF IInv
  <2>8. arp_send_pkt_lock' \in Cpus \cup {NULL}
    BY Zenon, <2>1 DEF IInv, Types
  <2>9. OthersKept(c) /\ CallOk(c)' /\ RunnerKept(c) /\ HoldsLess(c)
    <3>1. CASE cpu[c].pc = "request_arm"
      <4>1. GoesOn(c, NULL, "search")
        BY Zenon, <3>1, <2>1, <2>2, HoldGoes DEF Calls
      <4> QED
        BY Zenon, <3>1, <4>1, <2>2, <2>3
           DEF GoesOn, CallOk, Working, Tied, RunnerKept, HoldsLess, Holds
    <3>2. CASE cpu[c].pc = "update_arm"
      <4>1. GoesOn(c, e, "dispatch")
        BY Zenon, <3>2, <2>1, <2>2, GoGoes DEF Calls
      <4>2. "VALID" \in entry[e].flags
        BY Zenon, <3>2, <2>2 DEF CallOk
      <4> QED
        BY Zenon, <3>2, <4>1, <4>2, <2>1, <2>2, <2>3, <2>7
           DEF GoesOn, CallOk, Working, Tied, RunnerKept, HoldsLess, Holds
    <3>3. CASE cpu[c].pc = "retry_arm"
      <4>1. Finish(c)
        BY Zenon, <3>3, <2>1
      <4>2. Ended(c)
        BY Zenon, <4>1, <2>2, FinishEnds
      <4> QED
        BY Zenon, <3>3, <4>2, EndedOk DEF Ended
    <3> QED
      BY Zenon, <3>1, <3>2, <3>3, <1>1 DEF Arming
  <2> QED
    BY Zenon, <2>1, <2>2, <2>3, <2>6, <2>8, <2>9, EntryStep
<1> QED
  BY Zenon, <1>2, <1>3

-----------------------------------------------------------------------------
(* A packet that a call has not yet sent or queued is in no pending_pkt and *)
(* no other call has it.                                                    *)
LEMMA HeldAlone ==
  ASSUME IInv, NEW c \in Cpus, Holds(c)
  PROVE  /\ cpu[c].p \in Pkts /\ pkt[cpu[c].p] = "stack"
         /\ \A s \in Slots : Live(s) => slot[s].p \in Pkts /\ slot[s].p # cpu[c].p
         /\ \A d \in Cpus : Holds(d) /\ d # c => cpu[d].p \in Pkts /\ cpu[d].p # cpu[c].p
<1>1. pkt[cpu[c].p] = "stack"
  BY Zenon DEF IInv, PacketPart
<1>2. \A d \in Cpus : Holds(d) => cpu[d].p \in Pkts
  BY Zenon DEF IInv, Types, CallType, Holds
<1>3. \A s \in Slots : Live(s) => slot[s].p \in Pkts
  BY Zenon DEF IInv, Types, SlotType, Live
<1>4. \A s \in Slots : Live(s) => slot[s].p # cpu[c].p
  BY Zenon, <1>1 DEF IInv, PacketPart
<1>5. \A d \in Cpus : Holds(d) /\ d # c => cpu[d].p # cpu[c].p
  BY Zenon DEF IInv, PacketPart
<1> QED
  BY Zenon, <1>1, <1>2, <1>3, <1>4, <1>5

(* The packet of a call ends as x: a call that took it from its caller may  *)
(* do anything with it, send_pending_pkt sends or frees it.                 *)
LEMMA PacketEnds ==
  ASSUME IInv, NEW c \in Cpus, OthersKept(c), ~Holds(c)', UNCHANGED slot,
         NEW x \in PktStates, pkt' = [pkt EXCEPT ![cpu[c].p] = x],
         Holds(c) \/ (cpu[c].s # NULL /\ x \in {"sent", "freed"}),
         x = "leaked" => Cardinality(Slots) < Cardinality(Pkts)
  PROVE  PacketPart' /\ pkt' \in [Pkts -> PktStates]
<1> DEFINE p == cpu[c].p
<1>1. /\ \A s \in Slots : Live(s) => slot[s].p \in Pkts
      /\ \A s \in Slots : Live(s) /\ slot[s].p = p => x \in {"sent", "freed"}
      /\ \A d \in Cpus : Holds(d) /\ d # c => cpu[d].p \in Pkts /\ cpu[d].p # p
      /\ p \in Pkts
  <2>1. CASE Holds(c)
    BY Zenon, <2>1, HeldAlone
  <2>2. CASE cpu[c].s # NULL /\ x \in {"sent", "freed"}
    <3>1. RunnerOk(c) /\ p \in Pkts
      BY Zenon, <2>2, CallFacts, RunnerEntry
    <3>2. pkt[p] \in {"waiting", "sent", "freed"}
      BY Zenon, <2>2, <3>1 DEF RunnerOk, IInv, PacketPart
    <3>3. \A d \in Cpus : Holds(d) => cpu[d].p \in Pkts /\ cpu[d].p # p
      BY Zenon, <3>2, HeldAlone
    <3>4. \A s \in Slots : Live(s) => slot[s].p \in Pkts
      BY Zenon DEF IInv, Types, SlotType, Live
    <3> QED
      BY Zenon, <2>2, <3>1, <3>3, <3>4
  <2> QED
    BY Zenon, <2>1, <2>2
<1>2. pkt' \in [Pkts -> PktStates] /\ \A q \in Pkts : pkt'[q] = IF q = p THEN x ELSE pkt[q]
  BY Zenon DEF IInv, Types
<1> HIDE DEF p
<1>3. \A d \in Cpus : Holds(d)' => d # c /\ Holds(d) /\ cpu'[d].p = cpu[d].p
  BY Zenon DEF OthersKept, Holds
<1>4. \A s \in Slots : Live(s) => pkt'[slot[s].p] \in {"waiting", "sent", "freed"}
  BY Zenon, <1>1, <1>2 DEF IInv, PacketPart
<1>5. ASSUME NEW d \in Cpus, Holds(d)' PROVE pkt'[cpu'[d].p] = "stack"
  <2>1. Holds(d) /\ cpu'[d].p = cpu[d].p /\ cpu[d].p \in Pkts /\ cpu[d].p # p
    BY Zenon, <1>1, <1>3, <1>5
  <2>2. pkt'[cpu[d].p] = pkt[cpu[d].p] /\ pkt[cpu[d].p] = "stack"
    BY Zenon, <1>2, <2>1, HeldAlone
  <2> QED
    BY Zenon, <2>1, <2>2
<1>6. \A d, b \in Cpus : Holds(d)' /\ Holds(b)' /\ cpu'[d].p = cpu'[b].p => d = b
  BY ZenonT(60), <1>3 DEF IInv, PacketPart
<1>7. LeaksNeedFullPool'
  BY Zenon, <1>2 DEF IInv, PacketPart, LeaksNeedFullPool
<1> QED
  BY ZenonT(60), <1>2, <1>4, <1>5, <1>6, <1>7 DEF IInv, PacketPart, Live

(* A call that ends with its packet, and touches nothing else.              *)
LEMMA EndKeeps ==
  ASSUME IInv, NEW c \in Cpus, Finish(c), cpu[c].pc # "idle",
         UNCHANGED <<arp_tbl, entry, arp_lock, arp_send_pkt_lock, slot, runlist>>,
         NEW x \in PktStates, pkt' = [pkt EXCEPT ![cpu[c].p] = x],
         Holds(c) \/ (cpu[c].s # NULL /\ x \in {"sent", "freed"}),
         x = "leaked" => Cardinality(Slots) < Cardinality(Pkts),
         StillMinds(c)
  PROVE  IInv'
<1>1. Ended(c)
  BY Zenon, FinishEnds, CallFacts
<1>2. CallOk(c)' /\ RunnerKept(c) /\ ~Holds(c)' /\ OthersKept(c)
  BY Zenon, <1>1, EndedOk DEF Ended
<1>3. PacketPart' /\ pkt' \in [Pkts -> PktStates]
  BY Zenon, <1>2, PacketEnds
<1>4. EntriesKept /\ Tends(c)
  BY Zenon DEF EntriesKept, Tends, StillMinds
<1>5. TablePart' /\ SlotPart'
  BY Zenon, <1>2, <1>4, TableKept, SlotsKept DEF IInv
<1>6. Types'
  BY Zenon, <1>2, <1>3 DEF IInv, Types, OthersKept
<1> QED
  BY Zenon, <1>3, <1>5, <1>6 DEF IInv

(* arp_lookup_mac.                                                          *)
LEMMA MacKeeps ==
  ASSUME IInv, NEW c \in Cpus, arp_lookup_mac(c)
  PROVE  IInv'
<1>1. CASE "VALID" \notin entry[cpu[c].e].flags
  BY Zenon, <1>1, WaitKeeps
<1>2. CASE "VALID" \in entry[cpu[c].e].flags
  <2>1. /\ cpu[c].pc = "mac" /\ cpu[c].pc \in Working /\ Finish(c)
        /\ UNCHANGED <<arp_tbl, entry, arp_lock, arp_send_pkt_lock, slot, runlist>>
    BY Zenon, <1>2 DEF arp_lookup_mac, At, table, locks, Working
  <2>2. PICK x \in {"sent", "freed"} : pkt' = [pkt EXCEPT ![cpu[c].p] = x]
    BY Zenon, <1>2 DEF arp_lookup_mac
  <2>3. x \in PktStates /\ x # "leaked"
    BY Zenon DEF PktStates
  <2>4. cpu[c].p \in Pkts
    BY Zenon, <2>1, WorkFacts DEF CallOk
  <2>5. Holds(c) \/ cpu[c].s # NULL
    BY Zenon, <2>1, <2>4, ArpAssumption DEF Holds
  <2>6. StillMinds(c)
    BY Zenon, <1>2, <2>1 DEF StillMinds, Minds, Arming
  <2> QED
    BY Zenon, <2>1, <2>2, <2>3, <2>5, <2>6, EndKeeps
<1> QED
  BY Zenon, <1>1, <1>2

(* A search without leave to create.                                        *)
LEMMA SearchKeeps ==
  ASSUME IInv, NEW c \in Cpus, Search(c)
  PROVE  IInv'
<1>1. /\ cpu[c].pc = "search"
      /\ UNCHANGED <<arp_tbl, entry, arp_lock, arp_send_pkt_lock, slot, runlist>>
  BY Zenon DEF Search, At, table, locks
<1>2. /\ cpu \in [Cpus -> CallType] /\ CallOk(c) /\ RunnerOk(c) /\ cpu[c].a \in Addrs
      /\ cpu[c].s = NULL
  BY Zenon, <1>1, CallFacts DEF CallOk, RunnerOk
<1>3. StillMinds(c) /\ arp_lock' \in BOOLEAN
  BY Zenon, <1>1 DEF StillMinds, Minds, Arming, IInv, Types
<1>4. CASE arp_lookup(cpu[c].a) = {}
  <2>1. Finish(c) /\ pkt' = IF cpu[c].p = NULL THEN pkt ELSE [pkt EXCEPT ![cpu[c].p] = "lost"]
    BY Zenon, <1>4 DEF Search
  <2>2. CASE cpu[c].p = NULL
    <3>1. Ended(c)
      BY Zenon, <1>2, <2>1, FinishEnds
    <3>2. CallOk(c)' /\ RunnerKept(c) /\ HoldsLess(c) /\ OthersKept(c)
      BY Zenon, <1>1, <3>1, EndedOk DEF Ended
    <3> QED
      BY Zenon, <1>1, <1>3, <2>1, <2>2, <3>2, CallOnly
  <2>3. CASE cpu[c].p # NULL
    <3>1. Holds(c) /\ "lost" \in PktStates
      BY Zenon, <1>1, <1>2, <2>3 DEF Holds, PktStates
    <3>2. pkt' = [pkt EXCEPT ![cpu[c].p] = "lost"]
      BY Zenon, <2>1, <2>3
    <3> QED
      BY Zenon, <1>1, <1>3, <2>1, <3>1, <3>2, EndKeeps
  <2> QED
    BY Zenon, <2>2, <2>3
<1>5. CASE arp_lookup(cpu[c].a) # {}
  <2>1. PICK e \in arp_lookup(cpu[c].a) :
          Hold(c, e, IF cpu[c].p = NULL THEN "update" ELSE "add")
    BY Zenon, <1>5 DEF Search
  <2>2. UNCHANGED pkt
    BY Zenon, <1>5 DEF Search
  <2>3. e \in arp_tbl /\ entry[e].addr = cpu[c].a /\ e \in Entries /\ e # NULL
    BY Zenon, ArpAssumption DEF arp_lookup, IInv, Types
  <2>4. GoesOn(c, e, IF cpu[c].p = NULL THEN "update" ELSE "add")
    BY Zenon, <1>2, <2>1, <2>3, HoldGoes DEF Calls
  <2>5. CallOk(c)'
    BY Zenon, <1>1, <1>2, <2>3, <2>4 DEF CallOk, GoesOn, CallType, Working, Tied
  <2>6. RunnerKept(c) /\ HoldsLess(c)
    BY Zenon, <1>1, <1>2, <2>4 DEF RunnerKept, HoldsLess, Holds, GoesOn
  <2> QED
    BY Zenon, <1>1, <1>3, <2>2, <2>4, <2>5, <2>6, CallOnly DEF GoesOn
<1> QED
  BY Zenon, <1>4, <1>5

(* ip_send_one takes a packet that no call and no pending_pkt has.          *)
LEMMA SendKeeps ==
  ASSUME IInv, NEW c \in Cpus, NEW p \in Pkts, NEW a \in Addrs, ip_send_one(c, p, a)
  PROVE  IInv'
<1> DEFINE r == [NoCall EXCEPT !.pc = "lookup", !.p = p, !.a = a]
<1>0. /\ r.pc = "lookup" /\ r.p = p /\ r.a = a /\ r.s = NULL /\ r.e = NULL
      /\ r \in CallType
  BY Zenon DEF NoCall, CallType, Calls
<1>1. /\ cpu[c].pc = "idle" /\ pkt[p] = "ready" /\ pkt' = [pkt EXCEPT ![p] = "stack"]
      /\ cpu' = [cpu EXCEPT ![c] = r]
      /\ UNCHANGED <<arp_tbl, entry, arp_lock, arp_send_pkt_lock, slot, runlist>>
  BY Zenon DEF ip_send_one, At, table, locks
<1>2. OthersKept(c) /\ cpu'[c] = r
  BY Zenon, <1>0, <1>1, CallSet, CallFacts
<1> HIDE DEF r
<1>3. CallOk(c)' /\ RunnerKept(c)
  BY Zenon, <1>0, <1>2 DEF CallOk, Working, Tied, RunnerKept
<1>4. EntriesKept /\ Tends(c)
  BY Zenon, <1>1 DEF EntriesKept, Tends, Minds, Arming
<1>5. TablePart' /\ SlotPart'
  BY Zenon, <1>1, <1>2, <1>3, <1>4, TableKept, SlotsKept DEF IInv
<1>6. pkt' \in [Pkts -> PktStates] /\ \A q \in Pkts : pkt'[q] = IF q = p THEN "stack" ELSE pkt[q]
  BY Zenon, <1>1 DEF IInv, Types, PktStates
<1>7. Types'
  BY Zenon, <1>1, <1>2, <1>6 DEF IInv, Types, OthersKept
<1>8. PacketPart'
  <2>1. \A s \in Slots : Live(s) => slot[s].p \in Pkts
    BY Zenon DEF IInv, Types, SlotType, Live
  <2>2. \A s \in Slots : Live(s) => slot[s].p # p
    BY Zenon, <1>1 DEF IInv, PacketPart
  <2>3. \A s \in Slots : Live(s) => pkt'[slot[s].p] \in {"waiting", "sent", "freed"}
    BY Zenon, <1>6, <2>1, <2>2 DEF IInv, PacketPart
  <2>4. \A d \in Cpus : Holds(d) => cpu[d].p \in Pkts /\ cpu[d].p # p /\ pkt[cpu[d].p] = "stack"
    BY Zenon, <1>1, HeldAlone
  <2>5. \A d \in Cpus : d # c => (Holds(d)' <=> Holds(d)) /\ cpu'[d].p = cpu[d].p
    BY Zenon, <1>2 DEF OthersKept, Holds
  <2>6. cpu'[c].p = p
    BY Zenon, <1>0, <1>2
  <2>7. ASSUME NEW d \in Cpus, Holds(d)' PROVE pkt'[cpu'[d].p] = "stack"
    <3>1. CASE d = c
      BY Zenon, <3>1, <1>6, <2>6
    <3>2. CASE d # c
      <4>1. cpu'[d].p = cpu[d].p /\ cpu[d].p \in Pkts /\ cpu[d].p # p
            /\ pkt[cpu[d].p] = "stack"
        BY Zenon, <3>2, <2>4, <2>5, <2>7
      <4> QED
        BY Zenon, <4>1, <1>6
    <3> QED
      BY Zenon, <3>1, <3>2
  <2>8. \A d, b \in Cpus : Holds(d)' /\ Holds(b)' /\ cpu'[d].p = cpu'[b].p => d = b
    <3> SUFFICES ASSUME NEW d \in Cpus, NEW b \in Cpus, Holds(d)', Holds(b)',
                        cpu'[d].p = cpu'[b].p
                 PROVE  d = b
      BY Zenon
    <3>1. CASE d = c
      BY Zenon, <3>1, <2>4, <2>5, <2>6
    <3>2. CASE b = c
      BY Zenon, <3>2, <2>4, <2>5, <2>6
    <3>3. CASE d # c /\ b # c
      BY ZenonT(60), <3>3, <2>5 DEF IInv, PacketPart
    <3> QED
      BY Zenon, <3>1, <3>2, <3>3
  <2>9. LeaksNeedFullPool'
    BY Zenon, <1>6 DEF IInv, PacketPart, LeaksNeedFullPool
  <2> QED
    BY ZenonT(60), <1>1, <2>3, <2>7, <2>8, <2>9 DEF IInv, PacketPart, Live
<1> QED
  BY Zenon, <1>5, <1>7, <1>8 DEF IInv

-----------------------------------------------------------------------------
(* A new entry of the table, for an address that had none, disturbs no      *)
(* other entry and no call.                                                 *)
LEMMA NewEntryKeeps ==
  ASSUME IInv, NEW c \in Cpus, cpu[c].pc = "create",
         arp_lookup(cpu[c].a) = {}, NEW e \in Entries \ arp_tbl, NewEntry(c, e),
         UNCHANGED <<arp_lock, arp_send_pkt_lock, slot, runlist, pkt>>
  PROVE  IInv'
<1> DEFINE n == [NoEntry EXCEPT !.addr = cpu[c].a]
<1>1. /\ cpu \in [Cpus -> CallType] /\ CallOk(c) /\ RunnerOk(c) /\ cpu[c].a \in Addrs
      /\ cpu[c].s = NULL /\ cpu[c].a \notin Static /\ e # NULL
  <2>1. cpu \in [Cpus -> CallType] /\ CallOk(c) /\ RunnerOk(c) /\ e # NULL
    BY Zenon, CallFacts, ArpAssumption
  <2>2. cpu[c].a \in Addrs /\ cpu[c].a \notin Static
    BY Zenon, <2>1 DEF CallOk, Tied
  <2>3. cpu[c].s = NULL
    BY Zenon, <2>1 DEF RunnerOk
  <2> QED
    BY Zenon, <2>1, <2>2, <2>3
<1>2. n.addr = cpu[c].a /\ n.flags = {}
  BY Zenon DEF NoEntry
<1>3. n \in EntryType
  <2>1. 0 \in Nat
    OBVIOUS
  <2> QED
    BY Zenon, <1>1, <2>1 DEF NoEntry, EntryType
<1>4. arp_tbl' = arp_tbl \cup {e} /\ entry' = [entry EXCEPT ![e] = n]
  BY Zenon DEF NewEntry
<1> HIDE DEF n
<1>5. /\ entry' \in [Entries -> EntryType] /\ entry'[e] = n /\ e \notin arp_tbl
      /\ \A f \in arp_tbl : f # e /\ entry'[f] = entry[f]
  BY Zenon, <1>3, <1>4 DEF IInv, Types
<1>6. \A f \in arp_tbl : entry[f].addr # cpu[c].a
  BY Zenon DEF arp_lookup
<1>7. GoesOn(c, e, IF cpu[c].p = NULL THEN "update" ELSE "mac")
  BY Zenon, <1>1, HoldGoes DEF NewEntry, Found, Calls
<1>8. OthersKept(c) /\ cpu'[c].e = e /\ cpu'[c].a = cpu[c].a /\ cpu'[c].s = NULL
      /\ cpu'[c].p = cpu[c].p /\ cpu'[c].pc \in {"update", "mac"}
  BY Zenon, <1>1, <1>7 DEF GoesOn
<1>9. Types'
  BY Zenon, <1>4, <1>5, <1>8 DEF IInv, Types, OthersKept
<1>10. TablePart'
  <2>1. OneEntry'
    <3> SUFFICES ASSUME NEW f \in arp_tbl', NEW g \in arp_tbl', entry'[f].addr = entry'[g].addr
                 PROVE  f = g
      BY Zenon DEF OneEntry
    <3>1. CASE f = e \/ g = e
      BY Zenon, <3>1, <1>2, <1>4, <1>5, <1>6
    <3>2. CASE f # e /\ g # e
      BY Zenon, <3>2, <1>4, <1>5 DEF IInv, TablePart, OneEntry
    <3> QED
      BY Zenon, <3>1, <3>2
  <2>2. StaticStays'
    <3> SUFFICES ASSUME NEW a \in Static
                 PROVE  \E f \in arp_tbl' : /\ entry'[f].addr = a
                                            /\ entry'[f].flags = {"VALID", "STATIC"}
                                            /\ entry'[f].timer = NULL
      BY ZenonT(60) DEF StaticStays, arp_lookup
    <3>1. PICK f \in arp_tbl : /\ entry[f].addr = a /\ entry[f].flags = {"VALID", "STATIC"}
                               /\ entry[f].timer = NULL
      BY ZenonT(60) DEF IInv, TablePart, StaticStays, arp_lookup
    <3> QED
      BY Zenon, <3>1, <1>4, <1>5
  <2>3. Tended'
    <3> SUFFICES ASSUME NEW f \in arp_tbl', entry'[f].addr \notin Static,
                        entry'[f].timer = NULL
                 PROVE  \E d \in Cpus : Minds(d, f)'
      BY Zenon DEF Tended
    <3>1. CASE f = e
      BY Zenon, <3>1, <1>2, <1>5, <1>8 DEF Minds
    <3>2. CASE f # e
      <4>1. f \in arp_tbl /\ entry'[f] = entry[f]
        BY Zenon, <3>2, <1>4, <1>5
      <4>2. PICK d \in Cpus : Minds(d, f)
        BY Zenon, <4>1 DEF IInv, TablePart, Tended
      <4>3. d # c
        BY Zenon, <4>2 DEF Minds, Arming
      <4>4. Minds(d, f)'
        BY Zenon, <4>1, <4>2, <4>3, <1>8 DEF Minds, OthersKept
      <4> QED
        BY Zenon, <4>4
    <3> QED
      BY Zenon, <3>1, <3>2
  <2>4. ASSUME NEW d \in Cpus PROVE CallOk(d)'
    <3>1. CASE d = c
      BY Zenon, <3>1, <1>1, <1>2, <1>4, <1>5, <1>7 DEF CallOk, GoesOn, CallType, Working, Tied
    <3>2. CASE d # c
      <4>1. cpu'[d] = cpu[d] /\ CallOk(d)
        BY Zenon, <3>2, <1>8, CallFacts DEF OthersKept
      <4>2. cpu[d].e # NULL => cpu[d].e \in arp_tbl' /\ entry'[cpu[d].e] = entry[cpu[d].e]
        BY Zenon, <4>1, <1>4, <1>5 DEF CallOk
      <4>3. cpu[d].pc \in {"timer_mod", "update_arm", "dispatch"} => cpu[d].e # NULL
        BY Zenon, <4>1 DEF CallOk, Working
      <4> QED
        BY Zenon, <4>1, <4>2, <4>3 DEF CallOk
    <3> QED
      BY Zenon, <3>1, <3>2
  <2>5. \A f \in arp_tbl' : /\ entry'[f].addr \in Addrs
                            /\ "STATIC" \in entry'[f].flags => entry'[f].addr \in Static
    BY Zenon, <1>1, <1>2, <1>4, <1>5 DEF IInv, TablePart
  <2> QED
    BY Zenon, <2>1, <2>2, <2>3, <2>4, <2>5 DEF TablePart
<1>11. SlotPart'
  <2>1. ASSUME NEW s \in Slots, Live(s)
        PROVE  slot[s].e \in arp_tbl /\ slot[s].e \in arp_tbl'
               /\ entry'[slot[s].e] = entry[slot[s].e]
    BY Zenon, <2>1, <1>4, <1>5 DEF IInv, SlotPart, SlotOk
  <2>2. \A s \in Slots : SlotOk(s)'
    BY Zenon, <2>1 DEF IInv, SlotPart, SlotOk, Live
  <2>3. RunnersLive'
    BY SMTT(30) DEF IInv, SlotPart, RunnersLive
  <2>4. ASSUME NEW d \in Cpus PROVE RunnerOk(d)'
    <3> SUFFICES ASSUME cpu'[d].s # NULL PROVE RunnerOk(d)'
      BY Zenon DEF RunnerOk
    <3>1. cpu'[d] = cpu[d] /\ RunnerOk(d)
      BY Zenon, <1>8, CallFacts DEF OthersKept
    <3>2. entry'[slot[cpu[d].s].e] = entry[slot[cpu[d].s].e]
      BY Zenon, <2>1, <3>1 DEF RunnerOk
    <3> QED
      BY Zenon, <3>1, <3>2 DEF RunnerOk, Live
  <2> QED
    BY Zenon, <2>2, <2>3, <2>4 DEF SlotPart
<1>12. PacketPart'
  <2>1. HoldsLess(c)
    BY Zenon, <1>1, <1>8 DEF HoldsLess, Holds
  <2> QED
    BY Zenon, <2>1, <1>8, PacketsKept DEF IInv
<1> QED
  BY Zenon, <1>9, <1>10, <1>11, <1>12 DEF IInv

(* The locked part of arp_lookup.                                           *)
LEMMA CreateKeeps ==
  ASSUME IInv, NEW c \in Cpus, Create(c)
  PROVE  IInv'
<1>1. cpu[c].pc = "create" /\ UNCHANGED <<arp_send_pkt_lock, slot, runlist, pkt>>
  BY Zenon DEF Create, At
<1>2. CASE /\ \E e \in arp_lookup(cpu[c].a) : Found(c, e)
           /\ UNCHANGED <<table, arp_lock>>
  BY Zenon, <1>1, <1>2, FoundKeeps DEF table
<1>3. CASE /\ arp_lookup(cpu[c].a) = {}
           /\ arp_tbl # Entries /\ NewEntry(c, mempool_alloc(Entries \ arp_tbl))
           /\ UNCHANGED arp_lock
  <2>1. mempool_alloc(Entries \ arp_tbl) \in Entries \ arp_tbl
    BY Zenon, <1>3 DEF mempool_alloc, IInv, Types
  <2> QED
    BY Zenon, <1>1, <1>3, <2>1, NewEntryKeeps
<1>4. CASE /\ arp_lookup(cpu[c].a) = {} /\ arp_tbl = Entries
           /\ arp_lock' = TRUE
           /\ IF cpu[c].p = NULL THEN Finish(c) ELSE Go(c, "search")
           /\ UNCHANGED table
  <2>1. /\ cpu \in [Cpus -> CallType] /\ CallOk(c) /\ RunnerOk(c) /\ cpu[c].s = NULL
        /\ cpu[c].a \notin Static
    BY Zenon, <1>1, CallFacts DEF CallOk, RunnerOk, Tied
  <2>2. OthersKept(c) /\ CallOk(c)' /\ RunnerKept(c) /\ HoldsLess(c)
    <3>1. CASE cpu[c].p = NULL
      <4>1. Ended(c)
        BY Zenon, <1>4, <2>1, <3>1, FinishEnds
      <4> QED
        BY Zenon, <1>1, <4>1, EndedOk DEF Ended
    <3>2. CASE cpu[c].p # NULL
      <4>1. GoesOn(c, cpu[c].e, "search")
        BY Zenon, <1>4, <2>1, <3>2, GoGoes DEF Calls
      <4>2. UNCHANGED <<arp_tbl, entry>>
        BY Zenon, <1>4 DEF table
      <4> QED
        BY Zenon, <1>1, <2>1, <4>1, <4>2
           DEF GoesOn, CallOk, Working, Tied, RunnerKept, HoldsLess, Holds
    <3> QED
      BY Zenon, <3>1, <3>2
  <2>3. StillMinds(c) /\ arp_lock' \in BOOLEAN
    BY Zenon, <1>1, <1>4 DEF StillMinds, Minds, Arming
  <2> QED
    BY Zenon, <1>1, <1>4, <2>2, <2>3, CallOnly DEF table
<1> QED
  BY Zenon, <1>2, <1>3, <1>4 DEF Create

(* arp_timer_handler frees an entry that nobody uses.                       *)
LEMMA UnlinkKeeps ==
  ASSUME IInv, NEW c \in Cpus, Unlink(c)
  PROVE  IInv'
<1> DEFINE e == cpu[c].e
<1>1. cpu[c].pc = "unlink" /\ cpu[c].pc \in Working /\ cpu[c].pc # "mac"
  BY Zenon DEF Unlink, At, Working
<1>2. CASE InUse(c, e)
  BY Zenon, <1>2, BreakKeeps DEF Unlink
<1>3. CASE ~InUse(c, e)
  <2>1. /\ arp_tbl' = arp_tbl \ {e} /\ entry' = [entry EXCEPT ![e] = NoEntry]
        /\ cpu' = [cpu EXCEPT ![c] = NoCall]
        /\ UNCHANGED <<arp_lock, arp_send_pkt_lock, slot, runlist, pkt>>
    BY Zenon, <1>3 DEF Unlink, locks
  <2>2. \A d \in Cpus : d # c => cpu[d].e # e
    BY Zenon, <1>3 DEF InUse
  <2>3. \A s \in Slots : Live(s) => slot[s].e # e
    BY Zenon, <1>3 DEF InUse, Waiting, Live
  <2>4. /\ cpu \in [Cpus -> CallType] /\ e \in arp_tbl /\ e \in Entries
        /\ entry \in [Entries -> EntryType] /\ entry[e].addr = cpu[c].a
        /\ cpu[c].a \notin Static
    BY Zenon, <1>1, WorkFacts DEF CallOk, Tied
  <2>5. NoEntry \in EntryType
    <3>1. 0 \in Nat
      OBVIOUS
    <3> QED
      BY Zenon, <3>1 DEF NoEntry, EntryType
  <2>6. /\ entry' \in [Entries -> EntryType]
        /\ \A f \in arp_tbl' : f \in arp_tbl /\ f # e /\ entry'[f] = entry[f]
        /\ \A f \in arp_tbl : f # e => f \in arp_tbl' /\ entry'[f] = entry[f]
    BY Zenon, <2>1, <2>4, <2>5 DEF IInv, Types
  <2>7. OthersKept(c) /\ cpu'[c] = NoCall
    BY Zenon, <2>1, <2>4, NoCallOk, CallSet
  <2> HIDE DEF e
  <2>8. Types'
    BY Zenon, <2>1, <2>6, <2>7 DEF IInv, Types, OthersKept
  <2>9. TablePart'
    <3>1. OneEntry'
      BY Zenon, <2>6 DEF IInv, TablePart, OneEntry
    <3>2. StaticStays'
      <4> SUFFICES ASSUME NEW a \in Static
                   PROVE  \E f \in arp_tbl' : /\ entry'[f].addr = a
                                              /\ entry'[f].flags = {"VALID", "STATIC"}
                                              /\ entry'[f].timer = NULL
        BY ZenonT(60) DEF StaticStays, arp_lookup
      <4>1. PICK f \in arp_tbl : /\ entry[f].addr = a /\ entry[f].flags = {"VALID", "STATIC"}
                                 /\ entry[f].timer = NULL
        BY ZenonT(60) DEF IInv, TablePart, StaticStays, arp_lookup
      <4> QED
        BY Zenon, <4>1, <2>4, <2>6
    <3>3. Tended'
      <4> SUFFICES ASSUME NEW f \in arp_tbl', entry'[f].addr \notin Static,
                          entry'[f].timer = NULL
                   PROVE  \E d \in Cpus : Minds(d, f)'
        BY Zenon DEF Tended
      <4>1. f \in arp_tbl /\ entry'[f] = entry[f] /\ f # e
        BY Zenon, <2>6
      <4>2. PICK d \in Cpus : Minds(d, f)
        BY Zenon, <4>1 DEF IInv, TablePart, Tended
      <4>3. d # c
        BY Zenon, <4>1, <4>2 DEF Minds, e
      <4>4. Minds(d, f)'
        BY Zenon, <4>1, <4>2, <4>3, <2>7 DEF Minds, OthersKept
      <4> QED
        BY Zenon, <4>4
    <3>4. ASSUME NEW d \in Cpus PROVE CallOk(d)'
      <4>1. CASE d = c
        BY Zenon, <4>1, <2>7, NoCallOk DEF CallOk, Working, Tied
      <4>2. CASE d # c
        <5>1. cpu'[d] = cpu[d] /\ CallOk(d)
          BY Zenon, <4>2, <2>7, CallFacts DEF OthersKept
        <5>2. cpu[d].e # NULL => cpu[d].e \in arp_tbl' /\ entry'[cpu[d].e] = entry[cpu[d].e]
          BY Zenon, <4>2, <5>1, <2>2, <2>6 DEF CallOk
        <5>3. cpu[d].pc \in {"timer_mod", "update_arm", "dispatch"} => cpu[d].e # NULL
          BY Zenon, <5>1 DEF CallOk, Working
        <5> QED
          BY Zenon, <5>1, <5>2, <5>3 DEF CallOk
      <4> QED
        BY Zenon, <4>1, <4>2
    <3>5. \A f \in arp_tbl' : /\ entry'[f].addr \in Addrs
                              /\ "STATIC" \in entry'[f].flags => entry'[f].addr \in Static
      BY Zenon, <2>6 DEF IInv, TablePart
    <3> QED
      BY Zenon, <3>1, <3>2, <3>3, <3>4, <3>5 DEF TablePart
  <2>10. SlotPart'
    <3>1. ASSUME NEW s \in Slots, Live(s)
          PROVE  slot[s].e \in arp_tbl' /\ entry'[slot[s].e] = entry[slot[s].e]
      BY Zenon, <3>1, <2>3, <2>6 DEF IInv, SlotPart, SlotOk
    <3>2. \A s \in Slots : SlotOk(s)'
      BY Zenon, <3>1, <2>1 DEF IInv, SlotPart, SlotOk, Live
    <3>3. RunnersLive'
      BY SMTT(30), <2>1 DEF IInv, SlotPart, RunnersLive
    <3>4. ASSUME NEW d \in Cpus PROVE RunnerOk(d)'
      <4> SUFFICES ASSUME cpu'[d].s # NULL PROVE RunnerOk(d)'
        BY Zenon DEF RunnerOk
      <4>1. cpu'[d] = cpu[d] /\ RunnerOk(d)
        BY Zenon, <2>7, NoCallOk, CallFacts DEF OthersKept
      <4>2. entry'[slot[cpu[d].s].e] = entry[slot[cpu[d].s].e]
        BY Zenon, <3>1, <4>1 DEF RunnerOk
      <4> QED
        BY Zenon, <4>1, <4>2, <2>1 DEF RunnerOk, Live
    <3> QED
      BY Zenon, <3>2, <3>3, <3>4 DEF SlotPart
  <2>11. PacketPart'
    <3>1. HoldsLess(c)
      BY Zenon, <2>7, NoCallOk DEF HoldsLess, Holds
    <3> QED
      BY Zenon, <3>1, <2>1, <2>7, PacketsKept DEF IInv
  <2> QED
    BY Zenon, <2>8, <2>9, <2>10, <2>11 DEF IInv
<1> QED
  BY Zenon, <1>2, <1>3

-----------------------------------------------------------------------------
(* What is said of the table, in a step that does not touch it.             *)
LEMMA TableSame ==
  ASSUME IInv, NEW c \in Cpus, OthersKept(c), UNCHANGED <<arp_tbl, entry>>,
         CallOk(c)', StillMinds(c)
  PROVE  TablePart'
<1>1. EntriesKept /\ Tends(c)
  BY Zenon DEF EntriesKept, Tends, StillMinds
<1> QED
  BY Zenon, <1>1, TableKept DEF IInv

(* What the proofs use of the sizes of finite sets: a set of pending        *)
(* packets has a size, and when each pending packet holds a packet of its   *)
(* own, other than p, there are more packets than pending packets.  It is   *)
(* proved last (SizesRight), the one place that needs the library's         *)
(* theorems on finite sets.                                                 *)
Sizes ==
  /\ \A S \in SUBSET Slots : Cardinality(S) \in Nat
  /\ \A p \in Pkts : \A f \in [Slots -> Pkts \ {p}] :
       (\A s, t \in Slots : f[s] = f[t] => s = t)
         => Cardinality(Slots) < Cardinality(Pkts)

(* A full pool of pending packets holds as many packets as it has elements, *)
(* and the packet that finds no room is one more.                           *)
LEMMA PoolSmaller ==
  ASSUME Sizes, IInv, NEW c \in Cpus, Holds(c), FreeSlots = {}
  PROVE  Cardinality(Slots) < Cardinality(Pkts)
<1> DEFINE p == cpu[c].p
           f == [s \in Slots |-> slot[s].p]
<1>1. \A s \in Slots : Live(s)
  BY Zenon DEF FreeSlots, Live
<1>2. p \in Pkts /\ \A s \in Slots : slot[s].p \in Pkts \ {p}
  BY Zenon, <1>1, HeldAlone
<1>3. f \in [Slots -> Pkts \ {p}]
  BY Zenon, <1>2
<1>4. \A s, t \in Slots : f[s] = f[t] => s = t
  BY Zenon, <1>1 DEF IInv, PacketPart
<1> HIDE DEF p, f
<1> QED
  BY Zenon, <1>2, <1>3, <1>4 DEF Sizes

(* arp_add_pending_pkt.  The entry is in the table, although an answer may  *)
(* have come since arp_lookup_mac; a packet is leaked only when no element  *)
(* is free.                                                                 *)
LEMMA AddKeeps ==
  ASSUME Sizes, IInv, NEW c \in Cpus, arp_add_pending_pkt(c)
  PROVE  IInv'
<1> DEFINE p == cpu[c].p
           e == cpu[c].e
<1>1. /\ cpu[c].pc = "add" /\ cpu[c].pc \in Working /\ cpu[c].pc # "mac" /\ Finish(c)
      /\ UNCHANGED <<arp_tbl, entry, arp_lock, arp_send_pkt_lock, runlist>>
  BY Zenon DEF arp_add_pending_pkt, At, table, locks, Working
<1>2. /\ cpu \in [Cpus -> CallType] /\ CallOk(c) /\ e \in arp_tbl /\ e \in Entries
      /\ entry[e].addr = cpu[c].a /\ cpu[c].s = NULL /\ cpu[c].a \notin Static /\ p \in Pkts
  BY Zenon, <1>1, WorkFacts DEF CallOk, Tied
<1>3. Holds(c)
  BY Zenon, <1>1, <1>2, ArpAssumption DEF Holds
<1>4. StillMinds(c)
  BY Zenon, <1>1 DEF StillMinds, Minds, Arming
<1>5. CASE FreeSlots = {}
  <2>1. UNCHANGED slot /\ pkt' = [pkt EXCEPT ![p] = "leaked"] /\ "leaked" \in PktStates
    BY Zenon, <1>5 DEF arp_add_pending_pkt, PktStates
  <2>2. Cardinality(Slots) < Cardinality(Pkts)
    BY Zenon, <1>3, <1>5, PoolSmaller
  <2> QED
    BY Zenon, <1>1, <1>3, <1>4, <2>1, <2>2, EndKeeps
<1>6. CASE FreeSlots # {}
  <2> DEFINE m == mempool_alloc(FreeSlots)
             r == [e |-> e, p |-> p, cpu |-> c, dispatched |-> FALSE]
  <2>1. slot' = [slot EXCEPT ![m] = r] /\ pkt' = [pkt EXCEPT ![p] = "waiting"]
    BY Zenon, <1>6 DEF arp_add_pending_pkt
  <2>2. m \in FreeSlots
    BY Zenon, <1>6 DEF mempool_alloc
  <2>3. m \in Slots /\ ~Live(m)
    BY Zenon, <2>2 DEF FreeSlots, Live
  <2>4. r \in SlotType
    BY Zenon, <1>2 DEF SlotType
  <2>5. /\ slot' \in [Slots -> SlotType]
        /\ slot'[m].e = e /\ slot'[m].p = p /\ slot'[m].cpu = c /\ ~slot'[m].dispatched
        /\ \A s \in Slots : s # m => slot'[s] = slot[s]
    BY Zenon, <2>1, <2>3, <2>4 DEF IInv, Types
  <2>6. pkt' \in [Pkts -> PktStates] /\ \A q \in Pkts : pkt'[q] = IF q = p THEN "waiting" ELSE pkt[q]
    BY Zenon, <2>1 DEF IInv, Types, PktStates
  <2> HIDE DEF m, r
  <2>7. Ended(c)
    BY Zenon, <1>1, <1>2, FinishEnds
  <2>8. CallOk(c)' /\ RunnerKept(c) /\ ~Holds(c)' /\ OthersKept(c) /\ cpu'[c].s = NULL
    BY Zenon, <1>1, <1>2, <2>7, EndedOk, NoCallOk DEF Ended
  <2>9. Types'
    BY Zenon, <1>1, <2>5, <2>6, <2>8 DEF IInv, Types, OthersKept
  <2>10. TablePart'
    BY Zenon, <1>1, <1>4, <2>8, TableSame
  <2>11. SlotPart'
    <3>1. \A d \in Cpus : \A i \in 1 .. Len(runlist[d]) :
            runlist[d][i] \in Slots /\ runlist[d][i] # m
      BY <2>3 DEF IInv, SlotPart, RunnersLive, Live, Types
    <3>2. RunnersLive'
      <4>1. RunnersLive
        BY Zenon DEF IInv, SlotPart
      <4> QED
        BY SMTT(30), <3>1, <4>1, <1>1, <2>5 DEF RunnersLive
    <3>3. ASSUME NEW s \in Slots PROVE SlotOk(s)'
      <4>1. CASE s = m
        BY Zenon, <4>1, <1>1, <1>2, <2>5 DEF SlotOk
      <4>2. CASE s # m
        <5>1. SlotOk(s) /\ slot'[s] = slot[s]
          BY Zenon, <4>2, <2>5 DEF IInv, SlotPart
        <5> QED
          BY Zenon, <5>1, <1>1 DEF SlotOk, Live
      <4> QED
        BY Zenon, <4>1, <4>2
    <3>4. ASSUME NEW d \in Cpus PROVE RunnerOk(d)'
      <4> SUFFICES ASSUME cpu'[d].s # NULL PROVE RunnerOk(d)'
        BY Zenon DEF RunnerOk
      <4>1. cpu'[d] = cpu[d] /\ RunnerOk(d)
        BY Zenon, <2>8, CallFacts DEF OthersKept
      <4>2. cpu[d].s \in Slots /\ cpu[d].s # m
        BY Zenon, <4>1, <2>3 DEF RunnerOk
      <4>3. slot'[cpu[d].s] = slot[cpu[d].s]
        BY Zenon, <4>2, <2>5
      <4> QED
        BY Zenon, <4>1, <4>3, <1>1 DEF RunnerOk, Live
    <3> QED
      BY Zenon, <3>2, <3>3, <3>4 DEF SlotPart
  <2>12. PacketPart'
    <3>1. /\ \A s \in Slots : Live(s) => slot[s].p \in Pkts /\ slot[s].p # p
          /\ \A d \in Cpus : Holds(d) /\ d # c => cpu[d].p \in Pkts /\ cpu[d].p # p
      BY Zenon, <1>3, HeldAlone
    <3>2. ASSUME NEW s \in Slots, slot'[s].p # NULL
          PROVE  pkt'[slot'[s].p] \in {"waiting", "sent", "freed"}
      <4>1. CASE s = m
        BY Zenon, <4>1, <1>2, <2>5, <2>6
      <4>2. CASE s # m
        <5>1. slot'[s] = slot[s] /\ Live(s) /\ slot[s].p \in Pkts /\ slot[s].p # p
          BY Zenon, <4>2, <3>1, <3>2, <2>5 DEF Live
        <5>2. pkt'[slot[s].p] = pkt[slot[s].p]
          BY Zenon, <5>1, <2>6
        <5> QED
          BY Zenon, <5>1, <5>2 DEF IInv, PacketPart
      <4> QED
        BY Zenon, <4>1, <4>2
    <3>3. ASSUME NEW s \in Slots, NEW t \in Slots, slot'[s].p # NULL, slot'[s].p = slot'[t].p
          PROVE  s = t
      <4>1. CASE s # m /\ t # m
        <5>1. slot'[s] = slot[s] /\ slot'[t] = slot[t]
          BY Zenon, <4>1, <2>5
        <5>2. Live(s) /\ slot[s].p = slot[t].p
          BY Zenon, <5>1, <3>3 DEF Live
        <5> QED
          BY ZenonT(60), <5>2 DEF IInv, PacketPart
      <4>2. CASE s = m \/ t = m
        BY Zenon, <4>2, <3>1, <3>3, <2>5 DEF Live
      <4> QED
        BY Zenon, <4>1, <4>2
    <3>4. \A d \in Cpus : Holds(d)' => d # c /\ Holds(d) /\ cpu'[d].p = cpu[d].p
      BY Zenon, <2>8 DEF OthersKept, Holds
    <3>5. ASSUME NEW d \in Cpus, Holds(d)' PROVE pkt'[cpu'[d].p] = "stack"
      <4>1. Holds(d) /\ cpu'[d].p = cpu[d].p /\ cpu[d].p \in Pkts /\ cpu[d].p # p
        BY Zenon, <3>1, <3>4, <3>5
      <4>2. pkt'[cpu[d].p] = pkt[cpu[d].p] /\ pkt[cpu[d].p] = "stack"
        BY Zenon, <4>1, <2>6, HeldAlone
      <4> QED
        BY Zenon, <4>1, <4>2
    <3>6. \A d, b \in Cpus : Holds(d)' /\ Holds(b)' /\ cpu'[d].p = cpu'[b].p => d = b
      BY Zenon, <3>4 DEF IInv, PacketPart
    <3>7. LeaksNeedFullPool'
      BY Zenon, <2>6 DEF IInv, PacketPart, LeaksNeedFullPool
    <3> QED
      BY Zenon, <3>2, <3>3, <3>5, <3>6, <3>7 DEF PacketPart, Live
  <2> QED
    BY Zenon, <2>9, <2>10, <2>11, <2>12 DEF IInv
<1> QED
  BY Zenon, <1>5, <1>6

(* send_pending_pkt frees a pending_pkt that is on no run list and that no  *)
(* other CPU sends.                                                         *)
LEMMA SlotFreed ==
  ASSUME IInv, NEW c \in Cpus, send_pending_pkt(c), cpu[c].s # NULL
  PROVE  IInv'
<1> DEFINE m == cpu[c].s
<1>1. /\ cpu[c].pc = "done" /\ slot' = [slot EXCEPT ![m] = NoSlot]
      /\ cpu' = [cpu EXCEPT ![c] = NoCall]
      /\ UNCHANGED <<arp_tbl, entry, arp_lock, arp_send_pkt_lock, runlist, pkt>>
  BY Zenon DEF send_pending_pkt, At, table, locks
<1>2. /\ m \in Slots /\ Live(m) /\ slot[m].dispatched /\ slot[m].cpu = c
      /\ \A i \in 1 .. Len(runlist[c]) : runlist[c][i] # m
  BY Zenon, CallFacts DEF RunnerOk
<1>3. OthersKept(c) /\ cpu'[c] = NoCall
  BY Zenon, <1>1, CallFacts, NoCallOk, CallSet
<1>4. NoSlot \in SlotType /\ NoSlot.p = NULL
  BY Zenon DEF NoSlot, SlotType
<1>5. /\ slot' \in [Slots -> SlotType] /\ slot'[m].p = NULL
      /\ \A s \in Slots : s # m => slot'[s] = slot[s]
  BY Zenon, <1>1, <1>2, <1>4 DEF IInv, Types
<1> HIDE DEF m
<1>6. CallOk(c)' /\ HoldsLess(c)
  BY Zenon, <1>3, NoCallOk DEF CallOk, Working, Tied, HoldsLess, Holds
<1>7. StillMinds(c)
  BY Zenon, <1>1 DEF StillMinds, Minds, Arming
<1>8. TablePart'
  BY Zenon, <1>1, <1>3, <1>6, <1>7, TableSame
<1>9. Types'
  BY Zenon, <1>1, <1>3, <1>5 DEF IInv, Types, OthersKept
<1>10. SlotPart'
  <2>1. RunnersLive
    BY Zenon DEF IInv, SlotPart
  <2>2. \A d \in Cpus : \A i \in 1 .. Len(runlist[d]) :
          runlist[d][i] \in Slots /\ runlist[d][i] # m
    <3> SUFFICES ASSUME NEW d \in Cpus, NEW i \in 1 .. Len(runlist[d])
                 PROVE  runlist[d][i] \in Slots /\ runlist[d][i] # m
      BY Zenon
    <3>1. runlist \in [Cpus -> Seq(Slots)]
      BY Zenon DEF IInv, Types
    <3>2. runlist[d][i] \in Slots
      BY <3>1
    <3>3. slot[runlist[d][i]].cpu = d
      BY Zenon, <2>1 DEF RunnersLive
    <3> QED
      BY Zenon, <3>2, <3>3, <1>2
  <2>3. RunnersLive'
    BY SMTT(30), <2>1, <2>2, <1>1, <1>5 DEF RunnersLive
  <2>4. ASSUME NEW s \in Slots PROVE SlotOk(s)'
    <3>1. SlotOk(s) /\ (s # m => slot'[s] = slot[s])
      BY Zenon, <1>5 DEF IInv, SlotPart
    <3> QED
      BY Zenon, <3>1, <1>1, <1>5 DEF SlotOk, Live
  <2>5. ASSUME NEW d \in Cpus PROVE RunnerOk(d)'
    <3> SUFFICES ASSUME cpu'[d].s # NULL PROVE RunnerOk(d)'
      BY Zenon DEF RunnerOk
    <3>1. d # c /\ cpu'[d] = cpu[d] /\ RunnerOk(d)
      BY Zenon, <1>3, NoCallOk, CallFacts DEF OthersKept
    <3>2. cpu[d].s \in Slots /\ cpu[d].s # m
      BY Zenon, <3>1, <1>2 DEF RunnerOk
    <3>3. slot'[cpu[d].s] = slot[cpu[d].s]
      BY Zenon, <3>2, <1>5
    <3> QED
      BY ZenonT(60), <3>1, <3>3, <1>1 DEF RunnerOk, Live
  <2> QED
    BY Zenon, <2>3, <2>4, <2>5 DEF SlotPart
<1>11. PacketPart'
  <2>1. \A s \in Slots : slot'[s].p # NULL => slot'[s].p = slot[s].p
    BY Zenon, <1>5
  <2> QED
    BY Zenon, <2>1, <1>1, <1>3, <1>6, PacketsKept DEF IInv
<1> QED
  BY Zenon, <1>8, <1>9, <1>10, <1>11 DEF IInv

(* The end of the call, of send_pending_pkt or not.                         *)
LEMMA FreeKeeps ==
  ASSUME IInv, NEW c \in Cpus, send_pending_pkt(c)
  PROVE  IInv'
<1>1. CASE cpu[c].s # NULL
  BY Zenon, <1>1, SlotFreed
<1>2. CASE cpu[c].s = NULL
  <2>1. /\ cpu[c].pc = "done" /\ slot' = [slot EXCEPT ![NULL] = NoSlot]
        /\ cpu' = [cpu EXCEPT ![c] = NoCall]
        /\ UNCHANGED <<arp_tbl, entry, arp_lock, arp_send_pkt_lock, runlist, pkt>>
    BY Zenon, <1>2 DEF send_pending_pkt, At, table, locks
  <2>2. slot \in [Slots -> SlotType] /\ NULL \notin Slots /\ arp_lock \in BOOLEAN
    BY Zenon, ArpAssumption DEF IInv, Types
  <2>3. UNCHANGED slot
    BY Zenon, <2>1, <2>2
  <2>4. OthersKept(c) /\ cpu'[c] = NoCall
    BY Zenon, <2>1, CallFacts, NoCallOk, CallSet
  <2>5. CallOk(c)' /\ HoldsLess(c) /\ RunnerKept(c)
    BY Zenon, <1>2, <2>4, NoCallOk DEF CallOk, Working, Tied, HoldsLess, Holds, RunnerKept
  <2>6. StillMinds(c)
    BY Zenon, <2>1 DEF StillMinds, Minds, Arming
  <2> QED
    BY Zenon, <2>1, <2>2, <2>3, <2>4, <2>5, <2>6, CallOnly
<1> QED
  BY Zenon, <1>1, <1>2

-----------------------------------------------------------------------------
(* cpu_do_bookkeeping.  The pending_pkt is off the run list before it is    *)
(* sent, and was on it once.                                                *)
LEMMA BookkeepingKeeps ==
  ASSUME IInv, NEW c \in Cpus, cpu_do_bookkeeping(c)
  PROVE  IInv'
<1> DEFINE s == Head(runlist[c])
           r == [pc |-> "lookup", p |-> slot[s].p, a |-> entry[slot[s].e].addr,
                 e |-> NULL, s |-> s]
<1>1. /\ runlist[c] # <<>> /\ cpu' = [cpu EXCEPT ![c] = r] /\ cpu[c].pc = "idle"
      /\ runlist' = [runlist EXCEPT ![c] = Tail(@)]
      /\ UNCHANGED <<arp_tbl, entry, arp_lock, arp_send_pkt_lock, slot, pkt>>
  BY Zenon DEF cpu_do_bookkeeping, At, table, locks
<1>0. /\ RunnersLive /\ runlist \in [Cpus -> Seq(Slots)]
      /\ (\A t \in Slots : SlotOk(t)) /\ \A d \in Cpus : RunnerOk(d)
  BY Zenon DEF IInv, SlotPart, Types
<1>2. runlist[c] \in Seq(Slots) /\ s \in Slots /\ s = runlist[c][1]
      /\ 1 \in 1 .. Len(runlist[c])
  BY <1>0, <1>1
<1>3. /\ slot[s].p \in Pkts /\ slot[s].p # NULL /\ slot[s].dispatched /\ slot[s].cpu = c
      /\ slot[s].e \in arp_tbl /\ slot[s].e \in Entries /\ entry[slot[s].e].addr \in Addrs
  <2>1. slot[s].p # NULL /\ slot[s].dispatched /\ slot[s].cpu = c
    BY <1>0, <1>2 DEF RunnersLive
  <2>2. slot[s].e \in arp_tbl
    BY Zenon, <2>1, <1>0, <1>2 DEF SlotOk, Live
  <2> QED
    BY Zenon, <2>1, <2>2, <1>2 DEF IInv, Types, SlotType, TablePart
<1>4. r \in CallType
  BY Zenon, <1>2, <1>3 DEF CallType, Calls
<1>5. OthersKept(c) /\ cpu'[c] = r
  BY Zenon, <1>1, <1>4, CallSet, CallFacts
<1>6. /\ Len(runlist'[c]) = Len(runlist[c]) - 1
      /\ \A i \in 1 .. Len(runlist'[c]) :
           i + 1 \in 1 .. Len(runlist[c]) /\ runlist'[c][i] = runlist[c][i + 1]
      /\ runlist' \in [Cpus -> Seq(Slots)]
      /\ \A d \in Cpus : d # c => runlist'[d] = runlist[d]
  BY <1>0, <1>1, <1>2
<1>7. \A i \in 1 .. Len(runlist'[c]) : runlist'[c][i] # s
  <2> SUFFICES ASSUME NEW i \in 1 .. Len(runlist'[c]), runlist'[c][i] = s
               PROVE  FALSE
    OBVIOUS
  <2>1. i + 1 \in 1 .. Len(runlist[c]) /\ runlist[c][i + 1] = runlist[c][1]
    BY Zenon, <1>2, <1>6
  <2>2. i + 1 = 1
    BY ZenonT(60), <2>1, <1>0, <1>2 DEF RunnersLive
  <2> QED
    BY <2>2, <1>2, <1>6
<1>8. /\ cpu'[c].pc = "lookup" /\ cpu'[c].p = slot[s].p /\ cpu'[c].s = s
      /\ cpu'[c].a = entry[slot[s].e].addr /\ cpu'[c].e = NULL
  BY <1>5
<1> HIDE DEF s, r
<1>9. Types'
  BY Zenon, <1>1, <1>5, <1>6 DEF IInv, Types, OthersKept
<1>10. TablePart'
  <2>1. StillMinds(c)
    BY Zenon, <1>1 DEF StillMinds, Minds, Arming
  <2>2. CallOk(c)'
    BY Zenon, <1>3, <1>8 DEF CallOk, Working, Tied
  <2> QED
    BY Zenon, <2>1, <2>2, <1>1, <1>5, TableSame
<1>11. RunnersLive'
  <2> SUFFICES ASSUME NEW d \in Cpus, NEW i \in 1 .. Len(runlist'[d])
               PROVE  /\ slot[runlist'[d][i]].p # NULL
                      /\ slot[runlist'[d][i]].dispatched /\ slot[runlist'[d][i]].cpu = d
                      /\ \A j \in 1 .. Len(runlist'[d]) :
                           runlist'[d][j] = runlist'[d][i] => j = i
    BY ZenonT(60), <1>1 DEF RunnersLive
  <2>1. CASE d # c
    BY <2>1, <1>0, <1>6 DEF RunnersLive
  <2>2. CASE d = c
    <3>1. \A j \in 1 .. Len(runlist'[c]) :
            runlist[c][j + 1] = runlist[c][i + 1] => j + 1 = i + 1
      BY ZenonT(60), <2>2, <1>0, <1>6 DEF RunnersLive
    <3>2. slot[runlist[c][i + 1]].p # NULL /\ slot[runlist[c][i + 1]].dispatched
          /\ slot[runlist[c][i + 1]].cpu = c
      BY <2>2, <1>0, <1>6 DEF RunnersLive
    <3> QED
      BY <3>1, <3>2, <2>2, <1>2, <1>6
  <2> QED
    BY Zenon, <2>1, <2>2
<1>12. SlotPart'
  <2>1. ASSUME NEW t \in Slots PROVE SlotOk(t)'
    <3>1. SlotOk(t)
      BY Zenon, <1>0
    <3> QED
      BY Zenon, <3>1, <1>1 DEF SlotOk, Live
  <2>2. RunnerOk(c)'
    BY Zenon, <1>1, <1>2, <1>3, <1>7, <1>8 DEF RunnerOk, Live
  <2>3. ASSUME NEW d \in Cpus, d # c PROVE RunnerOk(d)'
    <3>1. RunnerOk(d) /\ cpu'[d] = cpu[d] /\ runlist'[d] = runlist[d]
      BY Zenon, <2>3, <1>0, <1>5, <1>6 DEF OthersKept
    <3> QED
      BY Zenon, <3>1, <1>1 DEF RunnerOk, Live
  <2> QED
    BY Zenon, <2>1, <2>2, <2>3, <1>11 DEF SlotPart
<1>13. PacketPart'
  <2>1. HoldsLess(c)
    BY Zenon, <1>2, <1>8, ArpAssumption DEF HoldsLess, Holds
  <2> QED
    BY Zenon, <2>1, <1>1, <1>5, PacketsKept DEF IInv
<1> QED
  BY Zenon, <1>9, <1>10, <1>12, <1>13 DEF IInv

NoRepeats(q) == \A i, j \in 1 .. Len(q) : q[i] = q[j] => i = j
Apart(q, r) == \A i \in 1 .. Len(q), j \in 1 .. Len(r) : q[i] # r[j]
Joins(s, q, r) ==
  \A i \in 1 .. Len(s) : \/ \E k \in 1 .. Len(q) : s[i] = q[k]
                         \/ \E k \in 1 .. Len(r) : s[i] = r[k]

(* Two sequences without repetitions that share no element make one.        *)
LEMMA JoinedDistinct ==
  ASSUME NEW S, NEW q \in Seq(S), NEW r \in Seq(S),
         NoRepeats(q), NoRepeats(r), Apart(q, r)
  PROVE  q \o r \in Seq(S) /\ Joins(q \o r, q, r) /\ NoRepeats(q \o r)
<1> USE DEF NoRepeats, Apart
<1>1. /\ q \o r \in Seq(S) /\ Len(q \o r) = Len(q) + Len(r)
      /\ Len(q) \in Nat /\ Len(r) \in Nat
  OBVIOUS
<1>2. ASSUME NEW i \in 1 .. Len(q \o r)
      PROVE  \/ i \in 1 .. Len(q) /\ (q \o r)[i] = q[i]
             \/ i - Len(q) \in 1 .. Len(r) /\ (q \o r)[i] = r[i - Len(q)]
  BY <1>1
<1>3. ASSUME NEW i \in 1 .. Len(q \o r), NEW j \in 1 .. Len(q \o r),
             (q \o r)[i] = (q \o r)[j]
      PROVE  i = j
  <2>1. CASE i \in 1 .. Len(q) /\ (q \o r)[i] = q[i]
    <3>1. j \in 1 .. Len(q) /\ (q \o r)[j] = q[j]
      BY Zenon, <1>2, <1>3, <2>1
    <3> QED
      BY Zenon, <1>3, <2>1, <3>1
  <2>2. CASE i - Len(q) \in 1 .. Len(r) /\ (q \o r)[i] = r[i - Len(q)]
    <3>1. j - Len(q) \in 1 .. Len(r) /\ (q \o r)[j] = r[j - Len(q)]
      BY Zenon, <1>2, <1>3, <2>2
    <3>2. i - Len(q) = j - Len(q)
      BY Zenon, <1>3, <2>2, <3>1
    <3> QED
      BY <1>1, <3>2
  <2> QED
    BY Zenon, <1>2, <2>1, <2>2
<1>4. Joins(q \o r, q, r)
  BY Zenon, <1>2 DEF Joins
<1> QED
  BY Zenon, <1>1, <1>3, <1>4

(* An order of a finite set of pending packets is a sequence of them        *)
(* without repetitions.                                                     *)
LEMMA OrderIsSeq ==
  ASSUME Sizes, NEW S \in SUBSET Slots, NEW q \in Orders(S)
  PROVE  q \in Seq(Slots) /\ (\A i \in 1 .. Len(q) : q[i] \in S) /\ NoRepeats(q)
<1>1. Cardinality(S) \in Nat
  BY Zenon DEF Sizes
<1>2. q \in [1 .. Cardinality(S) -> S] /\ \A i, j \in DOMAIN q : q[i] = q[j] => i = j
  BY Zenon DEF Orders
<1>3. q \in Seq(Slots) /\ Len(q) = Cardinality(S)
  BY <1>1, <1>2
<1> QED
  BY Zenon, <1>2, <1>3 DEF NoRepeats

(* The last step of arp_update_mac.  The packets that waited go to run      *)
(* lists on which they were not, and their entry is valid.                  *)
LEMMA DispatchKeeps ==
  ASSUME Sizes, IInv, NEW c \in Cpus, Dispatch(c)
  PROVE  IInv'
<1> DEFINE e == cpu[c].e
           new == {s \in Waiting(e) : ~slot[s].dispatched}
           Of(d) == {s \in new : slot[s].cpu = d}
<1>1. /\ cpu[c].pc = "dispatch" /\ cpu[c].pc \in Working /\ cpu[c].pc # "mac"
      /\ cpu[c].pc # "idle" /\ Finish(c)
      /\ UNCHANGED <<arp_tbl, entry, arp_lock, arp_send_pkt_lock, pkt>>
  BY Zenon DEF Dispatch, At, table, locks, Working
<1>2. /\ cpu \in [Cpus -> CallType] /\ CallOk(c) /\ e \in arp_tbl /\ e \in Entries
      /\ cpu[c].s = NULL /\ cpu[c].a \in Addrs /\ "VALID" \in entry[e].flags
  BY Zenon, <1>1, WorkFacts DEF CallOk
<1>3. /\ RunnersLive /\ runlist \in [Cpus -> Seq(Slots)]
      /\ (\A t \in Slots : SlotOk(t)) /\ \A d \in Cpus : RunnerOk(d)
  BY Zenon DEF IInv, SlotPart, Types
<1>4. PICK order \in [Cpus -> UNION {Orders(S) : S \in SUBSET new}] :
        /\ \A d \in Cpus : order[d] \in Orders(Of(d))
        /\ runlist' = [d \in Cpus |-> order[d] \o runlist[d]]
  BY Zenon DEF Dispatch
<1>5. \A s \in new : s \in Slots /\ Live(s) /\ slot[s].e = e /\ ~slot[s].dispatched
  BY Zenon DEF Waiting, Live
<1>6. slot' = [s \in Slots |->
        IF s \in new THEN [slot[s] EXCEPT !.dispatched = TRUE] ELSE slot[s]]
  BY Zenon DEF Dispatch
<1> HIDE DEF new
<1>7. ASSUME NEW s \in Slots
      PROVE  /\ slot'[s] \in SlotType
             /\ slot'[s].p = slot[s].p /\ slot'[s].e = slot[s].e
             /\ slot'[s].cpu = slot[s].cpu
             /\ slot'[s].dispatched <=> slot[s].dispatched \/ s \in new
  <2>1. slot[s] \in SlotType
    BY Zenon DEF IInv, Types
  <2>2. CASE s \in new
    <3>1. slot'[s] = [slot[s] EXCEPT !.dispatched = TRUE]
      BY Zenon, <1>6, <2>2
    <3> QED
      BY ZenonT(60), <2>1, <2>2, <3>1 DEF SlotType
  <2>3. CASE s \notin new
    <3>1. slot'[s] = slot[s]
      BY Zenon, <1>6, <2>3
    <3> QED
      BY Zenon, <2>1, <2>3, <3>1
  <2> QED
    BY Zenon, <2>2, <2>3
<1>8. slot' \in [Slots -> SlotType]
  <2>1. \A s \in Slots : slot'[s] \in SlotType
    BY Zenon, <1>7
  <2> QED
    BY Zenon, <1>6, <2>1
<1>9. CallOk(c)' /\ OthersKept(c) /\ cpu'[c].s = NULL /\ HoldsLess(c)
  <2>1. Ended(c)
    BY Zenon, <1>1, <1>2, FinishEnds
  <2> QED
    BY Zenon, <1>1, <1>2, <2>1, EndedOk, NoCallOk DEF Ended
<1> HIDE DEF e
<1>10. ASSUME NEW d \in Cpus
       PROVE  /\ runlist'[d] \in Seq(Slots)
              /\ \A i \in 1 .. Len(runlist'[d]) :
                   \/ runlist'[d][i] \in Of(d)
                   \/ \E k \in 1 .. Len(runlist[d]) : runlist'[d][i] = runlist[d][k]
              /\ \A i, j \in 1 .. Len(runlist'[d]) :
                   runlist'[d][i] = runlist'[d][j] => i = j
  <2> DEFINE q == order[d]
             r == runlist[d]
  <2>1. Of(d) \in SUBSET Slots /\ q \in Orders(Of(d)) /\ r \in Seq(Slots)
    BY Zenon, <1>3, <1>4, <1>5
  <2>2. q \in Seq(Slots) /\ (\A i \in 1 .. Len(q) : q[i] \in Of(d)) /\ NoRepeats(q)
    BY Zenon, <2>1, OrderIsSeq
  <2>3. NoRepeats(r)
    BY Zenon, <1>3 DEF RunnersLive, NoRepeats
  <2>4. Apart(q, r)
    <3> SUFFICES ASSUME NEW i \in 1 .. Len(q), NEW j \in 1 .. Len(r) PROVE q[i] # r[j]
      BY Zenon DEF Apart
    <3>1. ~slot[q[i]].dispatched
      BY Zenon, <1>5, <2>2
    <3>2. slot[r[j]].dispatched
      BY Zenon, <1>3 DEF RunnersLive
    <3> QED
      BY Zenon, <3>1, <3>2
  <2>5. runlist'[d] = q \o r
    BY Zenon, <1>4
  <2> HIDE DEF q, r
  <2>6. q \o r \in Seq(Slots) /\ Joins(q \o r, q, r) /\ NoRepeats(q \o r)
    BY Zenon, <2>1, <2>2, <2>3, <2>4, JoinedDistinct
  <2> QED
    BY ZenonT(60), <2>2, <2>5, <2>6 DEF r, Joins, NoRepeats
<1>11. Types'
  <2>1. runlist' \in [Cpus -> Seq(Slots)]
    BY Zenon, <1>4, <1>10
  <2> QED
    BY Zenon, <2>1, <1>1, <1>8, <1>9 DEF IInv, Types, OthersKept
<1>12. ASSUME NEW d \in Cpus, NEW i \in 1 .. Len(runlist'[d])
       PROVE  LET s == runlist'[d][i]
              IN s \in Slots /\ Live(s) /\ slot'[s].dispatched /\ slot[s].cpu = d
  <2> DEFINE s == runlist'[d][i]
  <2>1. CASE s \in Of(d)
    BY Zenon, <2>1, <1>5, <1>7
  <2>2. CASE \E k \in 1 .. Len(runlist[d]) : s = runlist[d][k]
    <3>1. s \in Slots
      BY SMTT(30), <2>2, <1>3
    <3>2. Live(s) /\ slot[s].dispatched /\ slot[s].cpu = d
      BY SMTT(60), <2>2, <1>3 DEF RunnersLive, Live
    <3> QED
      BY Zenon, <3>1, <3>2, <1>7
  <2> QED
    BY Zenon, <2>1, <2>2, <1>10
<1>13. RunnersLive'
  <2> SUFFICES ASSUME NEW d \in Cpus, NEW i \in 1 .. Len(runlist'[d])
               PROVE  /\ slot'[runlist'[d][i]].p # NULL
                      /\ slot'[runlist'[d][i]].dispatched
                      /\ slot'[runlist'[d][i]].cpu = d
                      /\ \A j \in 1 .. Len(runlist'[d]) :
                           runlist'[d][j] = runlist'[d][i] => j = i
    BY ZenonT(60) DEF RunnersLive
  <2> QED
    BY SMTT(30), <1>7, <1>10, <1>12 DEF Live
<1>14. TablePart'
  <2>1. StillMinds(c)
    BY Zenon, <1>1 DEF StillMinds, Minds, Arming
  <2> QED
    BY Zenon, <2>1, <1>1, <1>9, TableSame
<1>15. SlotPart'
  <2>1. ASSUME NEW s \in Slots PROVE SlotOk(s)'
    <3>1. SlotOk(s) /\ (s \in new => slot[s].e = e)
      BY Zenon, <1>3, <1>5
    <3>2. /\ slot'[s].p = slot[s].p /\ slot'[s].e = slot[s].e
          /\ slot'[s].dispatched => slot[s].dispatched \/ s \in new
      BY Zenon, <1>7
    <3> QED
      BY Zenon, <3>1, <3>2, <1>1, <1>2 DEF SlotOk, Live
  <2>2. ASSUME NEW d \in Cpus PROVE RunnerOk(d)'
    <3> SUFFICES ASSUME cpu'[d].s # NULL PROVE RunnerOk(d)'
      BY Zenon DEF RunnerOk
    <3> DEFINE s == cpu[d].s
    <3>1. cpu'[d] = cpu[d] /\ RunnerOk(d)
      BY Zenon, <1>3, <1>9 DEF OthersKept
    <3>2. /\ s \in Slots /\ Live(s) /\ slot[s].dispatched /\ slot[s].cpu = d
          /\ \A i \in 1 .. Len(runlist[d]) : runlist[d][i] # s
      BY Zenon, <3>1 DEF RunnerOk
    <3>3. s \notin new
      BY Zenon, <3>2, <1>5
    <3>4. \A i \in 1 .. Len(runlist'[d]) : runlist'[d][i] # s
      BY SMTT(30), <3>2, <3>3, <1>10
    <3>5. slot'[s].p = slot[s].p /\ slot'[s].e = slot[s].e /\ slot'[s].cpu = d
          /\ slot'[s].dispatched
      BY Zenon, <3>2, <1>7
    <3> QED
      BY ZenonT(60), <3>1, <3>2, <3>4, <3>5, <1>1 DEF RunnerOk, Live
  <2> QED
    BY Zenon, <2>1, <2>2, <1>13 DEF SlotPart
<1>16. PacketPart'
  <2>1. \A s \in Slots : slot'[s].p # NULL => slot'[s].p = slot[s].p
    BY Zenon, <1>7
  <2> QED
    BY Zenon, <2>1, <1>1, <1>9, PacketsKept DEF IInv
<1> QED
  BY Zenon, <1>11, <1>14, <1>15, <1>16 DEF IInv

-----------------------------------------------------------------------------
(* arp_timer_handler frees the packets that wait, when none of them is on   *)
(* its way through a run list.                                              *)
LEMMA DropKeeps ==
  ASSUME IInv, NEW c \in Cpus, Drop(c)
  PROVE  IInv'
<1> DEFINE e == cpu[c].e
           W == Waiting(e)
<1>1. CASE \E s \in W : slot[s].dispatched
  BY Zenon, <1>1, BreakKeeps DEF Drop
<1>2. CASE \A s \in W : ~slot[s].dispatched
  <2>1. /\ cpu[c].pc = "drop" /\ cpu[c].pc \in Working /\ cpu[c].pc # "mac"
        /\ pkt' = [p \in Pkts |-> IF \E s \in W : slot[s].p = p THEN "freed" ELSE pkt[p]]
        /\ slot' = [s \in Slots |-> IF s \in W THEN NoSlot ELSE slot[s]]
        /\ Go(c, "unlink")
        /\ UNCHANGED <<arp_tbl, entry, arp_lock, arp_send_pkt_lock, runlist>>
    BY Zenon, <1>2 DEF Drop, At, table, locks, Working
  <2>2. /\ cpu \in [Cpus -> CallType] /\ CallOk(c) /\ e \in arp_tbl /\ e # NULL
        /\ entry[e].addr = cpu[c].a /\ cpu[c].s = NULL /\ cpu[c].a \in Addrs
        /\ cpu[c].a \notin Static /\ MindsOnly(c, e)
    BY Zenon, <2>1, WorkFacts DEF CallOk, Tied
  <2>3. GoesOn(c, e, "unlink")
    BY Zenon, <2>1, <2>2, GoGoes DEF Calls
  <2>4. CallOk(c)' /\ HoldsLess(c) /\ OthersKept(c) /\ cpu'[c].s = NULL
    BY Zenon, <2>1, <2>2, <2>3 DEF GoesOn, CallOk, Working, Tied, HoldsLess, Holds
  <2>5. StillMinds(c)
    BY Zenon, <2>2, <2>3 DEF StillMinds, Minds, MindsOnly, GoesOn
  <2>6. NoSlot \in SlotType /\ NoSlot.p = NULL
    BY Zenon DEF NoSlot, SlotType
  <2>7. \A s \in Slots : s \in W <=> Live(s) /\ slot[s].e = e
    BY Zenon DEF Waiting, Live
  <2>8. W \subseteq Slots
    BY Zenon DEF Waiting
  <2> HIDE DEF W, e
  <2>9. /\ slot' \in [Slots -> SlotType]
        /\ \A s \in Slots : /\ s \in W => slot'[s].p = NULL
                            /\ s \notin W => slot'[s] = slot[s]
    BY Zenon, <2>1, <2>6 DEF IInv, Types
  <2>10. \A q \in Pkts : pkt'[q] = pkt[q]
           \/ (pkt'[q] = "freed" /\ \E s \in W : slot[s].p = q)
    BY Zenon, <2>1
  <2>11. pkt' \in [Pkts -> PktStates]
    BY Zenon, <2>1 DEF IInv, Types, PktStates
  <2>12. Types'
    BY Zenon, <2>1, <2>4, <2>9, <2>11 DEF IInv, Types, OthersKept
  <2>13. TablePart'
    BY Zenon, <2>1, <2>4, <2>5, TableSame
  <2>14. /\ RunnersLive /\ runlist \in [Cpus -> Seq(Slots)]
         /\ (\A t \in Slots : SlotOk(t)) /\ \A d \in Cpus : RunnerOk(d)
    BY Zenon DEF IInv, SlotPart, Types
  <2>15. SlotPart'
    <3>1. \A d \in Cpus : \A i \in 1 .. Len(runlist[d]) :
            runlist[d][i] \in Slots /\ slot'[runlist[d][i]] = slot[runlist[d][i]]
      <4> SUFFICES ASSUME NEW d \in Cpus, NEW i \in 1 .. Len(runlist[d])
                   PROVE  /\ runlist[d][i] \in Slots
                          /\ slot'[runlist[d][i]] = slot[runlist[d][i]]
        BY Zenon
      <4>1. runlist[d][i] \in Slots
        BY <2>14
      <4>2. slot[runlist[d][i]].dispatched
        BY Zenon, <2>14 DEF RunnersLive
      <4> QED
        BY Zenon, <4>1, <4>2, <1>2, <2>9
    <3>2. RunnersLive'
      BY SMTT(30), <3>1, <2>1, <2>14 DEF RunnersLive
    <3>3. ASSUME NEW s \in Slots PROVE SlotOk(s)'
      <4>1. CASE s \in W
        BY Zenon, <4>1, <2>9 DEF SlotOk, Live
      <4>2. CASE s \notin W
        <5>1. SlotOk(s) /\ slot'[s] = slot[s]
          BY Zenon, <4>2, <2>9, <2>14
        <5> QED
          BY Zenon, <5>1, <2>1 DEF SlotOk, Live
      <4> QED
        BY Zenon, <4>1, <4>2
    <3>4. ASSUME NEW d \in Cpus PROVE RunnerOk(d)'
      <4> SUFFICES ASSUME cpu'[d].s # NULL PROVE RunnerOk(d)'
        BY Zenon DEF RunnerOk
      <4>1. cpu'[d] = cpu[d] /\ RunnerOk(d)
        BY Zenon, <2>4, <2>14 DEF OthersKept
      <4>2. cpu[d].s \in Slots /\ slot[cpu[d].s].dispatched
        BY Zenon, <4>1 DEF RunnerOk
      <4>3. slot'[cpu[d].s] = slot[cpu[d].s]
        BY Zenon, <4>2, <1>2, <2>9
      <4> QED
        BY Zenon, <4>1, <4>3, <2>1 DEF RunnerOk, Live
    <3> QED
      BY Zenon, <3>2, <3>3, <3>4 DEF SlotPart
  <2>16. PacketPart'
    <3>1. \A s, t \in Slots : Live(s) /\ slot[s].p = slot[t].p => s = t
      BY Zenon DEF IInv, PacketPart
    <3>2. ASSUME NEW s \in Slots, slot'[s].p # NULL
          PROVE  slot'[s] = slot[s] /\ Live(s) /\ slot[s].p \in Pkts
      BY Zenon, <3>2, <2>9 DEF IInv, Types, SlotType, Live
    <3>3. ASSUME NEW s \in Slots, slot'[s].p # NULL
          PROVE  pkt'[slot'[s].p] \in {"waiting", "sent", "freed"}
      <4>1. pkt[slot[s].p] \in {"waiting", "sent", "freed"}
        BY Zenon, <3>2, <3>3 DEF IInv, PacketPart
      <4> QED
        BY Zenon, <4>1, <3>2, <3>3, <2>10
    <3>4. ASSUME NEW s \in Slots, NEW t \in Slots, slot'[s].p # NULL, slot'[s].p = slot'[t].p
          PROVE  s = t
      <4>1. slot'[s] = slot[s] /\ slot'[t] = slot[t] /\ Live(s)
        BY Zenon, <3>2, <3>4
      <4> QED
        BY Zenon, <4>1, <3>1, <3>4
    <3>5. ASSUME NEW d \in Cpus, Holds(d)'
          PROVE  Holds(d) /\ cpu'[d].p = cpu[d].p /\ pkt'[cpu[d].p] = "stack"
      <4>1. Holds(d) /\ cpu'[d].p = cpu[d].p
        BY Zenon, <3>5, <2>4, OthersHold
      <4>2. /\ cpu[d].p \in Pkts /\ pkt[cpu[d].p] = "stack"
            /\ \A s \in Slots : Live(s) => slot[s].p # cpu[d].p
        BY Zenon, <4>1, HeldAlone
      <4>3. \A s \in W : slot[s].p # cpu[d].p
        BY Zenon, <4>2, <2>7, <2>8
      <4> QED
        BY Zenon, <4>1, <4>2, <4>3, <2>10
    <3>6. \A d, b \in Cpus : Holds(d)' /\ Holds(b)' /\ cpu'[d].p = cpu'[b].p => d = b
      BY Zenon, <3>5 DEF IInv, PacketPart
    <3>7. LeaksNeedFullPool'
      BY Zenon, <2>10 DEF IInv, PacketPart, LeaksNeedFullPool
    <3> QED
      BY Zenon, <3>3, <3>4, <3>5, <3>6, <3>7 DEF PacketPart, Live
  <2> QED
    BY Zenon, <2>12, <2>13, <2>15, <2>16 DEF IInv
<1> QED
  BY Zenon, <1>1, <1>2

(* The table that arp_init and the static entries of the configuration      *)
(* leave.                                                                   *)
LEMMA InitRight ==
  ASSUME Init
  PROVE  IInv
<1> DEFINE Inj(f) == \A a, b \in Static : f[a] = f[b] => a = b
           at == CHOOSE f \in [Static -> Entries] : Inj(f)
           of(e) == CHOOSE a \in Static : at[a] = e
<1>1. at \in [Static -> Entries] /\ Inj(at)
  BY Zenon, ArpAssumption
<1>2. /\ arp_tbl = {at[a] : a \in Static}
      /\ entry = [e \in Entries |-> IF e \in arp_tbl THEN arp_insert(of(e)) ELSE NoEntry]
  BY Zenon DEF Init
<1> HIDE DEF at
<1>3. arp_tbl \subseteq Entries
  BY Zenon, <1>1, <1>2
<1>4. \A a \in Static : at[a] \in arp_tbl /\ of(at[a]) = a
  BY Zenon, <1>1, <1>2
<1>5. 0 \in Nat
  OBVIOUS
<1>6. ASSUME NEW a \in Static
      PROVE  /\ arp_insert(a) \in EntryType /\ arp_insert(a).addr = a
             /\ arp_insert(a).flags = {"VALID", "STATIC"} /\ arp_insert(a).timer = NULL
  <2>1. a \in Addrs
    BY Zenon, ArpAssumption
  <2> QED
    BY Zenon, <2>1, <1>5 DEF arp_insert, NoEntry, EntryType
<1>7. \A a \in Static : entry[at[a]] = arp_insert(a)
  BY Zenon, <1>2, <1>3, <1>4
<1>8. \A e \in arp_tbl : \E a \in Static : e = at[a]
  BY Zenon, <1>2
<1>9. ASSUME NEW e \in arp_tbl PROVE entry[e] \in EntryType /\ entry[e].addr \in Static
  <2>1. PICK a \in Static : e = at[a]
    BY Zenon, <1>8
  <2>2. entry[e] = arp_insert(a)
    BY Zenon, <2>1, <1>7
  <2> QED
    BY Zenon, <2>2, <1>6
<1>10. entry \in [Entries -> EntryType]
  <2>1. NoEntry \in EntryType
    BY Zenon, <1>5 DEF NoEntry, EntryType
  <2>2. \A e \in Entries : entry[e] \in EntryType
    BY Zenon, <2>1, <1>2, <1>9
  <2> QED
    BY Zenon, <1>2, <2>2
<1>11. /\ arp_lock = FALSE /\ arp_send_pkt_lock = NULL /\ slot = [s \in Slots |-> NoSlot]
       /\ runlist = [c \in Cpus |-> <<>>] /\ pkt = [p \in Pkts |-> "ready"]
       /\ cpu = [c \in Cpus |-> NoCall]
  BY Zenon DEF Init
<1>12. NoSlot \in SlotType /\ NoSlot.p = NULL
  BY Zenon DEF NoSlot, SlotType
<1>13. NoCall \in CallType /\ NoCall.pc = "idle" /\ NoCall.s = NULL /\ NoCall.e = NULL
  BY Zenon DEF NoCall, CallType, Calls
<1>14. Types
  <2>1. \A c \in Cpus : <<>> \in Seq(Slots)
    OBVIOUS
  <2> QED
    BY ZenonT(60), <2>1, <1>3, <1>10, <1>11, <1>12, <1>13 DEF Types, PktStates
<1>15. TablePart
  <2>1. OneEntry
    BY <1>6, <1>7, <1>8 DEF OneEntry
  <2>2. StaticStays
    BY SMTT(30), <1>4, <1>6, <1>7 DEF StaticStays, arp_lookup
  <2>3. Tended
    BY Zenon, <1>9 DEF Tended
  <2>4. /\ \A e \in arp_tbl : entry[e].addr \in Addrs
        /\ \A e \in arp_tbl : "STATIC" \in entry[e].flags => entry[e].addr \in Static
    BY Zenon, <1>9, ArpAssumption
  <2>5. ASSUME NEW c \in Cpus PROVE CallOk(c)
    <3>1. cpu[c] = NoCall
      BY Zenon, <1>11
    <3> QED
      BY Zenon, <3>1, <1>13 DEF CallOk, Working, Tied
  <2> QED
    BY Zenon, <2>1, <2>2, <2>3, <2>4, <2>5 DEF TablePart
<1>16. \A s \in Slots : ~Live(s)
  BY Zenon, <1>11, <1>12 DEF Live
<1>17. SlotPart
  <2>1. \A c \in Cpus : runlist[c] = <<>> /\ 1 .. Len(runlist[c]) = {}
    BY <1>11
  <2>2. RunnersLive
    BY Zenon, <2>1 DEF RunnersLive
  <2> QED
    BY Zenon, <2>2, <1>11, <1>13, <1>16 DEF SlotPart, SlotOk, RunnerOk
<1>18. PacketPart
  <2>1. LeaksNeedFullPool
    BY Zenon, <1>11 DEF LeaksNeedFullPool
  <2> QED
    BY Zenon, <2>1, <1>11, <1>13, <1>16 DEF PacketPart, Holds
<1> QED
  BY Zenon, <1>14, <1>15, <1>17, <1>18 DEF IInv

(* A step of any CPU or timer keeps the invariant of the table, of the      *)
(* calls in progress and of the packets.                                    *)
LEMMA NextKeeps ==
  ASSUME Sizes, IInv, [Next]_vars
  PROVE  IInv'
<1>1. CASE UNCHANGED vars
  BY Zenon, <1>1, Stutters DEF vars, table, locks
<1>2. ASSUME NEW c \in Cpus, Step(c) PROVE IInv'
  <2>1. CASE Lookup(c) \/ Create(c) \/ Search(c) \/ arp_lookup_mac(c) \/ Request(c)
    BY Zenon, <2>1, LookupKeeps, CreateKeeps, SearchKeeps, MacKeeps, RequestKeeps
  <2>2. CASE timer_add(c) \/ arp_add_pending_pkt(c) \/ arp_update_mac(c) \/ timer_mod(c)
             \/ Dispatch(c)
    BY Zenon, <2>2, TimerAddKeeps, AddKeeps, UpdateKeeps, TimerModKeeps, DispatchKeeps
  <2>3. CASE send_pending_pkt(c) \/ Retry(c) \/ Drop(c) \/ Unlink(c)
    BY Zenon, <2>3, FreeKeeps, RetryKeeps, DropKeeps, UnlinkKeeps
  <2> QED
    BY Zenon, <1>2, <2>1, <2>2, <2>3 DEF Step
<1>3. ASSUME NEW c \in Cpus, cpu_do_bookkeeping(c) PROVE IInv'
  BY Zenon, <1>3, BookkeepingKeeps
<1>4. ASSUME NEW c \in Cpus, NEW p \in Pkts, NEW a \in Addrs, ip_send_one(c, p, a)
      PROVE  IInv'
  BY Zenon, <1>4, SendKeeps
<1>5. ASSUME NEW c \in Cpus, NEW a \in Addrs, NEW t \in BOOLEAN, arp_input(c, a, t)
      PROVE  IInv'
  BY Zenon, <1>5, InputKeeps
<1>6. ASSUME NEW e \in Entries, Expire(e) PROVE IInv'
  BY Zenon, <1>6, HandlerKeeps DEF Expire
<1> QED
  BY Zenon, <1>1, <1>2, <1>3, <1>4, <1>5, <1>6 DEF Next

(* The invariant has what the runs check: ArpSound.                         *)
LEMMA InvSound ==
  ASSUME IInv
  PROVE  ArpSound
<1>1. TypeOK
  BY Zenon DEF IInv, Types, TypeOK, EntryType, SlotType, PktStates
<1>2. Watched
  BY Zenon DEF IInv, TablePart, Tended, SlotPart, SlotOk, Live, Watched
<1> QED
  BY Zenon, <1>1, <1>2 DEF IInv, TablePart, SlotPart, PacketPart, ArpSound

-----------------------------------------------------------------------------
INSTANCE FiniteSetTheorems

(* The pending packets and the packets are finite sets (ArpAssumption).     *)
LEMMA SizesRight == Sizes
<1>1. ASSUME NEW S \in SUBSET Slots PROVE Cardinality(S) \in Nat
  BY Zenon, ArpAssumption, FS_Subset, FS_CardinalityType
<1>2. ASSUME NEW p \in Pkts, NEW f \in [Slots -> Pkts \ {p}],
             \A s, t \in Slots : f[s] = f[t] => s = t
      PROVE  Cardinality(Slots) < Cardinality(Pkts)
  <2>1. f \in Injection(Slots, Pkts \ {p})
    BY Zenon, <1>2 DEF Injection, IsInjective
  <2>2. IsFiniteSet(Pkts \ {p}) /\ Cardinality(Pkts \ {p}) = Cardinality(Pkts) - 1
    BY Zenon, ArpAssumption, FS_RemoveElement
  <2>3. Cardinality(Slots) <= Cardinality(Pkts \ {p})
    BY Zenon, <2>1, <2>2, FS_Injection
  <2>4. Cardinality(Slots) \in Nat /\ Cardinality(Pkts) \in Nat
    BY Zenon, ArpAssumption, FS_CardinalityType
  <2> QED
    BY <2>2, <2>3, <2>4
<1> QED
  BY Zenon, <1>1, <1>2 DEF Sizes

(* The invariant of the table, of the calls in progress and of the packets, *)
(* for any number of CPUs that look up, answer and time out concurrently:   *)
(* arp_timer_handler and the other unlocked steps of arp.c come anywhere    *)
(* between the steps of the other CPUs.                                     *)
THEOREM ArpInvariant == Spec => []IInv
<1>1. Init => IInv
  BY Zenon, InitRight
<1>2. IInv /\ [Next]_vars => IInv'
  BY Zenon, SizesRight, NextKeeps
<1> QED
  BY <1>1, <1>2, PTL DEF Spec

(* Lookups of one address create one entry; an entry that is not static has *)
(* a pending timer or a call that is about to set it or to remove the entry,*)
(* and packets wait on such entries only; send_pending_pkt is given only    *)
(* live packets, each once; static entries stay; a packet is leaked only    *)
(* for want of room (dp/net/arp.c).  It holds up to the first step that     *)
(* uses what another CPU has freed or armed, where the model ends.          *)
THEOREM ArpIsSound == Spec => []ArpSound
<1>1. IInv => ArpSound
  BY Zenon, InvSound
<1> QED
  BY <1>1, ArpInvariant, PTL
=============================================================================
