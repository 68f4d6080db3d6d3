------------------------------- MODULE TcpPcbs -------------------------------
(***************************************************************************)
(* The pcb lists of a flow group (tcp_impl.h, tcp.c) and how a segment      *)
(* finds its pcb (tcp_input): the hash table of active pcbs, the list of    *)
(* buckets in use, which is updated lazily, the bound, TIME_WAIT and        *)
(* listening pcbs, and the periodic timer that walks them.  A pcb's ports   *)
(* stand for its addresses; what segments do to a connection is in TcpConn. *)
(***************************************************************************)
EXTENDS Integers, SequencesExt

CONSTANTS
  Pcbs,       \* the pool
  Ports,      \* local ports
  Peers,      \* remote addresses and ports
  Listen,     \* the ports listened on
  Timeout     \* slow ticks before a pcb is removed

(* What the constants are.                                                  *)
TcpPcbsAssumption == Timeout \in Nat /\ Pcbs # {} /\ Listen \subseteq Ports

VARIABLES
  pcb,        \* of each element of the pool
  active_tbl, \* hash bucket to list
  active_buckets, tw_pcbs, bound_pcbs,
  tcpip_timer,  \* pending
  last,       \* the last segment without a pcb: its port, who took it
  crashed

lists == <<active_tbl, active_buckets, tw_pcbs, bound_pcbs>>
vars == <<pcb, lists, tcpip_timer, last, crashed>>

Buckets == {"even", "odd"}
None == [to |-> 0, dest |-> 0]
Free == [st |-> "free", local_port |-> 0, remote |-> 0, age |-> 0]

(* tcp_to_idx: the peers of a port share a bucket.                          *)
tcp_to_idx(local_port, remote) == IF local_port % 2 = 0 THEN "even" ELSE "odd"

Init ==
  /\ pcb = [p \in Pcbs |-> Free]
  /\ active_tbl = [b \in Buckets |-> <<>>]
  /\ active_buckets = <<>> /\ tw_pcbs = <<>> /\ bound_pcbs = <<>>
  /\ tcpip_timer = FALSE /\ last = None /\ crashed = FALSE

-----------------------------------------------------------------------------

(* The lists as one record, so that a handler can change them in turn.      *)
Lists == [tbl |-> active_tbl, buckets |-> active_buckets, tw |-> tw_pcbs, bound |-> bound_pcbs]
Set(l) ==
  /\ active_tbl' = l.tbl /\ active_buckets' = l.buckets
  /\ tw_pcbs' = l.tw /\ bound_pcbs' = l.bound
Without(s, x) == SelectSeq(s, LAMBDA y : y # x)

(* tcp_timer_needed.                                                        *)
tcp_timer_needed(l) == l.buckets # <<>> \/ l.tw # <<>>

(* hlist_del of a pcb, which leaves its bucket where it is.                 *)
hlist_del(l, p) ==
  [l EXCEPT !.tbl = [b \in Buckets |-> Without(@[b], p)],
            !.tw = Without(@, p), !.bound = Without(@, p)]

(* __TCP_RMV: the last pcb of a bucket takes the bucket off the list.       *)
TCP_RMV(l, p) ==
  [hlist_del(l, p) EXCEPT !.buckets = SelectSeq(@, LAMBDA b : l.tbl[b] # <<p>>)]

(* TCP_REG_ACTIVE that adds a bucket whenever it was empty.                 *)
TCP_REG_ACTIVE_again(l, p, b) ==
  [l EXCEPT !.buckets = IF l.tbl[b] = <<>> THEN <<b>> \o @ ELSE @, !.tbl[b] = <<p>> \o @]

(* TCP_REG_ACTIVE: an empty bucket may still be on the list.                *)
TCP_REG_ACTIVE(l, p, b) ==
  [l EXCEPT !.buckets = IF l.tbl[b] = <<>> /\ ~Contains(@, b) THEN <<b>> \o @ ELSE @,
            !.tbl[b] = <<p>> \o @]

-----------------------------------------------------------------------------

(* tcp_bind_checklist and tcp_bind: the port is in none of the lists.       *)
Bindable(port) ==
  \A p \in Pcbs : pcb[p].local_port = port => ~\E s \in {tw_pcbs, bound_pcbs} \cup
     {active_tbl[active_buckets[i]] : i \in DOMAIN active_buckets} : Contains(s, p)

(* bsys_tcp_connect: a pcb is allocated, bound and connected.  It fails if  *)
(* there is no handle (api) or the port is taken; tcp_abort then unlinks a  *)
(* pcb that was never linked.                                               *)
bsys_tcp_connect(port, remote, api) ==
  \E p \in Pcbs :
    /\ pcb[p].st = "free"
    /\ UNCHANGED last
    /\ IF api /\ Bindable(port)
       THEN LET bound == [Lists EXCEPT !.bound = <<p>> \o @]
                l == TCP_REG_ACTIVE(TCP_RMV(bound, p), p, tcp_to_idx(port, remote))
            IN /\ pcb' = [pcb EXCEPT ![p] = [st |-> "SYN_SENT", local_port |-> port,
                                             remote |-> remote, age |-> 0]]
               /\ Set(l) /\ tcpip_timer' = TRUE /\ UNCHANGED crashed
       ELSE crashed' = TRUE /\ UNCHANGED <<pcb, lists, tcpip_timer>>

-----------------------------------------------------------------------------

(* tcp_input_find_list.                                                     *)
tcp_input_find_list(s, port, remote) ==
  SelectSeq(s, LAMBDA p : pcb[p].local_port = port /\ pcb[p].remote = remote)

(* A pcb leaves its lists and is freed (tcp_pcb_remove, memp_free).         *)
tcp_pcb_remove(p) ==
  /\ pcb' = [pcb EXCEPT ![p] = Free]
  /\ Set(TCP_RMV(Lists, p))
  /\ UNCHANGED <<tcpip_timer, last, crashed>>

(* From an active list to that of TIME_WAIT.                                *)
TimeWait(p) ==
  /\ pcb' = [pcb EXCEPT ![p].st = "TIME_WAIT", ![p].age = 0]
  /\ LET l == TCP_RMV(Lists, p) IN Set([l EXCEPT !.tw = <<p>> \o @])
  /\ tcpip_timer' = TRUE
  /\ UNCHANGED <<last, crashed>>

(* tcp_process of an active pcb: the connection comes up, the peer ends it  *)
(* (with a reset or at the end of closing), or it goes to TIME_WAIT.        *)
tcp_process(p, flag) ==
  CASE flag = "rst" -> tcp_pcb_remove(p)
    [] flag = "fin" /\ pcb[p].st = "LAST_ACK" -> tcp_pcb_remove(p)
    [] flag = "fin" /\ pcb[p].st = "FIN_WAIT" -> TimeWait(p)
    [] OTHER -> /\ pcb' = [pcb EXCEPT ![p].age = 0,
                             ![p].st = IF flag = "ack" /\ @ \in {"SYN_SENT", "SYN_RCVD"}
                                       THEN "ESTABLISHED" ELSE @]
                /\ UNCHANGED <<lists, tcpip_timer, last, crashed>>

(* tcp_listen_input: a SYN makes a pcb with the listener's port, in the     *)
(* bucket of the segment.                                                   *)
tcp_listen_input(lport, dest, remote, flag) ==
  /\ last' = [to |-> lport, dest |-> dest]
  /\ IF flag = "syn"
     THEN \E p \in Pcbs :
            /\ pcb[p].st = "free"
            /\ pcb' = [pcb EXCEPT ![p] = [st |-> "SYN_RCVD", local_port |-> lport,
                                          remote |-> remote, age |-> 0]]
            /\ Set(TCP_REG_ACTIVE(Lists, p, tcp_to_idx(dest, remote)))
            /\ tcpip_timer' = TRUE
     ELSE UNCHANGED <<pcb, lists, tcpip_timer>>
  /\ UNCHANGED crashed

(* The walk of the listeners: it stops at the one of this port, and what it *)
(* leaves behind otherwise is the last of the list, whichever that is.      *)
lpcb(dest) == IF dest \in Listen THEN {dest} ELSE Listen

(* tcp_input: active, TIME_WAIT, listening, or a reset.                     *)
tcp_input(dest, remote, flag) ==
  LET found == tcp_input_find_list(active_tbl[tcp_to_idx(dest, remote)], dest, remote)
      waiting == tcp_input_find_list(tw_pcbs, dest, remote)
  IN IF found # <<>> THEN tcp_process(found[1], flag)
     ELSE IF waiting # <<>>
     THEN /\ flag = "fin"
          /\ pcb' = [pcb EXCEPT ![waiting[1]].age = 0]
          /\ UNCHANGED <<lists, tcpip_timer, last, crashed>>
     ELSE IF Listen = {} THEN UNCHANGED vars
     ELSE \E lport \in lpcb(dest) : tcp_listen_input(lport, dest, remote, flag)

-----------------------------------------------------------------------------

(* tcp_close: FIN_WAIT here is FIN_WAIT_1, FIN_WAIT_2 and CLOSING.          *)
tcp_close(p) ==
  /\ pcb[p].st \in {"SYN_SENT", "SYN_RCVD", "ESTABLISHED"}
  /\ \/ pcb[p].st = "SYN_SENT" /\ tcp_pcb_remove(p)
     \/ /\ pcb[p].st # "SYN_SENT"
        /\ \E st \in {"FIN_WAIT", "LAST_ACK"} : pcb' = [pcb EXCEPT ![p].st = st]
        /\ UNCHANGED <<lists, tcpip_timer, last, crashed>>
     \/ pcb[p].st = "ESTABLISHED" /\ TimeWait(p)

(* tcp_close_with_reset, tcp_abort.                                         *)
tcp_abort(p) == pcb[p].st \notin {"free", "CLOSED"} /\ tcp_pcb_remove(p)

(* tcp_unified_timer_handler gives up: pcb_remove_called_from_timer.        *)
GiveUp(p) ==
  /\ pcb[p].st \notin {"free", "CLOSED", "TIME_WAIT"}
  /\ pcb' = [pcb EXCEPT ![p] = Free]
  /\ Set(hlist_del(Lists, p))
  /\ UNCHANGED <<tcpip_timer, last, crashed>>

(* tcp_slowtmr: every pcb that is too old in its state; those in TIME_WAIT  *)
(* are looked at once for each bucket in use.                               *)
Expires(p) ==
  /\ pcb[p].age >= Timeout
  /\ \/ pcb[p].st \in {"SYN_RCVD", "FIN_WAIT", "LAST_ACK"}
     \/ pcb[p].st = "TIME_WAIT" /\ active_buckets # <<>>

(* tcpip_tcp_timer, on every other call of which tcp_slowtmr runs.          *)
tcpip_tcp_timer ==
  /\ tcpip_timer
  /\ LET l == FoldSet(LAMBDA p, k : hlist_del(k, p), Lists, {p \in Pcbs : Expires(p)})
     IN Set(l) /\ tcpip_timer' = tcp_timer_needed(l)
  /\ pcb' = [p \in Pcbs |-> IF Expires(p) THEN Free
                            ELSE [pcb[p] EXCEPT !.age = IF @ < Timeout /\ pcb[p].st # "free"
                                                        THEN @ + 1 ELSE @]]
  /\ UNCHANGED <<last, crashed>>

Next ==
  /\ ~crashed
  /\ \/ \E port \in Ports, r \in Peers, api \in BOOLEAN : bsys_tcp_connect(port, r, api)
     \/ \E port \in Ports, r \in Peers, flag \in {"syn", "ack", "fin", "rst"} :
          tcp_input(port, r, flag)
     \/ \E p \in Pcbs : tcp_close(p) \/ tcp_abort(p) \/ GiveUp(p)
     \/ tcpip_tcp_timer

Spec == Init /\ [][Next]_vars /\ WF_vars(~crashed /\ tcpip_tcp_timer)

-----------------------------------------------------------------------------

Where(p) ==
  {b \in Buckets : Contains(active_tbl[b], p)}
    \cup (IF Contains(tw_pcbs, p) THEN {"tw"} ELSE {})
    \cup (IF Contains(bound_pcbs, p) THEN {"bound"} ELSE {})

(* The axioms of tcp_impl.h: every pcb that is not closed is in one of the  *)
(* lists and in no other, once; those in TIME_WAIT in theirs; no list holds *)
(* a freed one.                                                             *)
ListAxioms ==
  /\ \A p \in Pcbs :
       /\ pcb[p].st = "free" => Where(p) = {}
       /\ pcb[p].st = "TIME_WAIT" => Where(p) = {"tw"}
       /\ pcb[p].st \notin {"free", "TIME_WAIT"} => \E b \in Buckets : Where(p) = {b}
  /\ \A s \in {tw_pcbs, bound_pcbs} \cup {active_tbl[b] : b \in Buckets} : IsInjective(s)

(* The list of buckets is lazy one way only: a bucket with a pcb is on it,  *)
(* so that the timers reach the pcb, and none is on it twice.               *)
BucketsLinked ==
  /\ IsInjective(active_buckets)
  /\ \A b \in Buckets : active_tbl[b] # <<>> => Contains(active_buckets, b)

(* A pcb is where tcp_input looks for it, and no other stands before it.    *)
Findable ==
  \A p \in Pcbs :
    pcb[p].st \notin {"free", "TIME_WAIT"} =>
      LET port == pcb[p].local_port
          r == pcb[p].remote
      IN /\ tcp_input_find_list(active_tbl[tcp_to_idx(port, r)], port, r) = <<p>>
         /\ tcp_input_find_list(tw_pcbs, port, r) = <<>>

(* The periodic timer is pending while there is a pcb for it to look at.    *)
TimerPending ==
  (\E p \in Pcbs : pcb[p].st \notin {"free", "CLOSED"}) => tcpip_timer

(* "If no matching PCB was found, send a TCP RST (reset) to the sender.":   *)
(* a listener takes segments for its own port only.                         *)
Refused == last # None => last.to = last.dest

(* tcp_abort: "The pcb is deallocated.  This function never fails.", also   *)
(* when bsys_tcp_connect calls it.                                          *)
Deleted == ~crashed

(* tcp_slowtmr "removes PCBs that have been in TIME-WAIT for enough time",  *)
(* unless the FIN is repeated, which restarts the time.                     *)
TimeWaitEnds ==
  \A p \in Pcbs : pcb[p].st = "TIME_WAIT" /\ pcb[p].age = Timeout
                    ~> (pcb[p].st # "TIME_WAIT" \/ pcb[p].age < Timeout \/ crashed)

=============================================================================
