----------------------------- MODULE TcpReceive -----------------------------
(***************************************************************************)
(* The receiving half of a TCP connection (dp/net/tcp_in.c, tcp.c): the     *)
(* window, the queue of segments received out of order, delayed             *)
(* acknowledgements, data refused by the application and the announcements  *)
(* of the window.  The peer sends any piece of its stream that the window   *)
(* it was told admits, again and in any order; acknowledgements get lost.   *)
(* A byte of the stream is its position, 0 .. N - 1; the FIN is at N.       *)
(***************************************************************************)
EXTENDS Integers, FiniteSets, Sequences

CONSTANTS
  N,                         \* length of the peer's stream
  TCP_WND, MSS,
  THRESHOLD,                 \* TCP_WND_UPDATE_THRESHOLD
  UNIT                       \* 2^rcv_scale, the unit of the announced window

ASSUME TcpReceiveAssumption ==
  {N, TCP_WND, MSS, THRESHOLD, UNIT} \subseteq Nat \ {0}

VARIABLES
  pcb,          \* the receiver's fields of struct tcp_pcb
  got, used,    \* bytes passed to the application, and how many it is done with
  closed,       \* the application was told of the FIN
  una, told     \* the peer: acknowledged, and the right edge of its window

vars == <<pcb, got, used, closed, una, told>>

Larger(a, b) == IF a > b THEN a ELSE b
Smaller(a, b) == IF a < b THEN a ELSE b

(* struct tcp_seg: seq, the bytes, and whether the FIN follows them.        *)
Segment(s, e, f) == [seq |-> s, d |-> [i \in 1 .. e - s |-> s + i - 1], fin |-> f]
len(s) == Len(s.d)
TCPLEN(s) == len(s) + (IF s.fin THEN 1 ELSE 0)
Cut(s, n) == [s EXCEPT !.d = SubSeq(s.d, 1, n)]

Init ==
  /\ pcb = [nxt |-> 0, wnd |-> TCP_WND, ann |-> TCP_WND, edge |-> TCP_WND,
            ooseq |-> <<>>, refused |-> <<>>, rfin |-> FALSE,
            delack |-> FALSE, eof |-> FALSE]
  /\ got = <<>> /\ used = 0 /\ closed = FALSE
  /\ una = 0 /\ told = (TCP_WND \div UNIT) * UNIT

-----------------------------------------------------------------------------

(* tcp_update_rcv_ann_wnd that announces the half of what is free.          *)
tcp_update_rcv_ann_wnd_half(c) == [c EXCEPT !.ann = c.wnd \div 2]

(* tcp_update_rcv_ann_wnd: the right edge moves by MSS or more, or stays.   *)
Inflated(c) == c.nxt + c.wnd >= c.edge + Smaller(TCP_WND \div 2, MSS)
tcp_update_rcv_ann_wnd(c) ==
  [c EXCEPT !.ann = IF Inflated(c) THEN c.wnd ELSE Larger(0, c.edge - c.nxt)]
wnd_inflation(c) == IF Inflated(c) THEN c.nxt + c.wnd - c.edge ELSE 0

(* tcp_output_alloc_header and tcp_send_empty_ack, and what the peer learns *)
(* of it unless it is lost.                                                 *)
tcp_output_alloc_header(c) == [c EXCEPT !.edge = c.nxt + c.ann]
tcp_send_empty_ack(c) == [tcp_output_alloc_header(c) EXCEPT !.delack = FALSE]
PeerHears(c, sent, lost) ==
  IF sent /\ ~lost
  THEN /\ una' = Larger(una, c.nxt)
       /\ told' = Larger(told, c.nxt + (c.ann \div UNIT) * UNIT)
  ELSE UNCHANGED <<una, told>>

-----------------------------------------------------------------------------

(* The segments at the head of a queue that end at or before a position.    *)
Covered(q, end) ==
  CHOOSE k \in 0 .. Len(q) :
    /\ \A i \in 1 .. k : q[i].seq + len(q[i]) <= end
    /\ k = Len(q) \/ q[k + 1].seq + len(q[k + 1]) > end
AfterCovered(q, end) == SubSeq(q, Covered(q, end) + 1, Len(q))
TakesFin(q, end) == \E i \in 1 .. Covered(q, end) : q[i].fin

(* tcp_oos_insert_segment that leaves the overlap with the next segment.    *)
tcp_oos_insert_segment_whole(s, q) ==
  IF s.fin THEN <<s>>
  ELSE LET end == s.seq + len(s)
       IN <<[s EXCEPT !.fin = TakesFin(q, end)]>> \o AfterCovered(q, end)

(* tcp_oos_insert_segment: the segment replaces the ones it covers and is   *)
(* cut where the next one begins.                                           *)
tcp_oos_insert_segment(s, q) ==
  IF s.fin THEN <<s>>
  ELSE LET end == s.seq + len(s)
           rest == AfterCovered(q, end)
           whole == [s EXCEPT !.fin = TakesFin(q, end)]
       IN IF rest # <<>> /\ end > Head(rest).seq
          THEN <<Cut(whole, Head(rest).seq - s.seq)>> \o rest
          ELSE <<whole>> \o rest

(* The queue up to position k, its last segment left to overlap s.          *)
Before_whole(q, k, s) == SubSeq(q, 1, k)

(* The queue up to position k, its last segment cut where s begins.         *)
Before(q, k, s) ==
  IF k > 0 /\ q[k].seq + len(q[k]) > s.seq
  THEN Append(SubSeq(q, 1, k - 1), Cut(q[k], s.seq - q[k].seq))
  ELSE SubSeq(q, 1, k)

(* A segment appended to the queue is cut at the end of the window.         *)
CutToWindow(c, s) ==
  IF s.seq + TCPLEN(s) > c.nxt + c.wnd
  THEN [Cut(s, c.nxt + c.wnd - s.seq) EXCEPT !.fin = FALSE]
  ELSE s

(* tcp_receive, the segment is out of sequence: it is put in ooseq.         *)
Queue(c, s) ==
  LET q == c.ooseq
      k == Cardinality({i \in DOMAIN q : q[i].seq < s.seq})
      after == SubSeq(q, k + 1, Len(q))
  IN [c EXCEPT !.ooseq =
       IF q = <<>> THEN <<s>>
       ELSE IF after # <<>> /\ Head(after).seq = s.seq
       THEN IF len(s) > len(Head(after))
            THEN SubSeq(q, 1, k) \o tcp_oos_insert_segment(s, after)
            ELSE q
       ELSE IF after # <<>>
       THEN Before(q, k, s) \o tcp_oos_insert_segment(s, after)
       ELSE IF q[k].fin THEN q
       ELSE Append(Before(q, k, s), CutToWindow(c, s))]

(* tcp_receive, the segment is in sequence: it is cut to the window and to  *)
(* what ooseq has, and the segments of ooseq that follow it are taken.      *)
Trimmed(c, s) ==
  IF TCPLEN(s) > c.wnd THEN [Cut(s, c.wnd) EXCEPT !.fin = FALSE] ELSE s
Consecutive(q, from) ==
  CHOOSE k \in 0 .. Len(q) :
    LET begins(i) == q[i].seq = (IF i = 1 THEN from
                                 ELSE q[i - 1].seq + TCPLEN(q[i - 1]))
    IN /\ \A i \in 1 .. k : begins(i)
       /\ k = Len(q) \/ ~begins(k + 1)

(* The bytes of segments, one after the other.                              *)
Text(t) ==
  LET data[i \in 0 .. Len(t)] == IF i = 0 THEN <<>> ELSE data[i - 1] \o t[i].d
  IN data[Len(t)]

InSequence(c, s) ==
  LET end == s.seq + TCPLEN(s)
      rest == IF s.fin THEN <<>> ELSE AfterCovered(c.ooseq, end)
      joined == [s EXCEPT !.fin = s.fin \/ TakesFin(c.ooseq, end)]
      piece == IF rest # <<>> /\ end > Head(rest).seq
               THEN Cut(joined, Head(rest).seq - s.seq) ELSE joined
      k == Consecutive(rest, s.seq + TCPLEN(piece))
      taken == <<piece>> \o SubSeq(rest, 1, k)
      last == taken[Len(taken)]
      total == last.seq + TCPLEN(last) - s.seq
  IN [pcb |-> tcp_update_rcv_ann_wnd(
         [c EXCEPT !.nxt = c.nxt + total, !.wnd = c.wnd - total,
                   !.ooseq = SubSeq(rest, k + 1, Len(rest))]),
      data |-> Text(taken),
      fin |-> \E i \in DOMAIN taken : taken[i].fin,
      sent |-> FALSE, now |-> c.delack]

(* tcp_receive on the text of a segment: cut at the front if it overlaps    *)
(* what was received, then in sequence, out of sequence or outside.         *)
FrontCut(c, s) ==
  IF c.nxt \in s.seq + 1 .. s.seq + TCPLEN(s) - 1
  THEN [s EXCEPT !.seq = c.nxt, !.d = SubSeq(s.d, c.nxt - s.seq + 1, len(s))]
  ELSE s

(* tcp_receive that takes a repeated segment for one to be ignored.         *)
tcp_receive_silent(c, s0) ==
  LET s == FrontCut(c, s0)
      none == [pcb |-> c, data |-> <<>>, fin |-> FALSE, sent |-> FALSE, now |-> FALSE]
  IN IF c.eof \/ s.seq \notin c.nxt .. c.nxt + c.wnd - 1 THEN none
     ELSE IF s.seq # c.nxt
     THEN [none EXCEPT !.pcb = Queue(tcp_send_empty_ack(c), s), !.sent = TRUE]
     ELSE InSequence(c, Trimmed(c, s))

tcp_receive(c, s0) ==
  LET s == FrontCut(c, s0)
      none == [pcb |-> c, data |-> <<>>, fin |-> FALSE, sent |-> FALSE, now |-> FALSE]
  IN IF c.eof
     THEN [none EXCEPT !.now = s0.seq \notin c.nxt .. c.nxt + c.wnd - 1]
     ELSE IF s.seq \notin c.nxt .. c.nxt + c.wnd - 1
     THEN [none EXCEPT !.pcb = tcp_send_empty_ack(c), !.sent = TRUE]
     ELSE IF s.seq # c.nxt
     THEN [none EXCEPT !.pcb = Queue(tcp_send_empty_ack(c), s), !.sent = TRUE]
     ELSE InSequence(c, Trimmed(c, s))

(* A segment out of sequence is acknowledged but not kept when tcp_seg_copy *)
(* finds no memory for it.                                                  *)
NotCopied(c) ==
  [pcb |-> tcp_send_empty_ack(c), data |-> <<>>, fin |-> FALSE, sent |-> TRUE, now |-> FALSE]
Outcomes(c, s) ==
  {tcp_receive(c, s)} \cup
  {r \in {NotCopied(c)} : ~c.eof /\ FrontCut(c, s).seq \in c.nxt + 1 .. c.nxt + c.wnd - 1}

(* tcp_ack: the second segment in a row is acknowledged at once.            *)
tcp_ack(r) == IF r.data = <<>> /\ ~r.fin THEN r.pcb
              ELSE [r.pcb EXCEPT !.delack = ~r.now]

-----------------------------------------------------------------------------

(* The application is told of the FIN, whose place in the window is free    *)
(* again.                                                                   *)
Closed(c) == [c EXCEPT !.rfin = FALSE,
                       !.wnd = IF c.wnd # TCP_WND THEN c.wnd + 1 ELSE c.wnd]

(* tcp_process_refused_data: what was refused is offered again.             *)
Accepted(c) ==
  IF c.rfin THEN Closed([c EXCEPT !.refused = <<>>]) ELSE [c EXCEPT !.refused = <<>>]
tcp_process_refused_data(ok) ==
  IF ok /\ pcb.refused # <<>> THEN Accepted(pcb) ELSE pcb

(* The data, then the FIN, go to the application, which takes the data or   *)
(* refuses them; a FIN behind refused data waits with them.                 *)
Deliver(c, r, ok) ==
  LET kept == [c EXCEPT !.refused = IF ok THEN <<>> ELSE r.data, !.eof = c.eof \/ r.fin]
  IN IF ~r.fin THEN kept
     ELSE IF kept.refused # <<>> THEN [kept EXCEPT !.rfin = TRUE] ELSE Closed(kept)

(* tcp_input of a segment: refused data first (the segment is dropped when  *)
(* they are refused again), tcp_process, the application, tcp_output.       *)
tcp_input(s, again, ok, lost) ==
  \E c \in {tcp_process_refused_data(again)} :
    IF c.refused # <<>> THEN UNCHANGED vars
    ELSE \E r \in Outcomes(c, s) :
         \E d \in {Deliver(tcp_ack(r), r, ok)} :
           LET acknow == r.now \/ r.fin
           IN /\ pcb' = IF acknow THEN tcp_send_empty_ack(d) ELSE d
              /\ PeerHears(d, acknow \/ r.sent, lost)
              /\ got' = got \o pcb.refused \o (IF ok THEN r.data ELSE <<>>)
              /\ closed' = (closed \/ pcb.rfin \/ (r.fin /\ ~d.rfin))
              /\ UNCHANGED used

(* What the peer may send: a piece of its stream inside the window it was   *)
(* told, from any place (a repetition, or out of order), or a probe of one  *)
(* byte beyond it.                                                          *)
PeerSends(s) ==
  \/ s.seq + TCPLEN(s) <= told
  \/ TCPLEN(s) = 1 /\ s.seq = una
Pieces ==
  {s \in {Segment(b, e, e = N /\ f) : b, e \in 0 .. N, f \in BOOLEAN} :
     TCPLEN(s) > 0 /\ (s.fin => s.seq + len(s) = N)}

Segments ==
  \E s \in Pieces, again, ok, lost \in BOOLEAN :
    PeerSends(s) /\ tcp_input(s, again, ok, lost)

(* bsys_tcp_recv_done and tcp_recved: the application is done with n bytes. *)
(* A significant growth of the window is announced at once.                 *)
tcp_recved(n, lost) ==
  LET c == tcp_update_rcv_ann_wnd([pcb EXCEPT !.wnd = Smaller(TCP_WND, pcb.wnd + n)])
      tell == wnd_inflation(c) >= THRESHOLD
  IN /\ n \in 1 .. Len(got) - used
     /\ used' = used + n
     /\ pcb' = IF tell THEN tcp_send_empty_ack(c) ELSE c
     /\ PeerHears(c, tell, lost)
     /\ UNCHANGED <<got, closed>>

(* tcp_unified_timer_handler: the delayed acknowledgement is due.           *)
DelayedAck(lost) ==
  /\ pcb.delack
  /\ pcb' = tcp_send_empty_ack(pcb)
  /\ PeerHears(pcb, TRUE, lost)
  /\ UNCHANGED <<got, used, closed>>

(* tcp_fasttmr: refused data are offered again.                             *)
tcp_fasttmr(ok) ==
  LET c == tcp_process_refused_data(ok)
  IN /\ pcb.refused # <<>>
     /\ pcb' = c
     /\ got' = IF ok THEN got \o pcb.refused ELSE got
     /\ closed' = (closed \/ (pcb.rfin /\ ok))
     /\ UNCHANGED <<used, una, told>>

(* tcp_slowtmr: ooseq is dropped when the connection has been idle.         *)
DropOoseq ==
  /\ pcb.ooseq # <<>>
  /\ pcb' = [pcb EXCEPT !.ooseq = <<>>]
  /\ UNCHANGED <<got, used, closed, una, told>>

Next ==
  \/ Segments
  \/ \E n \in 1 .. TCP_WND, lost \in BOOLEAN : tcp_recved(n, lost)
  \/ \E lost \in BOOLEAN : DelayedAck(lost)
  \/ \E ok \in BOOLEAN : tcp_fasttmr(ok)
  \/ DropOoseq

(* The peer repeats the byte it waits for until it is acknowledged (beyond  *)
(* the window as a probe); an acknowledgement gets through in the end; the  *)
(* timers run, and the application takes its data and is done with them.    *)
Fairness ==
  /\ \A p \in 0 .. N :
       SF_vars(/\ una = p
               /\ tcp_input(Segment(p, Smaller(p + 1, N), p = N), TRUE, TRUE, FALSE))
  /\ WF_vars(\E n \in 1 .. TCP_WND : tcp_recved(n, FALSE))
  /\ SF_vars(DelayedAck(FALSE))
  /\ SF_vars(tcp_fasttmr(TRUE))

Spec == Init /\ [][Next]_vars /\ Fairness

-----------------------------------------------------------------------------

TypeOK ==
  /\ pcb.nxt \in 0 .. N + 1 /\ pcb.wnd \in 0 .. TCP_WND
  /\ pcb.ann \in 0 .. TCP_WND /\ pcb.edge \in 0 .. N + 1 + TCP_WND
  /\ \A i \in DOMAIN pcb.ooseq : pcb.ooseq[i] \in [seq : 0 .. N, d : Seq(0 .. N), fin : BOOLEAN]
  /\ {pcb.rfin, pcb.delack, pcb.eof, closed} \subseteq BOOLEAN
  /\ used \in 0 .. Len(got) /\ una \in 0 .. N + 1

(* However segments overlap, repeat and overtake each other, what the       *)
(* application gets, with what it has refused, is the peer's stream without *)
(* a gap or a repetition up to rcv_nxt, and the end of it is told only      *)
(* after the last byte (tcp_receive, tcp_input).                            *)
InOrder ==
  /\ got \o pcb.refused = [i \in 1 .. Len(got) + Len(pcb.refused) |-> i - 1]
  /\ pcb.nxt = Len(got) + Len(pcb.refused) + (IF pcb.eof THEN 1 ELSE 0)
  /\ closed => Len(got) = N

(* ooseq holds segments beyond rcv_nxt in order, without overlap, each with *)
(* the bytes its sequence number promises, the FIN last (the trimming in    *)
(* tcp_receive and tcp_oos_insert_segment), and all of it fits the window   *)
(* ("tcp_receive: ooseq tcplen > rcv_wnd").                                 *)
OoseqSorted ==
  /\ \A i \in DOMAIN pcb.ooseq :
       LET s == pcb.ooseq[i]
           end == IF i = Len(pcb.ooseq) THEN pcb.nxt + pcb.wnd ELSE pcb.ooseq[i + 1].seq
       IN /\ s.seq > pcb.nxt /\ s.seq + TCPLEN(s) <= end
          /\ s.d = Segment(s.seq, s.seq + len(s), FALSE).d
          /\ s.fin => s.seq + len(s) = N
          /\ len(s) = 0 => s.fin

(* The window is what the application has not yet given back, counted once: *)
(* bytes it holds or has refused, and a FIN it has not been told of.        *)
WindowAccount ==
  pcb.wnd = TCP_WND - (Len(got) - used) - Len(pcb.refused)
                    - (IF pcb.rfin THEN 1 ELSE 0)

(* What was announced is still there to be used: the right edge that any    *)
(* announcement gave the peer never lies beyond the window.                 *)
EdgeKept == told <= pcb.edge /\ pcb.edge <= pcb.nxt + pcb.wnd

(* What the receiver promises the application and the peer at all times:    *)
(* the stream in order, a sound ooseq, an exact account of the window and   *)
(* announcements that hold (tcp_receive, tcp_recved).                       *)
ReceiverSound == TypeOK /\ InOrder /\ OoseqSorted /\ WindowAccount /\ EdgeKept

(* The announced right edge of the window never moves back                  *)
(* (tcp_update_rcv_ann_wnd).                                                *)
EdgeAdvances == [][pcb'.edge >= pcb.edge]_vars

(* The stream and its end reach the application, through lost               *)
(* acknowledgements, a closed window and lost updates of it.                *)
Arrives == <>(Len(got) = N /\ closed)

=============================================================================
