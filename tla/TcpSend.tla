------------------------------- MODULE TcpSend -------------------------------
(***************************************************************************)
(* The sending half of a TCP connection (dp/net/tcp_out.c, the ACK part of  *)
(* tcp_receive in tcp_in.c, the retransmission and persist timers of        *)
(* tcp.c): segments built by tcp_write, the unsent and unacked queues,      *)
(* the congestion window, fast retransmission and the timer.  Segments are  *)
(* lost; acknowledgements are lost, delayed and reordered.  A byte is its   *)
(* position; the FIN takes the position after the last byte.                *)
(***************************************************************************)
EXTENDS Integers, FiniteSets, SequencesExt, FiniteSetsExt, Bags

CONSTANTS
  N, Sizes,              \* bytes the application sends, and sizes of its writes
  TCP_SND_BUF, TCP_SND_QUEUELEN, MSS, TCP_MAXRTX,
  W, UNIT,               \* the peer's buffer, the unit it announces windows in
  LOSSY,                 \* whether the network may lose
  MaxAcks,               \* acknowledgements in the network, more are lost
  MaxCwnd                \* cap of cwnd, larger than any window

(* What the constants are.                                                  *)
TcpSendAssumption ==
  /\ {N, TCP_SND_BUF, TCP_SND_QUEUELEN, MSS, TCP_MAXRTX, W, UNIT} \subseteq Nat \ {0}
  /\ Sizes \subseteq Nat \ {0} /\ LOSSY \in BOOLEAN
  /\ MaxCwnd > W /\ MaxCwnd > 5 * MSS

VARIABLES
  c,            \* the sender's fields of struct tcp_pcb
  sent,         \* bytes the application was told are sent (on_sent)
  gone,         \* the pcb has been removed after TCP_MAXRTX retransmissions
  acks,         \* bag of the acknowledgements in the network
  peer          \* positions received, bytes read

vars == <<c, sent, gone, acks, peer>>

Lower(a, b) == IF a < b THEN a ELSE b
Higher(a, b) == IF a > b THEN a ELSE b
Capped(w) == Lower(w, MaxCwnd)

(* struct tcp_seg: the bytes from seq on, the FIN, and how many pbufs.      *)
TCPLEN(s) == s.len + (IF s.fin THEN 1 ELSE 0)
End(s) == s.seq + TCPLEN(s)
clen(q) == FoldSeq(LAMBDA s, n : s.clen + n, 0, q)

Init ==
  /\ c = [unsent |-> <<>>, unacked |-> <<>>, nxt |-> 0, lastack |-> 0, lbb |-> 0,
          buf |-> TCP_SND_BUF, qlen |-> 0, wnd |-> (W \div UNIT) * UNIT,
          wndmax |-> (W \div UNIT) * UNIT, wl2 |-> 0, cwnd |-> 2 * MSS,
          ssthresh |-> W, nrtx |-> 0, dupacks |-> 0, infr |-> FALSE,
          rtx |-> FALSE, persist |-> FALSE, fin |-> FALSE, end |-> 0]
  /\ sent = 0 /\ gone = FALSE /\ acks = EmptyBag
  /\ peer = [got |-> {}, read |-> 0]

-----------------------------------------------------------------------------

(* The peer takes what lies in its window, acknowledges each segment and    *)
(* announces the room it has.  Of the segments given to it those in D       *)
(* arrive, in the order they are sent.                                      *)
Ack(p) == CHOOSE k \in 0 .. N + 1 : 0 .. k - 1 \subseteq p.got /\ k \notin p.got
Answer(p) == [ack |-> Ack(p), wnd |-> (W - (Lower(Ack(p), N) - p.read)) \div UNIT]
Taken(p, s) == [p EXCEPT !.got = @ \cup (s.seq .. Lower(End(s), p.read + W + 1) - 1)]
Sent(bag, a) == IF BagCardinality(bag) < MaxAcks THEN bag (+) SetToBag({a}) ELSE bag
Network(out, D, pending) ==
  LET after[i \in 0 .. Len(out)] ==
        IF i = 0 THEN peer
        ELSE IF i \in D THEN Taken(after[i - 1], out[i]) ELSE after[i - 1]
      answers[i \in 0 .. Len(out)] ==
        IF i = 0 THEN pending
        ELSE IF i \in D THEN Sent(answers[i - 1], Answer(after[i]))
        ELSE answers[i - 1]
  IN /\ peer' = after[Len(out)]
     /\ acks' = answers[Len(out)]
Arriving(k, all) == IF all \/ ~LOSSY THEN {1 .. k} ELSE SUBSET (1 .. k)

-----------------------------------------------------------------------------

(* tcp_create_segment: a segment and the number of its pbufs.               *)
tcp_create_segment(seq, len, fin, n) == [seq |-> seq, len |-> len, fin |-> fin, clen |-> n]

(* tcp_write of n bytes: the last unsent segment is filled up, the rest is  *)
(* cut into segments of a header pbuf and one that refers to the bytes.     *)
tcp_write_checks(p, n) == n <= p.buf /\ p.qlen < TCP_SND_QUEUELEN
mss_local(p) == Lower(MSS, p.wndmax \div 2)
Fill(p, n) ==
  IF p.unsent # <<>> /\ Last(p.unsent).len > 0
  THEN Lower(n, mss_local(p) - Last(p.unsent).len) ELSE 0
NewSegments(p, from, n) ==
  [i \in 1 .. (n + mss_local(p) - 1) \div mss_local(p) |->
     LET at == (i - 1) * mss_local(p)
     IN tcp_create_segment(p.lbb + from + at, Lower(mss_local(p), n - at), FALSE, 2)]
Filled(p, k) ==
  IF k = 0 THEN p.unsent
  ELSE Front(p.unsent) \o
       <<[Last(p.unsent) EXCEPT !.len = @ + k, !.clen = @ + 1]>>
Enqueued(p, n, unsent, qlen) ==
  [p EXCEPT !.unsent = unsent, !.lbb = @ + n, !.end = @ + n, !.buf = @ - n, !.qlen = qlen]

tcp_write(p, n) ==
  LET k == Fill(p, n)
      new == NewSegments(p, k, n - k)
      qlen == p.qlen + (IF k > 0 THEN 1 ELSE 0) + 2 * Len(new)
  IN IF tcp_write_checks(p, n) /\ (new # <<>> => qlen <= TCP_SND_QUEUELEN)
     THEN Enqueued(p, n, Filled(p, k) \o new, qlen)
     ELSE p

(* tcp_enqueue_flags with TCP_FIN, and tcp_send_fin, which puts the flag on *)
(* the last unsent segment if there is one.                                 *)
tcp_enqueue_flags(p) ==
  IF p.qlen >= TCP_SND_QUEUELEN \/ p.buf = 0 THEN p
  ELSE [p EXCEPT !.unsent = Append(@, tcp_create_segment(p.lbb, 0, TRUE, 1)),
                 !.lbb = @ + 1, !.buf = @ - 1, !.qlen = @ + 1, !.fin = TRUE]
tcp_send_fin(p) ==
  IF p.unsent # <<>>
  THEN [p EXCEPT !.unsent = Front(@) \o <<[Last(@) EXCEPT !.fin = TRUE]>>, !.fin = TRUE]
  ELSE tcp_enqueue_flags(p)

-----------------------------------------------------------------------------

(* A segment is put among the others by its sequence number.                *)
Insert(s, q) ==
  SelectSeq(q, LAMBDA x : x.seq < s.seq) \o <<s>>
    \o SelectSeq(q, LAMBDA x : x.seq >= s.seq)

(* tcp_output: the unsent segments inside the window of the peer and the    *)
(* congestion window are sent and wait in unacked; each restarts the        *)
(* retransmission timer (tcp_output_segment).                               *)
Sendable(p) ==
  CHOOSE k \in 0 .. Len(p.unsent) :
    LET fits(i) == p.unsent[i].seq - p.lastack + p.unsent[i].len <= Lower(p.wnd, p.cwnd)
    IN (\A i \in 1 .. k : fits(i)) /\ (k < Len(p.unsent) => ~fits(k + 1))

tcp_output_segment(p, s) ==
  [p EXCEPT !.rtx = TRUE, !.nxt = Higher(@, End(s)), !.unacked = Insert(s, @)]
AfterOutput(p, k) ==
  LET after[i \in 0 .. k] ==
        IF i = 0 THEN [p EXCEPT !.unsent = SubSeq(@, k + 1, Len(@))]
        ELSE tcp_output_segment(after[i - 1], p.unsent[i])
  IN after[k]
tcp_output(p, pending, all) ==
  \E k \in {Sendable(p)} :
    /\ c' = AfterOutput(p, k)
    /\ \E D \in Arriving(k, all) : Network(SubSeq(p.unsent, 1, k), D, pending)

(* bsys_tcp_sendv with two entries: each is cut to the free buffer, and     *)
(* what was written is sent.                                                *)
bsys_tcp_sendv(a, b) ==
  /\ ~gone /\ ~c.fin /\ c.end + a + b <= N
  /\ \E p \in {tcp_write(c, Lower(a, c.buf))} :
     \E q \in {IF b = 0 \/ p = c \/ a > c.buf \/ p.buf = 0 THEN p
               ELSE tcp_write(p, Lower(b, p.buf))} : q # c /\ tcp_output(q, acks, FALSE)
  /\ UNCHANGED <<sent, gone>>

(* tcp_close of an established connection.                                  *)
tcp_close ==
  /\ ~gone /\ ~c.fin
  /\ \E p \in {tcp_send_fin(c)} : p.fin /\ tcp_output(p, acks, FALSE)
  /\ UNCHANGED <<sent, gone>>

-----------------------------------------------------------------------------

(* One more retransmission; beyond TCP_MAXRTX the number has no further use. *)
nrtx(p) == Lower(p.nrtx + 1, TCP_MAXRTX + 1)

(* tcp_rexmit and tcp_rexmit_fast: the first unacked segment goes back to   *)
(* unsent and the congestion window is halved.                              *)
tcp_rexmit(p) ==
  [p EXCEPT !.unacked = Tail(@), !.unsent = Insert(Head(p.unacked), @), !.nrtx = nrtx(p)]
tcp_rexmit_fast(p) ==
  IF p.unacked = <<>> \/ p.infr THEN p
  ELSE LET half == (IF p.cwnd > p.wnd THEN p.wnd ELSE p.cwnd) \div 2
           ssthresh == Higher(half, 2 * MSS)
       IN [tcp_rexmit(p) EXCEPT !.ssthresh = ssthresh,
                                !.cwnd = Capped(ssthresh + 3 * MSS), !.infr = TRUE]

(* tcp_receive, the window: taken from the acknowledgement if it is newer,  *)
(* or repeats the last one with a larger number in its window field.        *)
Window(p, a) ==
  IF p.wl2 < a.ack \/ (p.wl2 = a.ack /\ a.wnd > p.wnd)
  THEN LET wnd == a.wnd * UNIT
       IN [p EXCEPT !.wnd = wnd, !.wndmax = Higher(@, wnd), !.wl2 = a.ack,
                    !.persist = @ /\ wnd = 0]
  ELSE p

(* The acknowledgement repeats the last one: the third time the first       *)
(* segment is sent again, after that the congestion window grows.           *)
Duplicate(p, a, edge) ==
  IF p.wl2 + p.wnd = edge /\ p.rtx /\ p.lastack = a.ack
  THEN LET n == Lower(p.dupacks + 1, 4)
           q == [p EXCEPT !.dupacks = n]
       IN IF n > 3 THEN [q EXCEPT !.cwnd = Capped(@ + MSS)]
          ELSE IF n = 3 THEN tcp_rexmit_fast(q) ELSE q
  ELSE [p EXCEPT !.dupacks = 0]

(* The segments at the head of a queue that an acknowledgement covers.      *)
Acked(q, ack) ==
  CHOOSE k \in 0 .. Len(q) :
    /\ \A i \in 1 .. k : End(q[i]) <= ack
    /\ k < Len(q) => End(q[k + 1]) > ack
Grown(p) ==
  IF p.cwnd < p.ssthresh THEN Capped(p.cwnd + MSS)
  ELSE Capped(p.cwnd + (MSS * MSS) \div p.cwnd)

(* NewAck that leaves the timer alone.                                      *)
NewAck_norestart(p, a) ==
  LET k == Acked(p.unacked, a.ack)
      q == [p EXCEPT !.cwnd = IF p.infr THEN p.ssthresh ELSE @, !.infr = FALSE]
  IN [q EXCEPT !.nrtx = 0, !.dupacks = 0, !.buf = @ + (a.ack - p.lastack),
               !.lastack = a.ack, !.cwnd = Grown(q),
               !.unacked = SubSeq(@, k + 1, Len(@)),
               !.qlen = @ - clen(SubSeq(p.unacked, 1, k)), !.rtx = FALSE]

(* The acknowledgement is new: room in the send buffer, the segments it     *)
(* covers leave unacked, and the timer starts again if any are left.        *)
NewAck(p, a) ==
  LET k == Acked(p.unacked, a.ack)
      q == [p EXCEPT !.cwnd = IF p.infr THEN p.ssthresh ELSE @, !.infr = FALSE]
  IN [q EXCEPT !.nrtx = 0, !.dupacks = 0, !.buf = @ + (a.ack - p.lastack),
               !.lastack = a.ack, !.cwnd = Grown(q),
               !.unacked = SubSeq(@, k + 1, Len(@)),
               !.qlen = @ - clen(SubSeq(p.unacked, 1, k)), !.rtx = k < Len(p.unacked)]

(* Segments that wait to be sent again and are covered leave unsent.        *)
UnsentAcked(p, a) ==
  LET k == IF a.ack <= p.nxt THEN Acked(p.unsent, a.ack) ELSE 0
  IN [p EXCEPT !.unsent = SubSeq(@, k + 1, Len(@)),
               !.qlen = @ - clen(SubSeq(p.unsent, 1, k))]

tcp_receive(p, a) ==
  LET w == Window(p, a)
      r == IF a.ack <= p.lastack THEN Duplicate(w, a, p.wnd + p.wl2)
           ELSE IF a.ack <= p.nxt THEN NewAck(w, a) ELSE w
  IN UnsentAcked(r, a)

(* tcp_input of an acknowledgement: tcp_receive, the application is told    *)
(* how many bytes (the FIN is none) are acknowledged, tcp_output.           *)
tcp_input(a) ==
  /\ BagIn(a, acks) /\ ~gone
  /\ \E p \in {tcp_receive(c, a)} :
       /\ tcp_output(p, acks (-) SetToBag({a}), FALSE)
       /\ sent' = sent + (p.lastack - c.lastack)
                       - (IF p.lastack > c.lastack /\ p.lastack > c.end THEN 1 ELSE 0)
  /\ UNCHANGED gone

-----------------------------------------------------------------------------

(* tcp_rexmit_rto: everything unacked is to be sent again.                  *)
tcp_rexmit_rto(p) ==
  [p EXCEPT !.unsent = p.unacked \o @, !.unacked = <<>>, !.nrtx = nrtx(p)]

(* tcp_unified_timer_handler, the retransmission: nothing while the window  *)
(* is zero; the pcb is removed after TCP_MAXRTX retransmissions.            *)
Retransmit(p) ==
  LET half == Lower(p.cwnd, p.wnd) \div 2
  IN tcp_rexmit_rto([p EXCEPT !.ssthresh = Higher(half, 2 * MSS), !.cwnd = MSS])

(* tcp_zero_window_probe: the first byte that is not acknowledged.          *)
tcp_zero_window_probe(p) ==
  LET s == Head(p.unacked \o p.unsent)
  IN <<IF s.len = 0 THEN s ELSE [s EXCEPT !.len = 1, !.fin = FALSE]>>

tcp_unified_timer_handler(all) ==
  /\ ~gone /\ (c.rtx \/ c.persist)
  /\ IF c.rtx /\ c.unacked # <<>> /\ c.wnd > 0
     THEN IF c.nrtx = TCP_MAXRTX
          THEN gone' = TRUE /\ UNCHANGED <<c, acks, peer>>
          ELSE tcp_output(Retransmit([c EXCEPT !.rtx = FALSE]), acks, all) /\ UNCHANGED gone
     ELSE /\ c' = [c EXCEPT !.rtx = @ /\ c.unacked # <<>>]
          /\ IF c.persist THEN Network(tcp_zero_window_probe(c), {1}, acks)
             ELSE UNCHANGED <<acks, peer>>
          /\ UNCHANGED gone
  /\ UNCHANGED sent

-----------------------------------------------------------------------------

(* The peer's application reads all that is in order, and the peer may tell  *)
(* of the room that makes.                                                   *)
Read(tell) ==
  /\ peer.read < Lower(Ack(peer), c.end)
  /\ peer' = [peer EXCEPT !.read = Lower(Ack(peer), c.end)]
  /\ acks' = IF tell THEN Sent(acks, Answer(peer')) ELSE acks
  /\ UNCHANGED <<c, sent, gone>>
Lose(a) ==
  /\ LOSSY /\ BagIn(a, acks)
  /\ acks' = acks (-) SetToBag({a})
  /\ UNCHANGED <<c, sent, gone, peer>>

AckSet == [ack : 0 .. N + 1, wnd : 0 .. W]

Next ==
  \/ \E a \in Sizes, b \in Sizes \cup {0} : bsys_tcp_sendv(a, b)
  \/ tcp_close
  \/ \E a \in BagToSet(acks) : tcp_input(a)
  \/ tcp_unified_timer_handler(FALSE)
  \/ \E tell \in {TRUE, ~LOSSY} : Read(tell)
  \/ \E a \in BagToSet(acks) : Lose(a)

(* A segment or an acknowledgement that is sent again and again gets        *)
(* through; the timer runs; the peer's application reads.                   *)
AckOfMore == \E a \in BagToSet(acks) : a.ack > c.lastack /\ tcp_input(a)
AnyAck == \E a \in BagToSet(acks) : tcp_input(a)
PeerReads == \E tell \in {TRUE, ~LOSSY} : Read(tell)
Fairness ==
  /\ SF_vars(AckOfMore) /\ WF_vars(AnyAck)
  /\ SF_vars(tcp_unified_timer_handler(TRUE)) /\ WF_vars(PeerReads)

Spec == Init /\ [][Next]_vars /\ Fairness

-----------------------------------------------------------------------------

TypeOK ==
  /\ c.lastack <= c.nxt /\ c.nxt \in 0 .. N + 1 /\ c.lbb \in 0 .. N + 1
  /\ c.buf \in 0 .. TCP_SND_BUF + 1 /\ c.cwnd \in MSS .. MaxCwnd
  /\ c.nrtx \in 0 .. TCP_MAXRTX + 1 /\ c.dupacks \in 0 .. 4
  /\ sent \in 0 .. N /\ gone \in BOOLEAN
  /\ BagToSet(acks) \subseteq AckSet

(* Whatever is lost, repeated or reordered, each byte that is written and   *)
(* not acknowledged, and the FIN, is in exactly one segment of the two      *)
(* queues, both in order (tcp_write, tcp_output, tcp_rexmit,                *)
(* tcp_rexmit_rto and the removal of acknowledged segments): nothing is     *)
(* forgotten and nothing can be sent under another number.                  *)
Segments == Range(c.unacked) \cup Range(c.unsent)
NothingForgotten ==
  /\ \A q \in {c.unacked, c.unsent} :
       \A i \in 1 .. Len(q) - 1 : End(q[i]) <= q[i + 1].seq
  /\ \A s, t \in Segments : s # t => End(s) <= t.seq \/ End(t) <= s.seq
  /\ Range(c.unacked) \cap Range(c.unsent) = {}
  /\ UNION {s.seq .. End(s) - 1 : s \in Segments} \cap c.lastack .. N + 1
       = c.lastack .. c.end - (IF c.fin THEN 0 ELSE 1)

(* snd_queuelen counts the pbufs on the two queues, so that an empty count  *)
(* means empty queues ("tcp_write: no pbufs on queue => both queues empty", *)
(* "pcb->snd_queuelen >= pbuf_clen(next->p)").                              *)
QueueLength == c.qlen = clen(c.unacked) + clen(c.unsent)

(* The free send buffer is what is not taken by bytes (and a FIN with a     *)
(* segment of its own) that are not acknowledged (snd_buf, snd_lbb).        *)
SendBuffer == c.buf = TCP_SND_BUF - (c.lbb - c.lastack)

(* The application is told of each acknowledged byte once, and never of the *)
(* FIN: the memory it may use again is memory the peer has (on_sent).       *)
SentOnce == sent = Lower(c.lastack, c.end) /\ 0 .. sent - 1 \subseteq peer.got

(* No byte is sent beyond the window the peer has announced (the FIN, which *)
(* tcp_output does not count, may be).                                      *)
InWindow == Lower(c.nxt, c.end) <= peer.read + W

(* While something is unacknowledged the retransmission timer runs: a lost  *)
(* segment cannot be waited for with no timer set.                          *)
TimerRuns == c.unacked # <<>> => c.rtx

(* The window the sender knows of has no room for what comes next: nothing  *)
(* is sent again, and an update that is lost is not asked for, since the    *)
(* persist timer is started only if it runs (tcp_receive, tcp_in.c:1015).   *)
Shut == c.wnd = 0 \/ (c.unacked = <<>> /\ c.unsent # <<>> /\ c.unsent[1].len > c.wnd)

(* What is written before the connection is closed, and the FIN, is         *)
(* acknowledged in the end, or the connection is given up after TCP_MAXRTX  *)
(* retransmissions, or the sender waits for a closed window to open.        *)
Over == c.fin => c.lastack = c.end + 1 \/ gone \/ Shut
Delivered == []<>Over

(* When the window of the peer is zero, probes find out that it has been    *)
(* opened, though the peer says so only once ("start persist timer").       *)
ZeroWindowProbed == (c.wnd = 0 /\ c.unsent # <<>>) ~> (c.wnd > 0 \/ gone)

(* An announcement of a larger window is taken, so that what waits for it   *)
(* is sent ("Update window.").                                              *)
WindowUpdated == c.unsent # <<>> ~> (c.unsent = <<>> \/ gone)

(* A segment is not sent again more often than TCP_MAXRTX times ("Maximum   *)
(* number of retransmissions of data segments.").                           *)
MaxRetransmissions == c.nrtx <= TCP_MAXRTX

=============================================================================
