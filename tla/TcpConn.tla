------------------------------- MODULE TcpConn -------------------------------
(***************************************************************************)
(* A TCP connection between two hosts that run the stack (dp/net/tcp_in.c,  *)
(* tcp.c): opening, closing, aborting, retransmission and the timeouts of   *)
(* tcp_slowtmr, over a network that loses and reorders; retransmission      *)
(* repeats segments.  The client connects; the server listens.  What an    *)
(* end sends is a sequence of items, the SYN, bytes and the FIN, one to a   *)
(* segment; an item's place is its sequence number.  The queues, windows    *)
(* and delayed acknowledgements are in TcpSend and TcpReceive.              *)
(***************************************************************************)
EXTENDS Integers, FiniteSets, Sequences

CONSTANTS
  TCP_MAXRTX,     \* retransmissions before a connection is given up
  MaxBytes,       \* bytes an end sends
  Writers,        \* the ends that send any
  MaxNet,         \* segments in the network, more are lost
  MaxPcbs,        \* pcbs the listener makes
  Others          \* other connections of the flow group are active

(* What the constants are.                                                  *)
TcpConnAssumption ==
  {TCP_MAXRTX, MaxBytes, MaxNet, MaxPcbs} \subseteq Nat /\ Others \in BOOLEAN

VARIABLES
  pcb,       \* of each end
  app,       \* what the application of each end knows of its connection
  hist,      \* of each end: what it ever received and made, whether it gave up
  net

vars == <<pcb, app, hist, net>>

Ends == {"client", "server"}
Peer(e) == IF e = "client" THEN "server" ELSE "client"
Larger(a, b) == IF a > b THEN a ELSE b

(* No pcb; for the server this is the listening one.                        *)
CLOSED == [st |-> "CLOSED", iss |-> 0, out |-> <<>>, lastack |-> 0, rcv |-> 0, held |-> FALSE,
           rxclosed |-> FALSE, nrtx |-> 0]

Init ==
  /\ pcb = [e \in Ends |-> CLOSED]
  /\ app = [e \in Ends |-> "none"]
  /\ hist = [e \in Ends |-> [rcv |-> 0, fin |-> FALSE, born |-> 0, gaveup |-> FALSE]]
  /\ net = {}

(* Sequence numbers.  Those of two pcbs are far apart.                      *)
TCP_WND == MaxBytes + 2
tcp_next_iss(e) == 2 * TCP_WND * hist[e].born
snd_nxt(p) == p.iss + Len(p.out)
Unacked(p) == p.lastack + 1 .. Len(p.out)
Active(p) == p.st \notin {"CLOSED", "TIME_WAIT"}
(* One more retransmission; the counter of the code wraps at 256.           *)
Rtx == 2 * TCP_MAXRTX + 2
Again(p) == [p EXCEPT !.nrtx = (@ + 1) % Rtx]
Synchronised(p) == Active(p) /\ p.st \notin {"SYN_SENT", "SYN_RCVD"}

-----------------------------------------------------------------------------

(* A segment to an end: what it carries ("syn", "byte", "fin", "rst" or     *)
(* nothing), its numbers, and whether it acknowledges.                      *)
Seg(e, item, seq, ack, ackno) ==
  [to |-> e, item |-> item, seq |-> seq, ack |-> ack, ackno |-> ackno]
tcplen(m) == IF m.item \in {"syn", "byte", "fin"} THEN 1 ELSE 0

(* tcp_output of the items that are not acknowledged, tcp_send_empty_ack    *)
(* and tcp_rst_impl.                                                        *)
tcp_output(e, p) ==
  {Seg(Peer(e), p.out[i], p.iss + i - 1, p.st # "SYN_SENT", p.rcv) : i \in Unacked(p)}
tcp_send_empty_ack(e, p) == {Seg(Peer(e), "none", snd_nxt(p), TRUE, p.rcv)}
tcp_rst(e, seq, ackno) == {Seg(Peer(e), "rst", seq, TRUE, ackno)}
Refuse(e, m) == tcp_rst(e, m.ackno, m.seq + tcplen(m))

(* What a handler does: the pcb, the segments it sends, and what it tells   *)
(* the application.                                                         *)
Does(p, out, event) == [pcb |-> p, out |-> out, event |-> event]
Nothing(p) == Does(p, {}, "none")

(* tcp_abandon with a reset; tcp_abort.                                     *)
tcp_abandon(e, p) ==
  IF p.st = "TIME_WAIT" THEN Does(CLOSED, {}, "none")
  ELSE Does(CLOSED, tcp_rst(e, snd_nxt(p), p.rcv), "err")

-----------------------------------------------------------------------------

(* tcp_listen_input: a SYN makes a new pcb.                                 *)
tcp_listen_input(e, m) ==
  IF m.item = "rst" THEN Nothing(CLOSED)
  ELSE IF m.ack THEN Does(CLOSED, Refuse(e, m), "none")
  ELSE IF m.item = "syn" /\ hist[e].born < MaxPcbs
  THEN LET p == [CLOSED EXCEPT !.st = "SYN_RCVD", !.iss = tcp_next_iss(e), !.rcv = m.seq + 1, !.out = <<"syn">>]
       IN Does(p, tcp_output(e, p), "none")
  ELSE Nothing(CLOSED)

(* tcp_timewait_input: a repeated FIN is acknowledged again.                *)
tcp_timewait_input(e, p, m) ==
  IF m.item = "rst" THEN Nothing(p)
  ELSE IF m.item = "syn" /\ m.seq \in p.rcv .. p.rcv + TCP_WND THEN Does(p, Refuse(e, m), "none")
  ELSE IF tcplen(m) > 0 THEN Does(p, tcp_send_empty_ack(e, p), "none")
  ELSE Nothing(p)

(* An acknowledgement of something new; the next item.                      *)
NewAck(p, m) == m.ack /\ m.ackno \in p.iss + p.lastack + 1 .. snd_nxt(p)
InSequence(p, m) == m.item \in {"byte", "fin"} /\ m.seq = p.rcv
Eof(p) == p.st \in {"CLOSE_WAIT", "CLOSING", "LAST_ACK", "TIME_WAIT"}

(* tcp_receive.                                                             *)
tcp_receive(p, m) ==
  [p EXCEPT !.lastack = IF NewAck(p, m) THEN m.ackno - p.iss ELSE @,
            !.nrtx = IF NewAck(p, m) THEN 0 ELSE @,
            !.rcv = IF InSequence(p, m) THEN @ + 1 ELSE @,
            !.held = @ \/ (InSequence(p, m) /\ m.item = "byte")]

(* AfterAck that takes any acknowledgement for that of the FIN.             *)
AfterAck_any(st, all) ==
  CASE st = "FIN_WAIT_1" -> "FIN_WAIT_2"
    [] st = "CLOSING" -> "TIME_WAIT"
    [] st = "LAST_ACK" -> "CLOSED"
    [] OTHER -> st

(* What follows in each state that has seen the SYN of the peer: the next   *)
(* state when the peer has (or has not) sent its FIN and has (or has not)   *)
(* acknowledged everything.                                                 *)
AfterFin(st, all) ==
  CASE st \in {"ESTABLISHED", "CLOSE_WAIT"} -> "CLOSE_WAIT"
    [] st = "FIN_WAIT_1" -> IF all THEN "TIME_WAIT" ELSE "CLOSING"
    [] st = "FIN_WAIT_2" -> "TIME_WAIT"
AfterAck(st, all) ==
  CASE st = "FIN_WAIT_1" /\ all -> "FIN_WAIT_2"
    [] st = "CLOSING" /\ all -> "TIME_WAIT"
    [] st = "LAST_ACK" /\ all -> "CLOSED"
    [] OTHER -> st

(* tcp_process and the rest of tcp_input in these states: bytes for an      *)
(* application that has closed its side abort the connection; the FIN is    *)
(* told and acknowledged at once.                                           *)
tcp_process_synchronised(e, p, m) ==
  LET r == tcp_receive(p, m)
      got == InSequence(p, m) /\ ~Eof(p)
      fin == got /\ m.item = "fin"
      all == m.ack /\ m.ackno = snd_nxt(p)
      q == [r EXCEPT !.st = IF fin THEN AfterFin(@, all) ELSE AfterAck(@, all)]
  IN IF got /\ m.item = "byte" /\ p.rxclosed THEN tcp_abandon(e, q)
     ELSE IF q.st = "CLOSED" THEN Does(CLOSED, {}, IF p.rxclosed THEN "none" ELSE "err")
     ELSE Does(q, IF tcplen(m) > 0 THEN tcp_send_empty_ack(e, q) ELSE {},
               IF fin THEN "eof" ELSE "none")

(* A reset the code takes: it answers the SYN or is in the window.          *)
Acceptable(p, m) ==
  IF p.st = "SYN_SENT" THEN m.ackno = snd_nxt(p) ELSE m.seq \in p.rcv .. p.rcv + TCP_WND

(* tcp_process and tcp_input of a reset.                                    *)
Reset(p, m) == IF Acceptable(p, m) THEN Does(CLOSED, {}, "err") ELSE Nothing(p)

(* tcp_process: a reset, a stray SYN, the two states of the handshake, the  *)
(* others.                                                                  *)
tcp_process(e, p, m) ==
  IF m.item = "rst" THEN Reset(p, m)
  ELSE IF m.item = "syn" /\ p.st \notin {"SYN_SENT", "SYN_RCVD"}
  THEN Does(p, tcp_send_empty_ack(e, p), "none")
  ELSE IF p.st = "SYN_SENT"
  THEN IF m.ack /\ m.item = "syn" /\ m.ackno = 1
       THEN LET q == [p EXCEPT !.st = "ESTABLISHED", !.rcv = m.seq + 1, !.lastack = 1, !.nrtx = 0]
            IN Does(q, tcp_send_empty_ack(e, q), "up")
       ELSE Does(p, IF m.ack THEN Refuse(e, m) ELSE {}, "none")
  ELSE IF p.st = "SYN_RCVD"
  THEN IF ~m.ack
       THEN IF m.item = "syn" /\ m.seq = p.rcv - 1
            THEN Does(Again(p), tcp_output(e, p), "none")
            ELSE Nothing(p)
       ELSE IF ~NewAck(p, m) THEN Does(p, Refuse(e, m), "none")
       ELSE LET d == tcp_process_synchronised(e, [p EXCEPT !.st = "ESTABLISHED"], m)
            IN [d EXCEPT !.event = IF @ = "none" THEN "up" ELSE @]
  ELSE tcp_process_synchronised(e, p, m)

(* tcp_input: a pcb, one in TIME_WAIT, the listener, or a reset.            *)
tcp_input(e, m) ==
  CASE Active(pcb[e]) -> tcp_process(e, pcb[e], m)
    [] pcb[e].st = "TIME_WAIT" -> tcp_timewait_input(e, pcb[e], m)
    [] ~Active(pcb[e]) /\ pcb[e].st = "CLOSED" /\ e = "server" -> tcp_listen_input(e, m)
    [] OTHER -> IF m.item = "rst" THEN Nothing(CLOSED) ELSE Does(CLOSED, Refuse(e, m), "none")

-----------------------------------------------------------------------------

(* The effect of a handler.  A segment it sends reaches the network or not. *)
New(e, d) == pcb[e].st = "CLOSED" /\ d.pcb.st # "CLOSED"
Effect(e, d, inflight) ==
  /\ pcb' = [pcb EXCEPT ![e] = d.pcb]
  /\ app' = [app EXCEPT ![e] = CASE d.event # "none" /\ @ # "closed" -> d.event
                                 [] New(e, d) -> "none"
                                 [] OTHER -> @]
  /\ hist' = [hist EXCEPT ![e].rcv = Larger(@, d.pcb.rcv),
                          ![e].born = IF New(e, d) THEN @ + 1 ELSE @,
                          ![e].gaveup = @ /\ ~New(e, d),
                          ![e].fin = @ \/ (d.pcb.out # <<>> /\ d.pcb.out[Len(d.pcb.out)] = "fin")]
  /\ net' \in {inflight \cup s : s \in SUBSET d.out}
  /\ Cardinality(net') <= MaxNet

Receive(m) == m \in net /\ Effect(m.to, tcp_input(m.to, m), net \ {m})

(* tcp_connect, by the client, once.                                        *)
tcp_connect ==
  /\ hist["client"].born = 0
  /\ LET p == [CLOSED EXCEPT !.st = "SYN_SENT", !.out = <<"syn">>]
     IN Effect("client", Does(p, tcp_output("client", p), "none"), net)

(* tcp_write of a byte.                                                     *)
tcp_write(e) ==
  /\ e \in Writers
  /\ app[e] \in {"up", "eof"} /\ pcb[e].st \in {"ESTABLISHED", "CLOSE_WAIT"}
  /\ Len(pcb[e].out) <= MaxBytes
  /\ LET p == [pcb[e] EXCEPT !.out = Append(@, "byte")]
     IN Effect(e, Does(p, tcp_output(e, p), "none"), net)

(* The application is done with what it received.                           *)
tcp_recved(e) ==
  /\ pcb[e].held /\ app[e] # "closed"
  /\ Effect(e, Nothing([pcb[e] EXCEPT !.held = FALSE]), net)

(* tcp_close_shutdown: the FIN is queued; a connection whose data have not  *)
(* been read is reset if the application closes both ways.                  *)
tcp_close_shutdown(e, p, rst_on_unacked_data) ==
  LET fin(st) == LET q == [p EXCEPT !.out = Append(@, "fin"), !.st = st]
                 IN Does(q, tcp_output(e, q), "none")
  IN IF rst_on_unacked_data /\ p.held /\ p.st \in {"ESTABLISHED", "CLOSE_WAIT"}
     THEN Does(IF p.st = "ESTABLISHED" THEN [p EXCEPT !.st = "TIME_WAIT", !.lastack = Len(p.out)]
               ELSE CLOSED, tcp_rst(e, snd_nxt(p), p.rcv), "none")
     ELSE CASE p.st = "SYN_SENT" -> Does(CLOSED, {}, "none")
            [] p.st \in {"SYN_RCVD", "ESTABLISHED"} -> fin("FIN_WAIT_1")
            [] p.st = "CLOSE_WAIT" -> fin("LAST_ACK")
            [] OTHER -> Nothing(p)

(* tcp_close, by an application that has a connection (or is opening one).  *)
tcp_close(e) ==
  /\ app[e] \in {"up", "eof"} \/ pcb[e].st = "SYN_SENT"
  /\ pcb[e].st # "CLOSED"
  /\ LET d == tcp_close_shutdown(e, [pcb[e] EXCEPT !.rxclosed = TRUE], TRUE)
     IN Effect(e, [d EXCEPT !.event = "closed"], net)

(* tcp_shutdown of the sending side.                                        *)
tcp_shutdown(e) ==
  /\ app[e] \in {"up", "eof"} /\ pcb[e].st \in {"ESTABLISHED", "CLOSE_WAIT"}
  /\ Effect(e, tcp_close_shutdown(e, pcb[e], FALSE), net)

(* tcp_close_with_reset (bsys_tcp_close): a reset, and the pcb is gone.     *)
tcp_close_with_reset(e) ==
  /\ app[e] \in {"up", "eof"} /\ Active(pcb[e])
  /\ Effect(e, Does(CLOSED, tcp_rst(e, snd_nxt(pcb[e]), pcb[e].rcv), "closed"), net)

(* tcp_unified_timer_handler: everything unacknowledged is sent again, or   *)
(* the pcb is removed.                                                      *)
Retransmit(e) ==
  /\ Active(pcb[e]) /\ Unacked(pcb[e]) # {}
  /\ IF pcb[e].nrtx = TCP_MAXRTX
     THEN /\ pcb' = [pcb EXCEPT ![e] = CLOSED]
          /\ hist' = [hist EXCEPT ![e].gaveup = TRUE]
          /\ UNCHANGED <<app, net>>
     ELSE LET p == Again(pcb[e])
          IN Effect(e, Does(p, tcp_output(e, p), "none"), net)

(* tcp_slowtmr: the timeouts.  The pcbs in TIME_WAIT are walked inside the  *)
(* loop over active_buckets: only while other connections are active.       *)
tcp_slowtmr(e) ==
  \/ /\ \/ pcb[e].st \in {"SYN_RCVD", "LAST_ACK"}
        \/ pcb[e].st = "FIN_WAIT_2" /\ pcb[e].rxclosed
     /\ Effect(e, Does(CLOSED, {}, "err"), net)
  \/ Others /\ pcb[e].st = "TIME_WAIT" /\ Effect(e, Nothing(CLOSED), net)

Next ==
  \/ tcp_connect
  \/ \E e \in Ends :
       \/ tcp_write(e) \/ tcp_recved(e)
       \/ tcp_close(e) \/ tcp_shutdown(e) \/ tcp_close_with_reset(e)
       \/ Retransmit(e) \/ tcp_slowtmr(e)
  \/ \E m \in net : Receive(m)

(* The timers run.                                                          *)
Fairness == \A e \in Ends : WF_vars(Retransmit(e)) /\ WF_vars(tcp_slowtmr(e))

Spec == Init /\ [][Next]_vars /\ Fairness

-----------------------------------------------------------------------------

States == {"CLOSED", "SYN_SENT", "SYN_RCVD", "ESTABLISHED", "FIN_WAIT_1",
           "FIN_WAIT_2", "CLOSING", "CLOSE_WAIT", "LAST_ACK", "TIME_WAIT"}
TypeOK ==
  \A e \in Ends :
    /\ pcb[e].st \in States /\ pcb[e].lastack \in 0 .. Len(pcb[e].out)
    /\ pcb[e].rcv \in 0 .. 2 * TCP_WND * MaxPcbs /\ pcb[e].nrtx \in 0 .. Rtx - 1
    /\ app[e] \in {"none", "up", "eof", "err", "closed"}

(* What a synchronised end believes of the other was true of it: items it   *)
(* has as acknowledged were received by the peer's stack, whatever old      *)
(* segments are about (tcp_process, tcp_receive).                           *)
AckTruthful ==
  \A e \in Ends : Synchronised(pcb[e]) => pcb[e].iss + pcb[e].lastack <= hist[Peer(e)].rcv

(* The states of closing mean what they say: an end that has seen a FIN got *)
(* it from a peer that sent one, after all its bytes; one whose FIN counts  *)
(* as acknowledged has a peer that received it.                             *)
CloseAgrees ==
  \A e \in Ends :
    /\ pcb[e].st \in {"CLOSE_WAIT", "LAST_ACK", "CLOSING"} =>
         hist[Peer(e)].fin /\ (Active(pcb[Peer(e)]) /\ pcb[Peer(e)].st # "SYN_RCVD"
                                 => pcb[e].rcv <= pcb[Peer(e)].iss \/ pcb[e].rcv = snd_nxt(pcb[Peer(e)]))
    /\ pcb[e].st = "FIN_WAIT_2" => hist[Peer(e)].rcv >= snd_nxt(pcb[e])

(* An application that has been told of a connection and of no end of it    *)
(* has a pcb, unless the retransmission timer gave it up.                   *)
Told ==
  \A e \in Ends : app[e] = "up" /\ ~hist[e].gaveup => pcb[e].st \notin {"CLOSED", "SYN_SENT"}

(* The same without the exception: the error callback is "Called when the   *)
(* pcb receives a RST or is unexpectedly closed for any other reason."      *)
ToldOfTimeout ==
  \A e \in Ends : app[e] = "up" => pcb[e].st \notin {"CLOSED", "SYN_SENT"}

(* A pcb whose application has closed the connection is freed in the end,   *)
(* whatever the peer does: none is left behind in FIN_WAIT_1, FIN_WAIT_2,   *)
(* CLOSING or LAST_ACK, nor, while other connections are active, in         *)
(* TIME_WAIT.  The pcb of a last connection stays there (tcp_slowtmr).      *)
Gone(e) ==
  app[e] = "closed" => pcb[e].st = "CLOSED" \/ (~Others /\ pcb[e].st = "TIME_WAIT")
Freed == \A e \in Ends : []<>Gone(e)

=============================================================================
