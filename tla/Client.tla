------------------------------- MODULE Client -------------------------------
(***************************************************************************)
(* One sender and one receiver of the load generator (client/): requests    *)
(* taken from and put back to a pool, batches handed to the card, responses *)
(* parsed and counted, and the statistics the main thread collects once     *)
(* both have stopped.                                                       *)
(***************************************************************************)
EXTENDS Integers, SequencesExt

CONSTANTS
  Batch,       \* requests of a batch: 32, and 1 in dpdk_bimodal_main.cpp
  MaxClock,    \* time, in steps
  Gaps,        \* times between requests
  Mbufs,       \* packets in the pool of the queue
  TxRing,      \* packets the card takes before it transmits
  Burst,       \* BURST_SIZE of a receive
  StatsBatch,  \* STATS_BATCH_SIZE
  MaxReqs,     \* packets handed to the card
  MaxForeign,  \* packets that are no responses
  MaxLost      \* bound: requests lost before the sender stops

VARIABLES
  clock, next_gen_ns_,     \* time, and when the next request is due
  news, req_pool_,         \* requests made by new, and in the pool
  lost,                    \* requests that sendBatch dropped
  reqs,                    \* the batch: when each of its requests was due
  nb_tx,                   \* packets of the last burst
  mbufs,                   \* free packets
  tx, rx,                  \* the card: packets to transmit; received, TRUE for a response
  handed, foreign,         \* packets the card took; others that came
  packets_sent_, packets_received_,
  responses,               \* what recv returned
  pending, samples,        \* sizes of pending_latency_ and latency_samples_
  should_stop, sender, receiver, main

requests == <<next_gen_ns_, news, req_pool_, lost, reqs, nb_tx, packets_sent_, sender>>
counts == <<packets_received_, responses, pending, samples, receiver>>
vars == <<clock, requests, mbufs, tx, rx, handed, foreign, counts, should_stop, main>>

Init ==
  /\ clock = 1 /\ next_gen_ns_ = 0 /\ news = 0 /\ req_pool_ = 0 /\ lost = 0 /\ reqs = <<>> /\ nb_tx = 0
  /\ mbufs = Mbufs /\ tx = <<>> /\ rx = <<>> /\ handed = 0 /\ foreign = 0
  /\ packets_sent_ = 0 /\ packets_received_ = 0 /\ responses = 0 /\ pending = 0 /\ samples = 0
  /\ should_stop = FALSE /\ sender = "loop" /\ receiver = "recv" /\ main = "run"

-----------------------------------------------------------------------------
(* The sender.                                                              *)

Sender(from, to) ==
  /\ sender = from /\ sender' = to
  /\ UNCHANGED <<clock, rx, foreign, counts, should_stop, main>>

send_thread_func ==
  \/ Sender("loop", "prepare") /\ ~should_stop /\ handed + Batch <= MaxReqs /\ lost < MaxLost
     /\ UNCHANGED <<next_gen_ns_, news, lost, req_pool_, reqs, nb_tx, packets_sent_, mbufs, tx, handed>>
  \/ Sender("loop", "end") /\ should_stop
     /\ UNCHANGED <<next_gen_ns_, news, lost, req_pool_, reqs, nb_tx, packets_sent_, mbufs, tx, handed>>

(* A request of the pool or a new one.                                      *)
Taken ==
  \/ req_pool_ > 0 /\ req_pool_' = req_pool_ - 1 /\ UNCHANGED news
  \/ req_pool_ = 0 /\ news' = news + 1 /\ UNCHANGED req_pool_

(* prepareBatch, and startReq for a batch of one: requests that are due.    *)
Due(t) == clock >= t
prepareBatch ==
  LET due == IF next_gen_ns_ = 0 THEN clock ELSE next_gen_ns_
  IN \/ /\ Sender("prepare", "prepare") /\ Len(reqs) < Batch /\ Due(due)
        /\ Taken
        /\ reqs' = Append(reqs, due)
        /\ \E gap \in Gaps : next_gen_ns_' = due + gap
        /\ UNCHANGED <<lost, nb_tx, packets_sent_, mbufs, tx, handed>>
     \/ /\ Sender("prepare", "send") /\ reqs # <<>> /\ (Len(reqs) = Batch \/ ~Due(due))
        /\ UNCHANGED <<next_gen_ns_, news, lost, req_pool_, reqs, nb_tx, packets_sent_, mbufs, tx, handed>>

(* sendBatch, and send for a batch of one: the card takes n packets, the    *)
(* others are freed and all requests go back. Then a form that puts the     *)
(* requests of sent packets back a second time.                             *)
Freed(n) == mbufs' = mbufs - n
Back_twice(n) == req_pool_' = req_pool_ + n + Len(reqs)
Back(n) == req_pool_' = req_pool_ + Len(reqs)

sendBatch(n) ==
  /\ Sender("send", "count") /\ Len(reqs) <= mbufs
  /\ n <= Len(reqs) /\ Len(tx) + n <= TxRing
  /\ tx' = tx \o SubSeq(reqs, 1, n)
  /\ handed' = handed + n /\ nb_tx' = n
  /\ Freed(n) /\ Back(n) /\ reqs' = <<>>
  /\ UNCHANGED <<next_gen_ns_, news, lost, packets_sent_>>

(* No packet for request mbufs + 1: what was made is freed, the requests up *)
(* to this one go back; those after it are in nobody's hands.               *)
sendBatch_fails ==
  /\ Sender("send", "loop") /\ Len(reqs) > mbufs
  /\ req_pool_' = req_pool_ + mbufs + 1 /\ reqs' = <<>>
  /\ lost' = lost + Len(reqs) - (mbufs + 1)
  /\ UNCHANGED <<next_gen_ns_, news, nb_tx, packets_sent_, mbufs, tx, handed>>

(* The count of the batch, and one of all its requests.                     *)
Counted_all == packets_sent_ + Batch
Counted == packets_sent_ + nb_tx
CountSent ==
  /\ Sender("count", "loop")
  /\ packets_sent_' = Counted
  /\ UNCHANGED <<next_gen_ns_, news, lost, req_pool_, reqs, nb_tx, mbufs, tx, handed>>

-----------------------------------------------------------------------------
(* The card and the server: a packet is transmitted and answered at most    *)
(* once; other packets come too.                                            *)

Transmit(answered) ==
  /\ tx # <<>> /\ tx' = Tail(tx) /\ mbufs' = mbufs + 1
  /\ rx' = IF answered THEN Append(rx, TRUE) ELSE rx
  /\ UNCHANGED <<clock, requests, handed, foreign, counts, should_stop, main>>
Foreign ==
  /\ foreign < MaxForeign /\ foreign' = foreign + 1
  /\ rx' = Append(rx, FALSE)
  /\ UNCHANGED <<clock, requests, mbufs, tx, handed, counts, should_stop, main>>
Tick ==
  /\ clock < MaxClock /\ clock' = clock + 1
  /\ UNCHANGED <<requests, mbufs, tx, rx, handed, foreign, counts, should_stop, main>>

-----------------------------------------------------------------------------
(* The receiver.                                                            *)

Receiver(from, to) ==
  /\ receiver = from /\ receiver' = to
  /\ UNCHANGED <<clock, requests, mbufs, tx, handed, foreign, should_stop, main>>

(* recv: parsePacket refuses what is no response to this client.            *)
Parsed(burst) == Len(SelectSeq(burst, LAMBDA p : p))
recv ==
  LET n == IF Len(rx) < Burst THEN Len(rx) ELSE Burst
      burst == SubSeq(rx, 1, n)
  IN /\ Receiver("recv", "fini") /\ rx # <<>>
     /\ rx' = SubSeq(rx, n + 1, Len(rx))
     /\ responses' = Len(SelectSeq(burst, LAMBDA p : p))
     /\ packets_received_' = packets_received_ + Parsed(burst)
     /\ UNCHANGED <<pending, samples>>

(* finiReqs, updateLatencyStats for each: full batches go to the samples.   *)
finiReqs ==
  /\ Receiver("fini", "recv")
  /\ LET all == pending + responses
     IN samples' = samples + all - (all % StatsBatch) /\ pending' = all % StatsBatch
  /\ responses' = 0
  /\ UNCHANGED <<rx, packets_received_>>

(* After the stop it polls for a time, to drain or ten times, and ends.     *)
RecvEnd == Receiver("recv", "end") /\ should_stop /\ UNCHANGED <<rx, packets_received_, responses, pending, samples>>

-----------------------------------------------------------------------------
(* The main thread: Ctrl+C, then joins both and collects the samples; and   *)
(* without those still pending.                                             *)

sigint_handler ==
  /\ ~should_stop /\ should_stop' = TRUE
  /\ UNCHANGED <<clock, requests, mbufs, tx, rx, handed, foreign, counts, main>>

flushPendingStats == samples' = samples + pending /\ pending' = 0
getLatencySamples ==
  /\ main = "run" /\ sender = "end" /\ receiver = "end" /\ main' = "done"
  /\ flushPendingStats
  /\ UNCHANGED <<clock, requests, mbufs, tx, rx, handed, foreign, packets_received_, responses, receiver, should_stop>>

Next ==
  \/ send_thread_func \/ prepareBatch \/ sendBatch_fails \/ CountSent \/ \E n \in 0 .. Batch : sendBatch(n)
  \/ Foreign \/ Tick \/ \E answered \in BOOLEAN : Transmit(answered)
  \/ recv \/ finiReqs \/ RecvEnd \/ sigint_handler \/ getLatencySamples

Spec == Init /\ [][Next]_vars

-----------------------------------------------------------------------------

(* "Poisson arrival control": no request is handed to the card before it is *)
(* due, and they leave in the order they are due.                           *)
OnTime ==
  /\ \A i \in DOMAIN tx : tx[i] <= clock
  /\ \A i, j \in DOMAIN tx : i < j => tx[i] <= tx[j]

(* A packet is in the pool of its queue or with the card, whatever part of  *)
(* a batch the card takes.                                                  *)
MbufsKept == mbufs + Len(tx) = Mbufs

(* A request is in the pool or in the batch exactly once, however much of a *)
(* batch the card takes: no two requests share their memory and none is     *)
(* lost, except those of a batch that come after the first one for which    *)
(* there is no packet (dpdk_client.cpp:402-408), and a batch of one loses   *)
(* none.                                                                    *)
PoolSound ==
  /\ req_pool_ + Len(reqs) + lost = news
  /\ Batch = 1 => lost = 0

(* The summary is right: it counts the packets the card took, no more       *)
(* responses than these, and a latency for every response received, those   *)
(* of a batch that never filled included.                                   *)
SummaryRight ==
  main = "done" => /\ packets_sent_ = handed /\ packets_received_ <= packets_sent_
                   /\ samples = packets_received_

=============================================================================
