------------------------------ MODULE Networker -------------------------------
(***************************************************************************)
(* The networker core (dp/core/networker.c, with the receive path of        *)
(* inc/ix/ethqueue.h, dp/net/ip.c and dp/net/udp.c).  do_networking         *)
(* collects a batch of frames, waits until the dispatcher has taken the     *)
(* previous one, frees the buffers handed back, and publishes the batch.    *)
(*                                                                          *)
(* net_pc is the point of that loop the networker is at:                    *)
(*   recv   in eth_process_recv, net_recv holding the frames accepted so far *)
(*   wait   spinning until cnt is 0                                         *)
(*   free   at buffer net_k of the ones handed back                         *)
(*   fill   at packet net_k of the new batch                                *)
(* A single receive queue is assumed, so a batch has at most Batch frames.   *)
(***************************************************************************)
EXTENDS Dispatch

VARIABLES
  net_pc, net_k,
  net_recv,    \* Seq([mbuf : Mbuf, type : Types]): recv_mbufs and recv_type
  mbuf_pool    \* [Mbuf -> Nat]: how often a buffer is on the free list

netVars == <<net_pc, net_k, net_recv, mbuf_pool>>

NetworkerPC == {"recv", "wait", "free", "fill"}

NetworkerInit ==
  /\ net_pc = "recv"
  /\ net_k = 0
  /\ net_recv = <<>>
  /\ mbuf_pool = [p \in Mbuf |-> 1]

(* What the networker never touches.                                         *)
notNetworker == <<tskq, mqueue, poolVars, preempt_check, requestVars,
                  responseVars, ipi>>

-----------------------------------------------------------------------------
(* eth_process_recv takes a frame that arrived in buffer p, and ip_input and  *)
(* udp_input accept it for port t: the UDP length fits the frame.  A frame     *)
(* they refuse for any other reason goes back to the pool, which is no change. *)
recv_frame(p, t) ==
  /\ net_pc = "recv" /\ Len(net_recv) < Batch
  /\ mbuf_pool[p] > 0
  /\ mbuf_pool' = [mbuf_pool EXCEPT ![p] = @ - 1]
  /\ net_recv' = Append(net_recv, [mbuf |-> p, type |-> t])
  /\ short' = short \ {p}
  /\ replied' = replied \ {p}
  /\ UNCHANGED <<notNetworker, pointerVars, net_pc, net_k>>

(* A frame whose UDP length does not fit: udp_input frees the buffer and       *)
(* returns -1, on which ip_input frees it once more.  The free list then goes  *)
(* round through the buffer; here it is on the list twice.                     *)
recv_short(p) ==
  /\ net_pc = "recv" /\ Len(net_recv) < Batch
  /\ mbuf_pool[p] > 0
  /\ mbuf_pool' = [mbuf_pool EXCEPT ![p] = @ - 1 + 2]
  /\ UNCHANGED <<notNetworker, pointerVars, frameVars, net_pc, net_k, net_recv>>

(* eth_process_recv returns; with no frame the loop starts over.             *)
recv_done ==
  /\ net_pc = "recv" /\ net_recv # <<>>
  /\ net_pc' = "wait"
  /\ UNCHANGED <<notNetworker, pointerVars, net_k, net_recv, mbuf_pool,
                 frameVars>>

(* Mutant: the previous batch is not waited for.                             *)
wait_dispatcher_not ==
  /\ net_pc = "wait"
  /\ net_pc' = "free"
  /\ UNCHANGED <<notNetworker, pointerVars, net_k, net_recv, mbuf_pool,
                 frameVars>>

wait_dispatcher ==
  /\ net_pc = "wait" /\ cnt = 0
  /\ net_pc' = "free"
  /\ UNCHANGED <<notNetworker, pointerVars, net_k, net_recv, mbuf_pool,
                 frameVars>>

mbuf_free ==
  /\ net_pc = "free" /\ net_k < free_cnt
  /\ mbuf_pool' = [mbuf_pool EXCEPT ![pkts[net_k]] = @ + 1]
  /\ net_k' = net_k + 1
  /\ UNCHANGED <<notNetworker, pointerVars, net_pc, net_recv, frameVars>>

free_done ==
  /\ net_pc = "free" /\ net_k = free_cnt
  /\ free_cnt' = 0
  /\ net_pc' = "fill"
  /\ net_k' = 0
  /\ UNCHANGED <<notNetworker, cnt, pkts, types, net_recv, mbuf_pool,
                 frameVars>>

fill_packet ==
  /\ net_pc = "fill" /\ net_k < Len(net_recv)
  /\ pkts' = [pkts EXCEPT ![net_k] = net_recv[net_k + 1].mbuf]
  /\ types' = [types EXCEPT ![net_k] = net_recv[net_k + 1].type]
  /\ net_k' = net_k + 1
  /\ UNCHANGED <<notNetworker, cnt, free_cnt, net_pc, net_recv, mbuf_pool,
                 frameVars>>

publish ==
  /\ net_pc = "fill" /\ net_k = Len(net_recv)
  /\ cnt' = Len(net_recv)
  /\ net_pc' = "recv"
  /\ net_k' = 0
  /\ net_recv' = <<>>
  /\ UNCHANGED <<notNetworker, free_cnt, pkts, types, mbuf_pool,
                 frameVars>>

(* The arrival of a frame is up to the network, the rest to the networker.   *)
NetworkerLoop ==
  \/ recv_done
  \/ wait_dispatcher
  \/ mbuf_free
  \/ free_done
  \/ fill_packet
  \/ publish

NetworkerNext ==
  \/ \E p \in Mbuf, t \in Types : recv_frame(p, t)
  \/ NetworkerLoop
=============================================================================
