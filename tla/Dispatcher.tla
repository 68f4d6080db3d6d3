------------------------------ MODULE Dispatcher ------------------------------
(***************************************************************************)
(* The dispatcher core (dp/core/dispatcher.c).  do_dispatching visits every *)
(* worker in turn and then the networker, forever.                          *)
(*                                                                          *)
(* disp_pc is the point of that loop the dispatcher is at:                  *)
(*   worker    about to read worker_responses[disp_w].flag                  *)
(*   dispatch  about to look for a task for worker disp_w                   *)
(*   fill      about to write disp_task to dispatcher_requests[disp_w]      *)
(*   activate  about to set dispatcher_requests[disp_w].flag                *)
(*   networker about to read networker_pointers.cnt                         *)
(*   packet    at packet disp_k of the batch                                *)
(*   give      at buffer disp_k of the buffers handed back                  *)
(***************************************************************************)
EXTENDS Dispatch

VARIABLES disp_pc, disp_w, disp_k, disp_task

dispVars == <<disp_pc, disp_w, disp_k, disp_task>>

DispatcherPC ==
  {"worker", "dispatch", "fill", "activate", "networker", "packet", "give"}

DispatcherInit ==
  /\ disp_pc = "worker"
  /\ disp_w = 0
  /\ disp_k = 0
  /\ disp_task = ZeroTask

(* The loop over the workers goes on to the next one, then to the networker. *)
NextWorker ==
  /\ disp_pc' = IF disp_w + 1 < NumWorkers THEN "worker" ELSE "networker"
  /\ disp_w' = IF disp_w + 1 < NumWorkers THEN disp_w + 1 ELSE 0

-----------------------------------------------------------------------------
handle_finished ==
  LET i == disp_w IN
  /\ disp_pc = "worker" /\ response_flag[i] = "FINISHED"
  /\ context_free(response[i].rnbl)
  /\ mbuf_enqueue(response[i].mbuf)
  /\ preempt_check' = [preempt_check EXCEPT ![i] = FALSE]
  /\ response_flag' = [response_flag EXCEPT ![i] = "PROCESSED"]
  /\ disp_pc' = "dispatch"
  /\ UNCHANGED <<tskq, task_mempool, requestVars, response, pointerVars, ipi,
                 disp_w, disp_k, disp_task>>

handle_preempted ==
  LET i == disp_w IN
  /\ disp_pc = "worker" /\ response_flag[i] = "PREEMPTED"
  /\ tskq_enqueue_tail(response[i])
  /\ preempt_check' = [preempt_check EXCEPT ![i] = FALSE]
  /\ response_flag' = [response_flag EXCEPT ![i] = "PROCESSED"]
  /\ disp_pc' = "dispatch"
  /\ UNCHANGED <<mqueue, context_pool, stack_pool, mcell_mempool, requestVars,
                 response, pointerVars, ipi, disp_w, disp_k, disp_task>>

(* A worker that has nothing to report goes straight to dispatch_request.    *)
handle_idle ==
  /\ disp_pc = "worker" /\ response_flag[disp_w] = "PROCESSED"
  /\ disp_pc' = "dispatch"
  /\ UNCHANGED <<tskq, mqueue, poolVars, preempt_check, requestVars,
                 responseVars, pointerVars, ipi, disp_w, disp_k, disp_task>>

(* preempt_worker on a running worker whose quantum has expired.             *)
preempt_worker ==
  /\ disp_pc = "worker" /\ response_flag[disp_w] = "RUNNING"
  /\ preempt_check[disp_w]
  /\ preempt_check' = [preempt_check EXCEPT ![disp_w] = FALSE]
  /\ ipi' = [ipi EXCEPT ![disp_w] = TRUE]
  /\ NextWorker
  /\ UNCHANGED <<tskq, mqueue, poolVars, requestVars, responseVars,
                 pointerVars, disp_k, disp_task>>

(* preempt_worker on a running worker that is left alone.                    *)
leave_running ==
  /\ disp_pc = "worker" /\ response_flag[disp_w] = "RUNNING"
  /\ NextWorker
  /\ UNCHANGED <<tskq, mqueue, poolVars, preempt_check, requestVars,
                 responseVars, pointerVars, ipi, disp_k, disp_task>>

-----------------------------------------------------------------------------
(* dispatch_request, in the order of its stores: the response flag becomes   *)
(* RUNNING, the request is written, and its flag becomes ACTIVE last.        *)
dispatch_none ==
  /\ disp_pc = "dispatch" /\ NonEmptyQueues = {}
  /\ NextWorker
  /\ UNCHANGED <<tskq, mqueue, poolVars, preempt_check, requestVars,
                 responseVars, pointerVars, ipi, disp_k, disp_task>>

(* Mutant: the response flag is left as it was.                              *)
dispatch_take_noflag(t) ==
  /\ disp_pc = "dispatch" /\ t \in NonEmptyQueues
  /\ disp_task' = Head(tskq[t])
  /\ tskq_dequeue(t)
  /\ disp_pc' = "fill"
  /\ UNCHANGED <<mqueue, context_pool, stack_pool, mcell_mempool,
                 preempt_check, requestVars, responseVars, pointerVars, ipi,
                 disp_w, disp_k>>

dispatch_take(t) ==
  /\ disp_pc = "dispatch" /\ t \in NonEmptyQueues
  /\ disp_task' = Head(tskq[t])
  /\ tskq_dequeue(t)
  /\ response_flag' = [response_flag EXCEPT ![disp_w] = "RUNNING"]
  /\ disp_pc' = "fill"
  /\ UNCHANGED <<mqueue, context_pool, stack_pool, mcell_mempool,
                 preempt_check, requestVars, response, pointerVars, ipi,
                 disp_w, disp_k>>

dispatch_fill ==
  /\ disp_pc = "fill"
  /\ request' = [request EXCEPT ![disp_w] = disp_task]
  /\ preempt_check' = [preempt_check EXCEPT ![disp_w] = TRUE]
  /\ disp_pc' = "activate"
  /\ disp_task' = ZeroTask
  /\ UNCHANGED <<tskq, mqueue, poolVars, request_flag, responseVars,
                 pointerVars, ipi, disp_w, disp_k>>

(* Mutant: the request is written but never activated.                       *)
dispatch_activate_lost ==
  /\ disp_pc = "activate"
  /\ NextWorker
  /\ UNCHANGED <<tskq, mqueue, poolVars, preempt_check, requestVars,
                 responseVars, pointerVars, ipi, disp_k, disp_task>>

dispatch_activate ==
  /\ disp_pc = "activate"
  /\ request_flag' = [request_flag EXCEPT ![disp_w] = "ACTIVE"]
  /\ NextWorker
  /\ UNCHANGED <<tskq, mqueue, poolVars, preempt_check, request, responseVars,
                 pointerVars, ipi, disp_k, disp_task>>

-----------------------------------------------------------------------------
(* Mutant: a batch of one packet is taken for no batch.                      *)
networker_check_one ==
  /\ disp_pc = "networker"
  /\ disp_pc' = IF cnt <= 1 THEN "worker" ELSE "packet"
  /\ UNCHANGED <<tskq, mqueue, poolVars, preempt_check, requestVars,
                 responseVars, pointerVars, ipi, disp_w, disp_k, disp_task>>

(* handle_networker: queue every packet of the batch, put up to Batch        *)
(* buffers in its place, and clear cnt last.                                 *)
networker_check ==
  /\ disp_pc = "networker"
  /\ disp_pc' = IF cnt = 0 THEN "worker" ELSE "packet"
  /\ UNCHANGED <<tskq, mqueue, poolVars, preempt_check, requestVars,
                 responseVars, pointerVars, ipi, disp_w, disp_k, disp_task>>

packet_queue(c) ==
  /\ disp_pc = "packet" /\ disp_k < cnt
  /\ context_alloc(c)
  /\ tskq_enqueue_tail([rnbl |-> c, mbuf |-> pkts[disp_k],
                        type |-> types[disp_k], category |-> "PACKET"])
  /\ disp_k' = disp_k + 1
  /\ UNCHANGED <<mqueue, mcell_mempool, preempt_check, requestVars,
                 responseVars, pointerVars, ipi, disp_pc, disp_w, disp_task>>

(* Mutant: the buffer of a packet without a context is forgotten.            *)
packet_drop_leak ==
  /\ disp_pc = "packet" /\ disp_k < cnt
  /\ ~CanAllocContext
  /\ disp_k' = disp_k + 1
  /\ UNCHANGED <<tskq, mqueue, poolVars, preempt_check, requestVars,
                 responseVars, pointerVars, ipi, disp_pc, disp_w, disp_task>>

packet_drop ==
  /\ disp_pc = "packet" /\ disp_k < cnt
  /\ ~CanAllocContext
  /\ mbuf_enqueue(pkts[disp_k])
  /\ disp_k' = disp_k + 1
  /\ UNCHANGED <<tskq, context_pool, stack_pool, task_mempool, preempt_check,
                 requestVars, responseVars, pointerVars, ipi, disp_pc, disp_w,
                 disp_task>>

packets_done ==
  /\ disp_pc = "packet" /\ disp_k = cnt
  /\ disp_pc' = "give"
  /\ disp_k' = 0
  /\ UNCHANGED <<tskq, mqueue, poolVars, preempt_check, requestVars,
                 responseVars, pointerVars, ipi, disp_w, disp_task>>

give_buffer ==
  /\ disp_pc = "give" /\ disp_k < Batch /\ mqueue # <<>>
  /\ pkts' = [pkts EXCEPT ![disp_k] = Head(mqueue)]
  /\ free_cnt' = free_cnt + 1
  /\ mbuf_dequeue
  /\ disp_k' = disp_k + 1
  /\ UNCHANGED <<tskq, context_pool, stack_pool, task_mempool, preempt_check,
                 requestVars, responseVars, cnt, types, ipi, disp_pc, disp_w,
                 disp_task>>

give_done ==
  /\ disp_pc = "give" /\ (disp_k = Batch \/ mqueue = <<>>)
  /\ cnt' = 0
  /\ disp_pc' = "worker"
  /\ disp_k' = 0
  /\ UNCHANGED <<tskq, mqueue, poolVars, preempt_check, requestVars,
                 responseVars, free_cnt, pkts, types, ipi, disp_w, disp_task>>

DispatcherNext ==
  \/ handle_finished
  \/ handle_preempted
  \/ handle_idle
  \/ preempt_worker
  \/ leave_running
  \/ dispatch_none
  \/ \E t \in Types : dispatch_take(t)
  \/ dispatch_fill
  \/ dispatch_activate
  \/ networker_check
  \/ \E c \in Ctx : packet_queue(c)
  \/ packet_drop
  \/ packets_done
  \/ give_buffer
  \/ give_done
=============================================================================
