--------------------------- MODULE ShinjukuProofs ----------------------------
(***************************************************************************)
(* Proofs of Shinjuku's program counters, flags and data, of what a worker  *)
(* runs and of what is queued for it, for any number of workers, ports,     *)
(* buffers and contexts and any batch size.                                 *)
(***************************************************************************)
EXTENDS Shinjuku, TLAPS

USE DEF poolVars, requestVars, responseVars, pointerVars, frameVars, dispVars,
        workVars, netVars, dispatcherOnly, notNetworker

-----------------------------------------------------------------------------
(* What the networker's steps leave alone (do_networking touches its own state,
   networker_pointers and the frames).                                        *)
LEMMA NetworkerFrame ==
  ASSUME NetworkerStep
  PROVE  UNCHANGED <<tskq, mqueue, context_pool, stack_pool, task_mempool,
                     mcell_mempool, preempt_check, request_flag, request,
                     response_flag, response, ipi, disp_pc, disp_w, disp_k,
                     disp_task, work_pc, cont, finished>>
<1>1. NetworkerNext => UNCHANGED notNetworker
  BY Zenon DEF NetworkerNext, NetworkerLoop, recv_frame, recv_done, wait_dispatcher,
     mbuf_free, free_done, fill_packet, publish
<1> QED
  BY Zenon, <1>1 DEF NetworkerStep

(* What the workers' steps leave alone (do_work touches its own state, its two
   slots, its interrupt bit and the frames).                                  *)
LEMMA WorkerFrame ==
  ASSUME NEW w \in Workers, WorkerStep(w)
  PROVE  UNCHANGED <<tskq, mqueue, context_pool, stack_pool, task_mempool,
                     mcell_mempool, preempt_check, request, cnt, free_cnt, pkts,
                     types, short, disp_pc, disp_w, disp_k, disp_task, net_pc,
                     net_k, net_recv, mbuf_pool>>
<1>1. WorkerNext(w) => UNCHANGED <<dispatcherOnly, request, short>>
  BY Zenon DEF WorkerNext, init_worker, poll_request, take_request, handle_new_packet,
     handle_context, test_handler, work_done, send_reply, end_work,
     finish_request, finish_flag
<1> QED
  BY Zenon, <1>1 DEF WorkerStep

-----------------------------------------------------------------------------
(* The elements of a sequence over S are in S (mqueue, the task queues, the
   frames received).                                                          *)
LEMMA ElementType ==
  ASSUME NEW S, NEW s \in Seq(S), NEW i \in 1 .. Len(s)
  PROVE  s[i] \in S
OBVIOUS

(* tskq_enqueue_tail keeps the queues sequences over S.                       *)
LEMMA EnqueueTailType ==
  ASSUME NEW S, tskq \in [Types -> Seq(S)], task_mempool \in Nat,
         NEW task \in S, task.type \in Types, tskq_enqueue_tail(task)
  PROVE  tskq' \in [Types -> Seq(S)] /\ task_mempool' \in Nat
<1>1. Append(tskq[task.type], task) \in Seq(S)
  OBVIOUS
<1>2. CASE task_mempool = 0
  BY Zenon, <1>2 DEF tskq_enqueue_tail
<1>3. CASE task_mempool # 0
  <2> DEFINE q == Append(tskq[task.type], task)
  <2>1. /\ tskq' = [tskq EXCEPT ![task.type] = q]
        /\ task_mempool' = task_mempool - 1
    BY Zenon, <1>3 DEF tskq_enqueue_tail
  <2>2. q \in Seq(S)
    BY Zenon, <1>1
  <2> HIDE DEF q
  <2> QED
    BY <1>3, <2>1, <2>2
<1> QED
  BY Zenon, <1>2, <1>3

(* tskq_dequeue keeps the queues sequences over S, and the task is one of S.  *)
LEMMA DequeueType ==
  ASSUME NEW S, tskq \in [Types -> Seq(S)], task_mempool \in Nat,
         NEW t \in NonEmptyQueues, tskq_dequeue(t)
  PROVE  /\ tskq' \in [Types -> Seq(S)]
         /\ task_mempool' \in Nat
         /\ Head(tskq[t]) \in S
<1>1. t \in Types /\ tskq[t] \in Seq(S) /\ tskq[t] # <<>>
  BY Zenon DEF NonEmptyQueues
<1>2. Tail(tskq[t]) \in Seq(S) /\ Head(tskq[t]) \in S
  BY <1>1
<1> QED
  BY <1>1, <1>2 DEF tskq_dequeue

(* mbuf_enqueue keeps mqueue a sequence of buffers.                           *)
LEMMA MbufEnqueueType ==
  ASSUME mqueue \in Seq(Mbuf), mcell_mempool \in Int,
         NEW buf \in Mbuf \cup {NULL}, mbuf_enqueue(buf)
  PROVE  mqueue' \in Seq(Mbuf) /\ mcell_mempool' \in Int
<1>1. buf # NULL => <<buf>> \o mqueue \in Seq(Mbuf)
  <2> SUFFICES ASSUME buf \in Mbuf PROVE <<buf>> \o mqueue \in Seq(Mbuf)
    OBVIOUS
  <2>1. <<buf>> \in Seq(Mbuf)
    OBVIOUS
  <2> QED
    BY <2>1
<1>2. CASE buf = NULL
  BY Zenon, <1>2 DEF mbuf_enqueue
<1>3. CASE buf # NULL
  <2> DEFINE q == <<buf>> \o mqueue
  <2>1. mqueue' = q /\ mcell_mempool' = mcell_mempool - 1
    BY Zenon, <1>3 DEF mbuf_enqueue
  <2>2. q \in Seq(Mbuf)
    BY Zenon, <1>1, <1>3
  <2> HIDE DEF q
  <2> QED
    BY <2>1, <2>2
<1> QED
  BY Zenon, <1>2, <1>3

(* mbuf_dequeue keeps mqueue a sequence of buffers, and returns a buffer.     *)
LEMMA MbufDequeueType ==
  ASSUME mqueue \in Seq(Mbuf), mcell_mempool \in Int, mqueue # <<>>, mbuf_dequeue
  PROVE  mqueue' \in Seq(Mbuf) /\ mcell_mempool' \in Int /\ Head(mqueue) \in Mbuf
<1> QED
  BY DEF mbuf_dequeue

-----------------------------------------------------------------------------
(* networker_pointers has one owner at a time, and its counters stay within
   the batch (do_networking, handle_networker).                               *)
THEOREM PointersInvariant == Spec => []PointersInv
<1> USE DispatchAssumption DEF PointersInv, DispatcherPC, NetworkerPC
<1>1. Init => PointersInv
  BY DEF Init, DispatchInit, DispatcherInit, NetworkerInit
<1>2. PointersInv /\ [Next]_vars => PointersInv'
  <2> SUFFICES ASSUME PointersInv, [Next]_vars PROVE PointersInv'
    OBVIOUS
  <2>1. CASE handle_finished /\ UNCHANGED <<frameVars, workVars, netVars>>
    BY Zenon, <2>1 DEF handle_finished
  <2>2. CASE handle_preempted /\ UNCHANGED <<frameVars, workVars, netVars>>
    BY Zenon, <2>2 DEF handle_preempted
  <2>3. CASE handle_idle /\ UNCHANGED <<frameVars, workVars, netVars>>
    BY Zenon, <2>3 DEF handle_idle
  <2>4. CASE preempt_worker /\ UNCHANGED <<frameVars, workVars, netVars>>
    BY Zenon, <2>4 DEF preempt_worker, NextWorker
  <2>5. CASE leave_running /\ UNCHANGED <<frameVars, workVars, netVars>>
    BY Zenon, <2>5 DEF leave_running, NextWorker
  <2>6. CASE dispatch_none /\ UNCHANGED <<frameVars, workVars, netVars>>
    BY Zenon, <2>6 DEF dispatch_none, NextWorker
  <2>7. ASSUME NEW t \in Types, dispatch_take(t), UNCHANGED <<frameVars, workVars, netVars>>
        PROVE PointersInv'
    BY Zenon, <2>7 DEF dispatch_take
  <2>8. CASE dispatch_fill /\ UNCHANGED <<frameVars, workVars, netVars>>
    BY Zenon, <2>8 DEF dispatch_fill
  <2>9. CASE dispatch_activate /\ UNCHANGED <<frameVars, workVars, netVars>>
    BY Zenon, <2>9 DEF dispatch_activate, NextWorker
  <2>10. CASE networker_check /\ UNCHANGED <<frameVars, workVars, netVars>>
    BY <2>10 DEF networker_check
  <2>11. ASSUME NEW c \in Ctx, packet_queue(c), UNCHANGED <<frameVars, workVars, netVars>>
         PROVE PointersInv'
    BY <2>11 DEF packet_queue
  <2>12. CASE packet_drop /\ UNCHANGED <<frameVars, workVars, netVars>>
    BY <2>12 DEF packet_drop
  <2>13. CASE packets_done /\ UNCHANGED <<frameVars, workVars, netVars>>
    BY Zenon, <2>13 DEF packets_done
  <2>14. CASE give_buffer /\ UNCHANGED <<frameVars, workVars, netVars>>
    BY <2>14 DEF give_buffer
  <2>15. CASE give_done /\ UNCHANGED <<frameVars, workVars, netVars>>
    BY Zenon, <2>15 DEF give_done
  <2>16. ASSUME NEW w \in Workers, WorkerStep(w) PROVE PointersInv'
    BY Zenon, <2>16, WorkerFrame
  <2>17. ASSUME NEW p \in Mbuf, NEW t \in Types, recv_frame(p, t), UNCHANGED <<dispVars, workVars>>
         PROVE PointersInv'
    BY <2>17 DEF recv_frame
  <2>18. CASE recv_done /\ UNCHANGED <<dispVars, workVars>>
    BY Zenon, <2>18 DEF recv_done
  <2>19. CASE wait_dispatcher /\ UNCHANGED <<dispVars, workVars>>
    BY <2>19 DEF wait_dispatcher
  <2>20. CASE mbuf_free /\ UNCHANGED <<dispVars, workVars>>
    BY <2>20 DEF mbuf_free
  <2>21. CASE free_done /\ UNCHANGED <<dispVars, workVars>>
    BY <2>21 DEF free_done
  <2>22. CASE fill_packet /\ UNCHANGED <<dispVars, workVars>>
    BY <2>22 DEF fill_packet
  <2>23. CASE publish /\ UNCHANGED <<dispVars, workVars>>
    BY <2>23 DEF publish
  <2>24. CASE UNCHANGED vars
    BY Zenon, <2>24 DEF vars
  <2> QED
    BY ZenonT(30), <2>1, <2>2, <2>3, <2>4, <2>5, <2>6, <2>7, <2>8, <2>9, <2>10, <2>11,
       <2>12, <2>13, <2>14, <2>15, <2>16, <2>17, <2>18, <2>19, <2>20, <2>21,
       <2>22, <2>23, <2>24
       DEF Next, DispatcherStep, DispatcherNext, NetworkerStep, NetworkerNext,
           NetworkerLoop
<1> QED
  BY <1>1, <1>2, PTL DEF Spec
-----------------------------------------------------------------------------
(* The flags hand worker w's slots back and forth between dispatcher and
   worker (dispatch_request, handle_request, finish_request).                 *)
THEOREM HandshakeInvariant == Spec => []HandshakeInv
<1> USE DispatchAssumption DEF HandshakeInv, Workers, WorkerPC, RequestFlag, ResponseFlag
<1>1. Init => HandshakeInv
  BY DEF Init, DispatchInit, DispatcherInit, WorkerInit
<1>2. HandshakeInv /\ [Next]_vars => HandshakeInv'
  <2> SUFFICES ASSUME HandshakeInv, [Next]_vars PROVE HandshakeInv'
    OBVIOUS
  <2>1. CASE handle_finished /\ UNCHANGED <<frameVars, workVars, netVars>>
    BY ZenonT(30), <2>1
       DEF handle_finished, context_free, mbuf_enqueue
  <2>2. CASE handle_preempted /\ UNCHANGED <<frameVars, workVars, netVars>>
    BY ZenonT(30), <2>2
       DEF handle_preempted, tskq_enqueue_tail
  <2>3. CASE handle_idle /\ UNCHANGED <<frameVars, workVars, netVars>>
    BY Zenon, <2>3
       DEF handle_idle
  <2>4. CASE preempt_worker /\ UNCHANGED <<frameVars, workVars, netVars>>
    BY <2>4
       DEF preempt_worker, NextWorker
  <2>5. CASE leave_running /\ UNCHANGED <<frameVars, workVars, netVars>>
    BY <2>5
       DEF leave_running, NextWorker
  <2>6. CASE dispatch_none /\ UNCHANGED <<frameVars, workVars, netVars>>
    BY <2>6
       DEF dispatch_none, NextWorker
  <2>7. ASSUME NEW t \in Types, dispatch_take(t), UNCHANGED <<frameVars, workVars, netVars>>
       PROVE  HandshakeInv'
    BY ZenonT(30), <2>7
       DEF dispatch_take, tskq_dequeue, NonEmptyQueues
  <2>8. CASE dispatch_fill /\ UNCHANGED <<frameVars, workVars, netVars>>
    BY ZenonT(30), <2>8
       DEF dispatch_fill
  <2>9. CASE dispatch_activate /\ UNCHANGED <<frameVars, workVars, netVars>>
    BY <2>9
       DEF dispatch_activate, NextWorker
  <2>10. CASE networker_check /\ UNCHANGED <<frameVars, workVars, netVars>>
    BY Zenon, <2>10
       DEF networker_check
  <2>11. ASSUME NEW c \in Ctx, packet_queue(c), UNCHANGED <<frameVars, workVars, netVars>>
       PROVE  HandshakeInv'
    BY Zenon, <2>11
       DEF packet_queue, context_alloc, tskq_enqueue_tail
  <2>12. CASE packet_drop /\ UNCHANGED <<frameVars, workVars, netVars>>
    BY Zenon, <2>12
       DEF packet_drop, mbuf_enqueue
  <2>13. CASE packets_done /\ UNCHANGED <<frameVars, workVars, netVars>>
    BY Zenon, <2>13
       DEF packets_done
  <2>14. CASE give_buffer /\ UNCHANGED <<frameVars, workVars, netVars>>
    BY Zenon, <2>14
       DEF give_buffer, mbuf_dequeue
  <2>15. CASE give_done /\ UNCHANGED <<frameVars, workVars, netVars>>
    BY Zenon, <2>15
       DEF give_done
  <2>16. ASSUME NEW w \in Workers, init_worker(w), UNCHANGED <<dispVars, netVars>>
       PROVE  HandshakeInv'
    BY ZenonT(30), <2>16
       DEF init_worker, Goto
  <2>17. ASSUME NEW w \in Workers, poll_request(w), UNCHANGED <<dispVars, netVars>>
       PROVE  HandshakeInv'
    BY ZenonT(30), <2>17
       DEF poll_request, Goto
  <2>18. ASSUME NEW w \in Workers, take_request(w), UNCHANGED <<dispVars, netVars>>
       PROVE  HandshakeInv'
    BY ZenonT(30), <2>18
       DEF take_request, Goto
  <2>19. ASSUME NEW w \in Workers, handle_new_packet(w), UNCHANGED <<dispVars, netVars>>
       PROVE  HandshakeInv'
    BY <2>19
       DEF handle_new_packet, Goto
  <2>20. ASSUME NEW w \in Workers, handle_context(w), UNCHANGED <<dispVars, netVars>>
       PROVE  HandshakeInv'
    BY ZenonT(30), <2>20
       DEF handle_context, Goto
  <2>21. ASSUME NEW w \in Workers, test_handler(w), UNCHANGED <<dispVars, netVars>>
       PROVE  HandshakeInv'
    BY ZenonT(30), <2>21
       DEF test_handler, Goto
  <2>22. ASSUME NEW w \in Workers, work_done(w), UNCHANGED <<dispVars, netVars>>
       PROVE  HandshakeInv'
    BY ZenonT(30), <2>22
       DEF work_done, Goto
  <2>23. ASSUME NEW w \in Workers, NEW ok \in BOOLEAN, send_reply(w, ok), UNCHANGED <<dispVars, netVars>>
       PROVE  HandshakeInv'
    BY ZenonT(30), <2>23
       DEF send_reply, Goto
  <2>24. ASSUME NEW w \in Workers, end_work(w), UNCHANGED <<dispVars, netVars>>
       PROVE  HandshakeInv'
    BY ZenonT(30), <2>24
       DEF end_work, Goto
  <2>25. ASSUME NEW w \in Workers, finish_request(w), UNCHANGED <<dispVars, netVars>>
       PROVE  HandshakeInv'
    BY Zenon, <2>25
       DEF finish_request, Goto
  <2>26. ASSUME NEW w \in Workers, finish_flag(w), UNCHANGED <<dispVars, netVars>>
       PROVE  HandshakeInv'
    BY ZenonT(30), <2>26
       DEF finish_flag, Goto
  <2>27. ASSUME NEW p \in Mbuf, NEW t \in Types, recv_frame(p, t), UNCHANGED <<dispVars, workVars>>
       PROVE  HandshakeInv'
    BY Zenon, <2>27
       DEF recv_frame
  <2>28. CASE recv_done /\ UNCHANGED <<dispVars, workVars>>
    BY Zenon, <2>28
       DEF recv_done
  <2>29. CASE wait_dispatcher /\ UNCHANGED <<dispVars, workVars>>
    BY Zenon, <2>29
       DEF wait_dispatcher
  <2>30. CASE mbuf_free /\ UNCHANGED <<dispVars, workVars>>
    BY Zenon, <2>30
       DEF mbuf_free
  <2>31. CASE free_done /\ UNCHANGED <<dispVars, workVars>>
    BY Zenon, <2>31
       DEF free_done
  <2>32. CASE fill_packet /\ UNCHANGED <<dispVars, workVars>>
    BY Zenon, <2>32
       DEF fill_packet
  <2>33. CASE publish /\ UNCHANGED <<dispVars, workVars>>
    BY Zenon, <2>33
       DEF publish
  <2>34. CASE NetworkerStep
    BY ZenonT(30), <2>34, NetworkerFrame
  <2>35. CASE UNCHANGED vars
    BY Zenon, <2>35 DEF vars
  <2> HIDE DEF HandshakeInv
  <2> QED
    BY ZenonT(30), <2>1, <2>2, <2>3, <2>4, <2>5, <2>6, <2>7, <2>8, <2>9, <2>10, <2>11,
       <2>12, <2>13, <2>14, <2>15, <2>16, <2>17, <2>18, <2>19, <2>20, <2>21,
       <2>22, <2>23, <2>24, <2>25, <2>26, <2>27, <2>28, <2>29, <2>30, <2>31,
       <2>32, <2>33, <2>34, <2>35
       DEF Next, DispatcherStep, DispatcherNext, WorkerStep, WorkerNext
<1> QED
  BY <1>1, <1>2, PTL DEF Spec
-----------------------------------------------------------------------------
(* The slots, queues and local variables keep their types (all handlers).     *)
THEOREM DataInvariant == Spec => []DataInv
<1> USE DispatchAssumption DEF DataInv
<1>1. Init => DataInv
  BY DEF Init, DispatchInit, DispatcherInit, WorkerInit, NetworkerInit, ZeroTask, Task,
         Types
<1>2. DataInv /\ PointersInv /\ HandshakeInv /\ [Next]_vars => DataInv'
  <2> SUFFICES ASSUME DataInv, PointersInv, HandshakeInv, [Next]_vars PROVE DataInv'
    OBVIOUS
  <2>1. CASE handle_finished /\ UNCHANGED <<frameVars, workVars, netVars>>
    <3>1. response[disp_w].mbuf \in Mbuf \cup {NULL}
      BY Zenon DEF HandshakeInv, Task
    <3>2. mqueue' \in Seq(Mbuf) /\ mcell_mempool' \in Int
      BY Zenon, <3>1, <2>1, MbufEnqueueType DEF handle_finished
    <3>3. stack_pool' \in Int
      BY <2>1 DEF handle_finished, context_free
    <3>4. preempt_check' \in [Workers -> BOOLEAN]
      BY Zenon, <2>1 DEF handle_finished
    <3> QED
      BY Zenon, <3>2, <3>3, <3>4, <2>1 DEF handle_finished
  <2>2. CASE handle_preempted /\ UNCHANGED <<frameVars, workVars, netVars>>
    <3>1. response[disp_w] \in Task /\ response[disp_w].type \in Types
      BY Zenon DEF HandshakeInv, Task
    <3>2. tskq' \in [Types -> Seq(Task)] /\ task_mempool' \in Nat
      BY Zenon, <3>1, <2>2, EnqueueTailType DEF handle_preempted
    <3> QED
      BY Zenon, <3>2, <2>2 DEF handle_preempted
  <2>3. CASE handle_idle /\ UNCHANGED <<frameVars, workVars, netVars>>
    BY Zenon, <2>3
       DEF handle_idle
  <2>4. CASE preempt_worker /\ UNCHANGED <<frameVars, workVars, netVars>>
    BY Zenon, <2>4
       DEF preempt_worker, NextWorker
  <2>5. CASE leave_running /\ UNCHANGED <<frameVars, workVars, netVars>>
    BY Zenon, <2>5
       DEF leave_running, NextWorker
  <2>6. CASE dispatch_none /\ UNCHANGED <<frameVars, workVars, netVars>>
    BY Zenon, <2>6
       DEF dispatch_none, NextWorker
  <2>7. ASSUME NEW t \in Types, dispatch_take(t), UNCHANGED <<frameVars, workVars, netVars>>
       PROVE  DataInv'
    <3>1. /\ tskq' \in [Types -> Seq(Task)]
          /\ task_mempool' \in Nat
          /\ disp_task' \in Task
      BY Zenon, <2>7, DequeueType DEF dispatch_take
    <3> QED
      BY Zenon, <3>1, <2>7 DEF dispatch_take
  <2>8. CASE dispatch_fill /\ UNCHANGED <<frameVars, workVars, netVars>>
    <3>1. ZeroTask \in Task
      BY DEF ZeroTask, Task, Types
    <3> QED
      BY Zenon, <3>1, <2>8 DEF dispatch_fill
  <2>9. CASE dispatch_activate /\ UNCHANGED <<frameVars, workVars, netVars>>
    BY Zenon, <2>9
       DEF dispatch_activate, NextWorker
  <2>10. CASE networker_check /\ UNCHANGED <<frameVars, workVars, netVars>>
    BY Zenon, <2>10
       DEF networker_check
  <2>11. ASSUME NEW c \in Ctx, packet_queue(c), UNCHANGED <<frameVars, workVars, netVars>>
       PROVE  DataInv'
    <3> DEFINE task == [rnbl |-> c, mbuf |-> pkts[disp_k],
                        type |-> types[disp_k], category |-> "PACKET"]
    <3>1. disp_k \in Slots
      BY <2>11 DEF packet_queue, PointersInv, Slots
    <3>2. task \in Task /\ task.type \in Types
      BY Zenon, <3>1 DEF Task
    <3>3. tskq_enqueue_tail(task)
      BY Zenon, <2>11 DEF packet_queue
    <3> HIDE DEF task
    <3>4. tskq' \in [Types -> Seq(Task)] /\ task_mempool' \in Nat
      BY Zenon, <3>2, <3>3, EnqueueTailType
    <3> QED
      BY <3>4, <2>11 DEF packet_queue, context_alloc
  <2>12. CASE packet_drop /\ UNCHANGED <<frameVars, workVars, netVars>>
    <3>1. pkts[disp_k] \in Mbuf \cup {NULL}
      BY <2>12 DEF packet_drop, PointersInv, Slots
    <3>2. mqueue' \in Seq(Mbuf) /\ mcell_mempool' \in Int
      BY Zenon, <3>1, <2>12, MbufEnqueueType DEF packet_drop
    <3> QED
      BY Zenon, <3>2, <2>12 DEF packet_drop
  <2>13. CASE packets_done /\ UNCHANGED <<frameVars, workVars, netVars>>
    BY Zenon, <2>13
       DEF packets_done
  <2>14. CASE give_buffer /\ UNCHANGED <<frameVars, workVars, netVars>>
    <3>1. mqueue' \in Seq(Mbuf) /\ mcell_mempool' \in Int /\ Head(mqueue) \in Mbuf
      BY Zenon, <2>14, MbufDequeueType DEF give_buffer
    <3> QED
      BY Zenon, <3>1, <2>14 DEF give_buffer
  <2>15. CASE give_done /\ UNCHANGED <<frameVars, workVars, netVars>>
    BY Zenon, <2>15
       DEF give_done
  <2>16. ASSUME NEW w \in Workers, init_worker(w), UNCHANGED <<dispVars, netVars>>
       PROVE  DataInv'
    BY Zenon, <2>16
       DEF init_worker, Goto
  <2>17. ASSUME NEW w \in Workers, poll_request(w), UNCHANGED <<dispVars, netVars>>
       PROVE  DataInv'
    BY Zenon, <2>17
       DEF poll_request, Goto
  <2>18. ASSUME NEW w \in Workers, take_request(w), UNCHANGED <<dispVars, netVars>>
       PROVE  DataInv'
    BY Zenon, <2>18
       DEF take_request, Goto
  <2>19. ASSUME NEW w \in Workers, handle_new_packet(w), UNCHANGED <<dispVars, netVars>>
       PROVE  DataInv'
    <3>1. request[w].rnbl \in Ctx \cup {NULL}
      BY Zenon DEF Task
    <3>2. CASE request[w].mbuf \notin short
      <4>1. cont' \in [Workers -> Ctx \cup {NULL}]
        BY Zenon, <3>1, <3>2, <2>19 DEF handle_new_packet
      <4>2. finished' \in [Workers -> BOOLEAN]
        BY Zenon, <3>2, <2>19 DEF handle_new_packet
      <4> QED
        BY Zenon, <4>1, <4>2, <2>19 DEF handle_new_packet
    <3>3. CASE request[w].mbuf \in short
      <4>1. finished' \in [Workers -> BOOLEAN]
        BY Zenon, <3>3, <2>19 DEF handle_new_packet
      <4> QED
        BY Zenon, <4>1, <3>3, <2>19 DEF handle_new_packet
    <3> QED
      BY Zenon, <3>2, <3>3
  <2>20. ASSUME NEW w \in Workers, handle_context(w), UNCHANGED <<dispVars, netVars>>
       PROVE  DataInv'
    <3>1. request[w].rnbl \in Ctx \cup {NULL}
      BY Zenon DEF Task
    <3>2. cont' \in [Workers -> Ctx \cup {NULL}]
      BY Zenon, <3>1, <2>20 DEF handle_context
    <3>3. finished' \in [Workers -> BOOLEAN]
      BY Zenon, <2>20 DEF handle_context
    <3> QED
      BY Zenon, <3>2, <3>3, <2>20 DEF handle_context
  <2>21. ASSUME NEW w \in Workers, test_handler(w), UNCHANGED <<dispVars, netVars>>
       PROVE  DataInv'
    BY Zenon, <2>21
       DEF test_handler, Goto
  <2>22. ASSUME NEW w \in Workers, work_done(w), UNCHANGED <<dispVars, netVars>>
       PROVE  DataInv'
    BY Zenon, <2>22
       DEF work_done, Goto
  <2>23. ASSUME NEW w \in Workers, NEW ok \in BOOLEAN, send_reply(w, ok), UNCHANGED <<dispVars, netVars>>
       PROVE  DataInv'
    BY Zenon, <2>23
       DEF send_reply, Goto
  <2>24. ASSUME NEW w \in Workers, end_work(w), UNCHANGED <<dispVars, netVars>>
       PROVE  DataInv'
    BY Zenon, <2>24
       DEF end_work, Goto
  <2>25. ASSUME NEW w \in Workers, finish_request(w), UNCHANGED <<dispVars, netVars>>
       PROVE  DataInv'
    <3>1. [rnbl |-> cont[w], mbuf |-> request[w].mbuf,
           type |-> request[w].type, category |-> "CONTEXT"] \in Task
      BY Zenon DEF Task
    <3> QED
      BY Zenon, <3>1, <2>25 DEF finish_request
  <2>26. ASSUME NEW w \in Workers, finish_flag(w), UNCHANGED <<dispVars, netVars>>
       PROVE  DataInv'
    BY Zenon, <2>26
       DEF finish_flag, Goto
  <2>27. ASSUME NEW p \in Mbuf, NEW t \in Types, recv_frame(p, t), UNCHANGED <<dispVars, workVars>>
       PROVE  DataInv'
    <3>1. mbuf_pool' \in [Mbuf -> Nat]
      BY <2>27 DEF recv_frame
    <3> QED
      BY Zenon, <3>1, <2>27 DEF recv_frame
  <2>28. CASE recv_done /\ UNCHANGED <<dispVars, workVars>>
    BY Zenon, <2>28
       DEF recv_done
  <2>29. CASE wait_dispatcher /\ UNCHANGED <<dispVars, workVars>>
    BY Zenon, <2>29
       DEF wait_dispatcher
  <2>30. CASE mbuf_free /\ UNCHANGED <<dispVars, workVars>>
    <3>1. mbuf_pool' \in [Mbuf -> Nat]
      <4> DEFINE p == pkts[net_k]
      <4>1. mbuf_pool' = [mbuf_pool EXCEPT ![p] = mbuf_pool[p] + 1]
        BY Zenon, <2>30 DEF mbuf_free
      <4> HIDE DEF p
      <4>2. p \in Mbuf => mbuf_pool[p] + 1 \in Nat
        OBVIOUS
      <4> QED
        BY Zenon, <4>1, <4>2
    <3> QED
      BY Zenon, <3>1, <2>30 DEF mbuf_free
  <2>31. CASE free_done /\ UNCHANGED <<dispVars, workVars>>
    BY Zenon, <2>31
       DEF free_done
  <2>32. CASE fill_packet /\ UNCHANGED <<dispVars, workVars>>
    <3>1. net_k + 1 \in 1 .. Len(net_recv)
      <4>1. net_k \in 0 .. Batch /\ net_recv \in Seq([mbuf : Mbuf, type : Types])
        BY Zenon DEF PointersInv
      <4>2. net_k < Len(net_recv)
        BY Zenon, <2>32 DEF fill_packet
      <4>3. net_k \in Nat /\ Len(net_recv) \in Nat
        BY <4>1, DispatchAssumption
      <4> QED
        BY <4>2, <4>3
    <3>2. net_recv[net_k + 1] \in [mbuf : Mbuf, type : Types]
      <4>1. net_recv \in Seq([mbuf : Mbuf, type : Types])
        BY Zenon DEF PointersInv
      <4> QED
        BY Zenon, <3>1, <4>1, ElementType
    <3>3. net_recv[net_k + 1].mbuf \in Mbuf /\ net_recv[net_k + 1].type \in Types
      BY Zenon, <3>2
    <3> QED
      BY Zenon, <3>3, <2>32 DEF fill_packet
  <2>33. CASE publish /\ UNCHANGED <<dispVars, workVars>>
    BY Zenon, <2>33
       DEF publish
  <2>34. CASE UNCHANGED vars
    BY Zenon, <2>34 DEF vars
  <2> HIDE DEF DataInv
  <2> QED
    BY ZenonT(30), <2>1, <2>2, <2>3, <2>4, <2>5, <2>6, <2>7, <2>8, <2>9, <2>10, <2>11,
       <2>12, <2>13, <2>14, <2>15, <2>16, <2>17, <2>18, <2>19, <2>20, <2>21,
       <2>22, <2>23, <2>24, <2>25, <2>26, <2>27, <2>28, <2>29, <2>30, <2>31,
       <2>32, <2>33, <2>34
       DEF Next, DispatcherStep, DispatcherNext, WorkerStep, WorkerNext,
          NetworkerStep, NetworkerNext, NetworkerLoop
<1> QED
  BY <1>1, <1>2, PointersInvariant, HandshakeInvariant, PTL DEF Spec

-----------------------------------------------------------------------------
(* A worker runs and reports the request in its slot (handle_new_packet,
   handle_context, finish_request).                                           *)
THEOREM RunInvariant == Spec => []RunInv
<1> USE DispatchAssumption DEF RunInv, RunsOwnRequest
<1>1. Init => RunInv
  BY Zenon DEF Init, DispatchInit, WorkerInit
<1>2. RunInv /\ DataInv /\ HandshakeInv /\ [Next]_vars => RunInv'
  <2> SUFFICES ASSUME RunInv, DataInv, HandshakeInv, [Next]_vars PROVE RunInv'
    OBVIOUS
  <2> USE DEF DataInv, HandshakeInv
  <2>1. CASE handle_finished /\ UNCHANGED <<frameVars, workVars, netVars>>
    BY Zenon, <2>1
       DEF handle_finished
  <2>2. CASE handle_preempted /\ UNCHANGED <<frameVars, workVars, netVars>>
    BY Zenon, <2>2
       DEF handle_preempted
  <2>3. CASE handle_idle /\ UNCHANGED <<frameVars, workVars, netVars>>
    BY Zenon, <2>3
       DEF handle_idle
  <2>4. CASE preempt_worker /\ UNCHANGED <<frameVars, workVars, netVars>>
    BY ZenonT(30), <2>4
       DEF preempt_worker
  <2>5. CASE leave_running /\ UNCHANGED <<frameVars, workVars, netVars>>
    BY Zenon, <2>5
       DEF leave_running
  <2>6. CASE dispatch_none /\ UNCHANGED <<frameVars, workVars, netVars>>
    BY Zenon, <2>6
       DEF dispatch_none
  <2>7. ASSUME NEW t \in Types, dispatch_take(t), UNCHANGED <<frameVars, workVars, netVars>>
       PROVE  RunInv'
    BY Zenon, <2>7
       DEF dispatch_take
  <2>8. CASE dispatch_fill /\ UNCHANGED <<frameVars, workVars, netVars>>
    BY ZenonT(30), <2>8
       DEF dispatch_fill
  <2>9. CASE dispatch_activate /\ UNCHANGED <<frameVars, workVars, netVars>>
    BY Zenon, <2>9
       DEF dispatch_activate
  <2>10. CASE networker_check /\ UNCHANGED <<frameVars, workVars, netVars>>
    BY Zenon, <2>10
       DEF networker_check
  <2>11. ASSUME NEW c \in Ctx, packet_queue(c), UNCHANGED <<frameVars, workVars, netVars>>
       PROVE  RunInv'
    BY Zenon, <2>11
       DEF packet_queue
  <2>12. CASE packet_drop /\ UNCHANGED <<frameVars, workVars, netVars>>
    BY Zenon, <2>12
       DEF packet_drop
  <2>13. CASE packets_done /\ UNCHANGED <<frameVars, workVars, netVars>>
    BY Zenon, <2>13
       DEF packets_done
  <2>14. CASE give_buffer /\ UNCHANGED <<frameVars, workVars, netVars>>
    BY Zenon, <2>14
       DEF give_buffer
  <2>15. CASE give_done /\ UNCHANGED <<frameVars, workVars, netVars>>
    BY Zenon, <2>15
       DEF give_done
  <2>16. ASSUME NEW w \in Workers, init_worker(w), UNCHANGED <<dispVars, netVars>>
       PROVE  RunInv'
    BY ZenonT(60), <2>16
       DEF init_worker, Goto
  <2>17. ASSUME NEW w \in Workers, poll_request(w), UNCHANGED <<dispVars, netVars>>
       PROVE  RunInv'
    BY ZenonT(60), <2>17
       DEF poll_request, Goto
  <2>18. ASSUME NEW w \in Workers, take_request(w), UNCHANGED <<dispVars, netVars>>
       PROVE  RunInv'
    BY ZenonT(60), <2>18
       DEF take_request, Goto
  <2>19. ASSUME NEW w \in Workers, handle_new_packet(w), UNCHANGED <<dispVars, netVars>>
       PROVE  RunInv'
    <3>1. request[w].mbuf \notin short
      OBVIOUS
    <3>2. /\ work_pc' = [work_pc EXCEPT ![w] = "run"]
          /\ cont' = [cont EXCEPT ![w] = request[w].rnbl]
      BY Zenon, <3>1, <2>19 DEF handle_new_packet, Goto
    <3> QED
      BY ZenonT(30), <3>2, <2>19 DEF handle_new_packet
  <2>20. ASSUME NEW w \in Workers, handle_context(w), UNCHANGED <<dispVars, netVars>>
       PROVE  RunInv'
    BY ZenonT(30), <2>20
       DEF handle_context, Goto
  <2>21. ASSUME NEW w \in Workers, test_handler(w), UNCHANGED <<dispVars, netVars>>
       PROVE  RunInv'
    BY ZenonT(60), <2>21
       DEF test_handler, Goto
  <2>22. ASSUME NEW w \in Workers, work_done(w), UNCHANGED <<dispVars, netVars>>
       PROVE  RunInv'
    BY ZenonT(30), <2>22
       DEF work_done, Goto
  <2>23. ASSUME NEW w \in Workers, NEW ok \in BOOLEAN, send_reply(w, ok), UNCHANGED <<dispVars, netVars>>
       PROVE  RunInv'
    BY ZenonT(30), <2>23
       DEF send_reply, Goto
  <2>24. ASSUME NEW w \in Workers, end_work(w), UNCHANGED <<dispVars, netVars>>
       PROVE  RunInv'
    BY ZenonT(30), <2>24
       DEF end_work, Goto
  <2>25. ASSUME NEW w \in Workers, finish_request(w), UNCHANGED <<dispVars, netVars>>
       PROVE  RunInv'
    BY ZenonT(30), <2>25
       DEF finish_request, Goto
  <2>26. ASSUME NEW w \in Workers, finish_flag(w), UNCHANGED <<dispVars, netVars>>
       PROVE  RunInv'
    BY ZenonT(30), <2>26
       DEF finish_flag, Goto
  <2>27. ASSUME NEW p \in Mbuf, NEW t \in Types, recv_frame(p, t), UNCHANGED <<dispVars, workVars>>
       PROVE  RunInv'
    BY Zenon, <2>27
       DEF recv_frame
  <2>28. CASE recv_done /\ UNCHANGED <<dispVars, workVars>>
    BY ZenonT(30), <2>28
       DEF recv_done
  <2>29. CASE wait_dispatcher /\ UNCHANGED <<dispVars, workVars>>
    BY Zenon, <2>29
       DEF wait_dispatcher
  <2>30. CASE mbuf_free /\ UNCHANGED <<dispVars, workVars>>
    BY Zenon, <2>30
       DEF mbuf_free
  <2>31. CASE free_done /\ UNCHANGED <<dispVars, workVars>>
    BY Zenon, <2>31
       DEF free_done
  <2>32. CASE fill_packet /\ UNCHANGED <<dispVars, workVars>>
    BY Zenon, <2>32
       DEF fill_packet
  <2>33. CASE publish /\ UNCHANGED <<dispVars, workVars>>
    BY Zenon, <2>33
       DEF publish
  <2>34. CASE UNCHANGED vars
    BY Zenon, <2>34 DEF vars
  <2> HIDE DEF RunInv, DataInv, HandshakeInv
  <2> QED
    BY ZenonT(30), <2>1, <2>2, <2>3, <2>4, <2>5, <2>6, <2>7, <2>8, <2>9, <2>10, <2>11,
       <2>12, <2>13, <2>14, <2>15, <2>16, <2>17, <2>18, <2>19, <2>20, <2>21,
       <2>22, <2>23, <2>24, <2>25, <2>26, <2>27, <2>28, <2>29, <2>30, <2>31,
       <2>32, <2>33, <2>34
       DEF Next, DispatcherStep, DispatcherNext, WorkerStep, WorkerNext,
          NetworkerStep, NetworkerNext, NetworkerLoop
<1> QED
  BY <1>1, <1>2, DataInvariant, HandshakeInvariant, PTL DEF Spec
-----------------------------------------------------------------------------
(* Whatever is queued or given to a worker has a context and a buffer
   (handle_networker, handle_preempted, dispatch_request).                    *)
THEOREM TasksInvariant == Spec => []TasksInv
<1> USE DispatchAssumption DEF TasksInv, HasTask, TaskOf
<1>1. Init => TasksInv
  BY DEF Init, DispatchInit, DispatcherInit, WorkerInit, NetworkerInit, Slots
<1>2. TasksInv /\ PointersInv /\ HandshakeInv /\ DataInv /\ RunInv /\ [Next]_vars => TasksInv'
  <2> SUFFICES ASSUME TasksInv, PointersInv, HandshakeInv, DataInv, RunInv, [Next]_vars
               PROVE  TasksInv'
    OBVIOUS
  <2>h. /\ disp_w \in Workers
        /\ request \in [Workers -> Task] /\ response \in [Workers -> Task]
        /\ request_flag \in [Workers -> RequestFlag]
        /\ response_flag \in [Workers -> ResponseFlag]
        /\ work_pc \in [Workers -> WorkerPC]
        /\ pkts \in [Slots -> Mbuf \cup {NULL}]
        /\ task_mempool \in Nat
    BY Zenon DEF HandshakeInv, DataInv
  <2>1. CASE handle_finished /\ UNCHANGED <<frameVars, workVars, netVars>>
    BY Zenon, <2>1, <2>h
       DEF handle_finished
  <2>2. CASE handle_preempted /\ UNCHANGED <<frameVars, workVars, netVars>>
    <3>1. response[disp_w] \in OwnedTask /\ response[disp_w].type \in Types
      BY Zenon, <2>h, <2>2 DEF handle_preempted, HandshakeInv, OwnedTask, WorkerPC
    <3>2. tskq' \in [Types -> Seq(OwnedTask)]
      BY Zenon, <2>h, <3>1, <2>2, EnqueueTailType DEF handle_preempted
    <3> QED
      BY Zenon, <2>h, <3>2, <2>2 DEF handle_preempted
  <2>3. CASE handle_idle /\ UNCHANGED <<frameVars, workVars, netVars>>
    BY Zenon, <2>3, <2>h
       DEF handle_idle
  <2>4. CASE preempt_worker /\ UNCHANGED <<frameVars, workVars, netVars>>
    BY Zenon, <2>4, <2>h
       DEF preempt_worker, NextWorker
  <2>5. CASE leave_running /\ UNCHANGED <<frameVars, workVars, netVars>>
    BY Zenon, <2>5, <2>h
       DEF leave_running, NextWorker
  <2>6. CASE dispatch_none /\ UNCHANGED <<frameVars, workVars, netVars>>
    BY Zenon, <2>6, <2>h
       DEF dispatch_none, NextWorker
  <2>7. ASSUME NEW t \in Types, dispatch_take(t), UNCHANGED <<frameVars, workVars, netVars>>
       PROVE  TasksInv'
    <3>1. tskq' \in [Types -> Seq(OwnedTask)] /\ disp_task' \in OwnedTask
      BY Zenon, <2>h, <2>7, DequeueType DEF dispatch_take
    <3> QED
      BY Zenon, <2>h, <3>1, <2>7 DEF dispatch_take
  <2>8. CASE dispatch_fill /\ UNCHANGED <<frameVars, workVars, netVars>>
    BY Zenon, <2>8, <2>h
       DEF dispatch_fill, HandshakeInv
  <2>9. CASE dispatch_activate /\ UNCHANGED <<frameVars, workVars, netVars>>
    BY Zenon, <2>9, <2>h
       DEF dispatch_activate, NextWorker
  <2>10. CASE networker_check /\ UNCHANGED <<frameVars, workVars, netVars>>
    BY Zenon, <2>10, <2>h
       DEF networker_check
  <2>11. ASSUME NEW c \in Ctx, packet_queue(c), UNCHANGED <<frameVars, workVars, netVars>>
       PROVE  TasksInv'
    <3> DEFINE task == [rnbl |-> c, mbuf |-> pkts[disp_k],
                        type |-> types[disp_k], category |-> "PACKET"]
    <3>1. disp_k \in Slots /\ pkts[disp_k] \in Mbuf
      BY <2>11 DEF packet_queue, PointersInv, Slots
    <3>2. task \in OwnedTask /\ task.type \in Types
      BY Zenon, <3>1 DEF OwnedTask, DataInv
    <3>3. tskq_enqueue_tail(task)
      BY Zenon, <2>11 DEF packet_queue
    <3> HIDE DEF task
    <3>4. tskq' \in [Types -> Seq(OwnedTask)]
      BY Zenon, <2>h, <3>2, <3>3, EnqueueTailType
    <3> QED
      BY ZenonT(30), <2>h, <3>4, <2>11 DEF packet_queue
  <2>12. CASE packet_drop /\ UNCHANGED <<frameVars, workVars, netVars>>
    BY Zenon, <2>12, <2>h
       DEF packet_drop
  <2>13. CASE packets_done /\ UNCHANGED <<frameVars, workVars, netVars>>
    BY Zenon, <2>13, <2>h
       DEF packets_done
  <2>14. CASE give_buffer /\ UNCHANGED <<frameVars, workVars, netVars>>
    <3>1. net_pc # "fill"
      BY Zenon, <2>14 DEF give_buffer, PointersInv
    <3> QED
      BY Zenon, <2>h, <3>1, <2>14 DEF give_buffer
  <2>15. CASE give_done /\ UNCHANGED <<frameVars, workVars, netVars>>
    <3>1. net_pc # "fill"
      BY Zenon, <2>15 DEF give_done, PointersInv
    <3> QED
      BY <2>h, <3>1, <2>15 DEF give_done, Slots
  <2>16. ASSUME NEW w \in Workers, init_worker(w), UNCHANGED <<dispVars, netVars>>
       PROVE  TasksInv'
    BY Zenon, <2>16, <2>h
       DEF init_worker, Goto, HandshakeInv, RunInv
  <2>17. ASSUME NEW w \in Workers, poll_request(w), UNCHANGED <<dispVars, netVars>>
       PROVE  TasksInv'
    BY Zenon, <2>17, <2>h
       DEF poll_request, Goto, HandshakeInv, RunInv
  <2>18. ASSUME NEW w \in Workers, take_request(w), UNCHANGED <<dispVars, netVars>>
       PROVE  TasksInv'
    BY Zenon, <2>18, <2>h
       DEF take_request, Goto, HandshakeInv, RunInv
  <2>19. ASSUME NEW w \in Workers, handle_new_packet(w), UNCHANGED <<dispVars, netVars>>
       PROVE  TasksInv'
    BY ZenonT(30), <2>19, <2>h
       DEF handle_new_packet, Goto, HandshakeInv, RunInv
  <2>20. ASSUME NEW w \in Workers, handle_context(w), UNCHANGED <<dispVars, netVars>>
       PROVE  TasksInv'
    BY Zenon, <2>20, <2>h
       DEF handle_context, Goto, HandshakeInv, RunInv
  <2>21. ASSUME NEW w \in Workers, test_handler(w), UNCHANGED <<dispVars, netVars>>
       PROVE  TasksInv'
    BY Zenon, <2>21, <2>h
       DEF test_handler, Goto, HandshakeInv, RunInv
  <2>22. ASSUME NEW w \in Workers, work_done(w), UNCHANGED <<dispVars, netVars>>
       PROVE  TasksInv'
    BY Zenon, <2>22, <2>h
       DEF work_done, Goto, HandshakeInv, RunInv
  <2>23. ASSUME NEW w \in Workers, NEW ok \in BOOLEAN, send_reply(w, ok), UNCHANGED <<dispVars, netVars>>
       PROVE  TasksInv'
    BY Zenon, <2>23, <2>h
       DEF send_reply, Goto, HandshakeInv, RunInv
  <2>24. ASSUME NEW w \in Workers, end_work(w), UNCHANGED <<dispVars, netVars>>
       PROVE  TasksInv'
    BY Zenon, <2>24, <2>h
       DEF end_work, Goto, HandshakeInv, RunInv
  <2>25. ASSUME NEW w \in Workers, finish_request(w), UNCHANGED <<dispVars, netVars>>
       PROVE  TasksInv'
    <3> QED
      BY Zenon, <2>h, <2>25 DEF finish_request, Goto, HandshakeInv
  <2>26. ASSUME NEW w \in Workers, finish_flag(w), UNCHANGED <<dispVars, netVars>>
       PROVE  TasksInv'
    <3>1. ~(disp_pc = "fill" /\ disp_w = w) /\ response_flag[w] = "RUNNING"
      BY Zenon, <2>26 DEF finish_flag, Goto, HandshakeInv
    <3>2. request[w] \in OwnedTask
      BY Zenon, <3>1, <2>26 DEF finish_flag, Goto
    <3>3. response[w] \in OwnedTask
      BY ZenonT(30), <2>h, <3>2, <2>26 DEF finish_flag, Goto, RunInv, OwnedTask, Task
    <3>4. response_flag'[w] # "RUNNING"
      BY Zenon, <2>h, <2>26 DEF finish_flag
    <3> QED
      BY Zenon, <2>h, <3>1, <3>3, <3>4, <2>26 DEF finish_flag, Goto
  <2>27. ASSUME NEW p \in Mbuf, NEW t \in Types, recv_frame(p, t), UNCHANGED <<dispVars, workVars>>
       PROVE  TasksInv'
    BY Zenon, <2>27, <2>h
       DEF recv_frame
  <2>28. CASE recv_done /\ UNCHANGED <<dispVars, workVars>>
    BY Zenon, <2>28, <2>h
       DEF recv_done
  <2>29. CASE wait_dispatcher /\ UNCHANGED <<dispVars, workVars>>
    BY Zenon, <2>29, <2>h
       DEF wait_dispatcher
  <2>30. CASE mbuf_free /\ UNCHANGED <<dispVars, workVars>>
    BY Zenon, <2>30, <2>h
       DEF mbuf_free, Slots, PointersInv
  <2>31. CASE free_done /\ UNCHANGED <<dispVars, workVars>>
    BY Zenon, <2>31, <2>h
       DEF free_done, Slots, PointersInv
  <2>32. CASE fill_packet /\ UNCHANGED <<dispVars, workVars>>
    <3>1. net_k + 1 \in 1 .. Len(net_recv) /\ net_k \in Slots
      BY <2>32 DEF fill_packet, PointersInv, Slots
    <3>2. net_recv[net_k + 1] \in [mbuf : Mbuf, type : Types]
      <4>1. net_recv \in Seq([mbuf : Mbuf, type : Types])
        BY Zenon DEF PointersInv
      <4> QED
        BY Zenon, <3>1, <4>1, ElementType
    <3>3. net_recv[net_k + 1].mbuf \in Mbuf
      BY Zenon, <3>2
    <3>4. \A k \in Slots : k < net_k' => pkts'[k] \in Mbuf
      <4> SUFFICES ASSUME NEW k \in Slots, k < net_k + 1 PROVE pkts'[k] \in Mbuf
        BY Zenon, <2>32 DEF fill_packet
      <4>1. pkts' = [pkts EXCEPT ![net_k] = net_recv[net_k + 1].mbuf]
        BY Zenon, <2>32 DEF fill_packet
      <4>2. CASE k = net_k
        BY Zenon, <2>h, <3>1, <3>3, <4>1, <4>2
      <4>3. CASE k # net_k
        <5>1. k < net_k
          BY <3>1, <4>3 DEF Slots
        <5> QED
          BY Zenon, <2>h, <4>1, <4>3, <5>1, <2>32 DEF fill_packet
      <4> QED
        BY Zenon, <4>2, <4>3
    <3>5. cnt' = 0
      BY Zenon, <2>32 DEF fill_packet, PointersInv
    <3> QED
      BY <2>h, <3>4, <3>5, <2>32 DEF fill_packet, Slots
  <2>33. CASE publish /\ UNCHANGED <<dispVars, workVars>>
    <3>1. \A k \in Slots : k < cnt' => pkts[k] \in Mbuf
      BY Zenon, <2>33 DEF publish
    <3> QED
      BY Zenon, <2>h, <3>1, <2>33 DEF publish
  <2>34. CASE UNCHANGED vars
    BY Zenon, <2>34 DEF vars
  <2> HIDE DEF TasksInv
  <2> QED
    BY ZenonT(30), <2>1, <2>2, <2>3, <2>4, <2>5, <2>6, <2>7, <2>8, <2>9, <2>10, <2>11,
       <2>12, <2>13, <2>14, <2>15, <2>16, <2>17, <2>18, <2>19, <2>20, <2>21,
       <2>22, <2>23, <2>24, <2>25, <2>26, <2>27, <2>28, <2>29, <2>30, <2>31,
       <2>32, <2>33, <2>34
       DEF Next, DispatcherStep, DispatcherNext, WorkerStep, WorkerNext,
          NetworkerStep, NetworkerNext, NetworkerLoop
<1> QED
  BY <1>1, <1>2, PointersInvariant, HandshakeInvariant, DataInvariant,
     RunInvariant, PTL DEF Spec
-----------------------------------------------------------------------------
(* What handle_finished frees is a context, what send_reply answers a buffer. *)
THEOREM PoolInvariant == Spec => []PoolInv
<1> USE DispatchAssumption DEF PoolInv
<1>1. Init => PoolInv
  BY Zenon DEF Init, DispatchInit
<1>2. PoolInv /\ HandshakeInv /\ TasksInv /\ [Next]_vars => PoolInv'
  <2> SUFFICES ASSUME PoolInv, HandshakeInv, TasksInv, [Next]_vars
               PROVE  PoolInv'
    OBVIOUS
  <2>1. CASE handle_finished /\ UNCHANGED <<frameVars, workVars, netVars>>
    <3>1. HasTask(disp_w) /\ TaskOf(disp_w) = response[disp_w]
      BY Zenon, <2>1 DEF handle_finished, HandshakeInv, HasTask, TaskOf
    <3>2. response[disp_w].rnbl \in Ctx
      BY Zenon, <3>1 DEF TasksInv, HandshakeInv, OwnedTask
    <3> QED
      BY Zenon, <3>2, <2>1 DEF handle_finished, context_free
  <2>2. CASE handle_preempted /\ UNCHANGED <<frameVars, workVars, netVars>>
    BY Zenon, <2>2
       DEF handle_preempted
  <2>3. CASE handle_idle /\ UNCHANGED <<frameVars, workVars, netVars>>
    BY Zenon, <2>3
       DEF handle_idle
  <2>4. CASE preempt_worker /\ UNCHANGED <<frameVars, workVars, netVars>>
    BY Zenon, <2>4
       DEF preempt_worker
  <2>5. CASE leave_running /\ UNCHANGED <<frameVars, workVars, netVars>>
    BY Zenon, <2>5
       DEF leave_running
  <2>6. CASE dispatch_none /\ UNCHANGED <<frameVars, workVars, netVars>>
    BY Zenon, <2>6
       DEF dispatch_none
  <2>7. ASSUME NEW t \in Types, dispatch_take(t), UNCHANGED <<frameVars, workVars, netVars>>
       PROVE  PoolInv'
    BY Zenon, <2>7
       DEF dispatch_take
  <2>8. CASE dispatch_fill /\ UNCHANGED <<frameVars, workVars, netVars>>
    BY Zenon, <2>8
       DEF dispatch_fill
  <2>9. CASE dispatch_activate /\ UNCHANGED <<frameVars, workVars, netVars>>
    BY Zenon, <2>9
       DEF dispatch_activate
  <2>10. CASE networker_check /\ UNCHANGED <<frameVars, workVars, netVars>>
    BY Zenon, <2>10
       DEF networker_check
  <2>11. ASSUME NEW c \in Ctx, packet_queue(c), UNCHANGED <<frameVars, workVars, netVars>>
       PROVE  PoolInv'
    BY Zenon, <2>11
       DEF packet_queue, context_alloc
  <2>12. CASE packet_drop /\ UNCHANGED <<frameVars, workVars, netVars>>
    BY Zenon, <2>12
       DEF packet_drop
  <2>13. CASE packets_done /\ UNCHANGED <<frameVars, workVars, netVars>>
    BY Zenon, <2>13
       DEF packets_done
  <2>14. CASE give_buffer /\ UNCHANGED <<frameVars, workVars, netVars>>
    BY Zenon, <2>14
       DEF give_buffer
  <2>15. CASE give_done /\ UNCHANGED <<frameVars, workVars, netVars>>
    BY Zenon, <2>15
       DEF give_done
  <2>16. ASSUME NEW w \in Workers, init_worker(w), UNCHANGED <<dispVars, netVars>>
       PROVE  PoolInv'
    BY Zenon, <2>16
       DEF init_worker
  <2>17. ASSUME NEW w \in Workers, poll_request(w), UNCHANGED <<dispVars, netVars>>
       PROVE  PoolInv'
    BY Zenon, <2>17
       DEF poll_request
  <2>18. ASSUME NEW w \in Workers, take_request(w), UNCHANGED <<dispVars, netVars>>
       PROVE  PoolInv'
    BY Zenon, <2>18
       DEF take_request
  <2>19. ASSUME NEW w \in Workers, handle_new_packet(w), UNCHANGED <<dispVars, netVars>>
       PROVE  PoolInv'
    BY Zenon, <2>19
       DEF handle_new_packet
  <2>20. ASSUME NEW w \in Workers, handle_context(w), UNCHANGED <<dispVars, netVars>>
       PROVE  PoolInv'
    BY Zenon, <2>20
       DEF handle_context
  <2>21. ASSUME NEW w \in Workers, test_handler(w), UNCHANGED <<dispVars, netVars>>
       PROVE  PoolInv'
    BY Zenon, <2>21
       DEF test_handler
  <2>22. ASSUME NEW w \in Workers, work_done(w), UNCHANGED <<dispVars, netVars>>
       PROVE  PoolInv'
    BY Zenon, <2>22
       DEF work_done
  <2>23. ASSUME NEW w \in Workers, NEW ok \in BOOLEAN, send_reply(w, ok), UNCHANGED <<dispVars, netVars>>
       PROVE  PoolInv'
    <3>1. HasTask(w) /\ TaskOf(w) = request[w]
      BY Zenon, <2>23 DEF send_reply, Goto, HandshakeInv, HasTask, TaskOf
    <3>2. request[w].mbuf \in Mbuf
      BY Zenon, <3>1 DEF TasksInv, OwnedTask
    <3> QED
      BY Zenon, <3>2, <2>23 DEF send_reply
  <2>24. ASSUME NEW w \in Workers, end_work(w), UNCHANGED <<dispVars, netVars>>
       PROVE  PoolInv'
    BY Zenon, <2>24
       DEF end_work
  <2>25. ASSUME NEW w \in Workers, finish_request(w), UNCHANGED <<dispVars, netVars>>
       PROVE  PoolInv'
    BY Zenon, <2>25
       DEF finish_request
  <2>26. ASSUME NEW w \in Workers, finish_flag(w), UNCHANGED <<dispVars, netVars>>
       PROVE  PoolInv'
    BY Zenon, <2>26
       DEF finish_flag
  <2>27. ASSUME NEW p \in Mbuf, NEW t \in Types, recv_frame(p, t), UNCHANGED <<dispVars, workVars>>
       PROVE  PoolInv'
    BY Zenon, <2>27
       DEF recv_frame
  <2>28. CASE recv_done /\ UNCHANGED <<dispVars, workVars>>
    BY Zenon, <2>28
       DEF recv_done
  <2>29. CASE wait_dispatcher /\ UNCHANGED <<dispVars, workVars>>
    BY Zenon, <2>29
       DEF wait_dispatcher
  <2>30. CASE mbuf_free /\ UNCHANGED <<dispVars, workVars>>
    BY Zenon, <2>30
       DEF mbuf_free
  <2>31. CASE free_done /\ UNCHANGED <<dispVars, workVars>>
    BY Zenon, <2>31
       DEF free_done
  <2>32. CASE fill_packet /\ UNCHANGED <<dispVars, workVars>>
    BY Zenon, <2>32
       DEF fill_packet
  <2>33. CASE publish /\ UNCHANGED <<dispVars, workVars>>
    BY Zenon, <2>33
       DEF publish
  <2>34. CASE UNCHANGED vars
    BY Zenon, <2>34 DEF vars
  <2> HIDE DEF PoolInv
  <2> QED
    BY Zenon, <2>1, <2>2, <2>3, <2>4, <2>5, <2>6, <2>7, <2>8, <2>9, <2>10, <2>11,
       <2>12, <2>13, <2>14, <2>15, <2>16, <2>17, <2>18, <2>19, <2>20, <2>21,
       <2>22, <2>23, <2>24, <2>25, <2>26, <2>27, <2>28, <2>29, <2>30, <2>31,
       <2>32, <2>33, <2>34
       DEF Next, DispatcherStep, DispatcherNext, WorkerStep, WorkerNext,
          NetworkerStep, NetworkerNext, NetworkerLoop
<1> QED
  BY <1>1, <1>2, HandshakeInvariant, TasksInvariant, PTL DEF Spec

=============================================================================
