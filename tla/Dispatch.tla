------------------------------- MODULE Dispatch -------------------------------
(***************************************************************************)
(* The memory the three kinds of cores share, and the queue and context    *)
(* helpers they call (inc/ix/dispatch.h, inc/ix/context.h).                *)
(*                                                                         *)
(* CPU 0 is the dispatcher, CPU 1 the networker, CPUs 2.. the workers.     *)
(* Worker i has two cache lines: dispatcher_requests[i], written by the    *)
(* dispatcher, and worker_responses[i], written by both.  Each is modelled *)
(* by its flag (request_flag, response_flag) and its payload (request,     *)
(* response).  networker_pointers is the one cache line between networker  *)
(* and dispatcher.  All accesses are volatile and x86 keeps the order of   *)
(* stores, so one shared access (or a run of accesses to a line that only  *)
(* its owner touches at that point) is one step.                           *)
(*                                                                         *)
(* Timestamps are left out: which non-empty queue smart_tskq_dequeue       *)
(* serves, and when a quantum has expired, is a free choice here.          *)
(***************************************************************************)
EXTENDS Integers, Sequences, FiniteSets

CONSTANTS
  NumWorkers,      \* CFG.num_cpus - 2
  NumPorts,        \* CFG.num_ports: one task queue per UDP port
  Batch,           \* ETH_RX_MAX_BATCH
  Mbuf,            \* packet buffers the networker can receive into
  Ctx,             \* elements of context_pool
  StackCapacity,   \* elements of stack_pool
  TaskCapacity,    \* elements of task_mempool
  McellCapacity,   \* elements of mcell_mempool
  NULL             \* the null pointer

Workers == 0 .. NumWorkers - 1
Types == 0 .. NumPorts - 1
Slots == 0 .. Batch - 1

ASSUME DispatchAssumption ==
  /\ NumWorkers \in Nat \ {0}
  /\ NumPorts \in Nat \ {0}
  /\ Batch \in Nat \ {0}
  /\ IsFiniteSet(Ctx)
  /\ NULL \notin Ctx \cup Mbuf
  /\ StackCapacity \in Nat /\ TaskCapacity \in Nat /\ McellCapacity \in Nat

VARIABLES
  (* owned by the dispatcher *)
  tskq,            \* [Types -> Seq(Task)]: the task queues
  mqueue,          \* stack of buffers to give back to the networker
  context_pool,    \* the free contexts
  stack_pool,      \* number of free stacks
  task_mempool,    \* number of free task cells
  mcell_mempool,   \* number of free buffer cells
  preempt_check,   \* [Workers -> BOOLEAN]
  (* dispatcher_requests[i] and worker_responses[i] *)
  request_flag, request, response_flag, response,
  (* networker_pointers *)
  cnt, free_cnt, pkts, types,
  (* the posted-interrupt bit of PREEMPT_VECTOR on each worker's CPU *)
  ipi,
  (* what is known of the frame in a packet buffer *)
  short,           \* buffers whose frame is shorter than its UDP header says
  replied          \* history: buffers whose request has been answered

poolVars == <<context_pool, stack_pool, task_mempool, mcell_mempool>>
requestVars == <<request_flag, request>>
responseVars == <<response_flag, response>>
pointerVars == <<cnt, free_cnt, pkts, types>>
frameVars == <<short, replied>>

RequestFlag == {"WAITING", "ACTIVE"}
ResponseFlag == {"RUNNING", "FINISHED", "PREEMPTED", "PROCESSED"}

Task == [rnbl : Ctx \cup {NULL}, mbuf : Mbuf \cup {NULL}, type : Types,
         category : {"NOCONTENT", "PACKET", "CONTEXT"}]

(* The contents of a slot in zero-initialised memory. *)
ZeroTask == [rnbl |-> NULL, mbuf |-> NULL, type |-> 0, category |-> "NOCONTENT"]

DispatchInit ==
  /\ tskq = [t \in Types |-> <<>>]
  /\ mqueue = <<>>
  /\ context_pool = Ctx
  /\ stack_pool = StackCapacity
  /\ task_mempool = TaskCapacity
  /\ mcell_mempool = McellCapacity
  /\ preempt_check = [w \in Workers |-> FALSE]
  /\ request_flag = [w \in Workers |-> "WAITING"]
  /\ request = [w \in Workers |-> ZeroTask]
  /\ response_flag = [w \in Workers |-> "RUNNING"]
  /\ response = [w \in Workers |-> ZeroTask]
  /\ cnt = 0
  /\ free_cnt = 0
  /\ pkts = [k \in Slots |-> NULL]
  /\ types = [k \in Slots |-> 0]
  /\ ipi = [w \in Workers |-> FALSE]
  /\ short = {}
  /\ replied = {}

-----------------------------------------------------------------------------
(* tskq_enqueue_tail: without a free task cell it returns and the task is   *)
(* dropped, its context and its buffer with it.                             *)
tskq_enqueue_tail(task) ==
  IF task_mempool = 0
  THEN UNCHANGED <<tskq, task_mempool>>
  ELSE /\ tskq' = [tskq EXCEPT ![task.type] = Append(@, task)]
       /\ task_mempool' = task_mempool - 1

(* tskq_dequeue of a queue that is not empty; the caller reads Head.        *)
tskq_dequeue(t) ==
  /\ tskq' = [tskq EXCEPT ![t] = Tail(@)]
  /\ task_mempool' = task_mempool + 1

(* The queues smart_tskq_dequeue may serve.                                 *)
NonEmptyQueues == {t \in Types : tskq[t] # <<>>}

(* mbuf_enqueue: ignores a null buffer.  The allocated cell is written       *)
(* without a check, so mcell_mempool < 0 stands for a null dereference.      *)
mbuf_enqueue(buf) ==
  IF buf = NULL
  THEN UNCHANGED <<mqueue, mcell_mempool>>
  ELSE /\ mqueue' = <<buf>> \o mqueue
       /\ mcell_mempool' = mcell_mempool - 1

(* Mutant: the buffer cell is never freed.                                   *)
mbuf_dequeue_leak ==
  /\ mqueue' = Tail(mqueue)
  /\ UNCHANGED mcell_mempool

(* mbuf_dequeue of a queue that is not empty; the caller reads Head.        *)
mbuf_dequeue ==
  /\ mqueue' = Tail(mqueue)
  /\ mcell_mempool' = mcell_mempool + 1

(* context_alloc succeeds with a context and a stack, or leaves both pools   *)
(* as they were (a context allocated without a stack is freed again).        *)
CanAllocContext == context_pool # {} /\ stack_pool > 0

context_alloc(c) ==
  /\ c \in context_pool
  /\ stack_pool > 0
  /\ context_pool' = context_pool \ {c}
  /\ stack_pool' = stack_pool - 1

context_free(c) ==
  /\ context_pool' = context_pool \cup {c}
  /\ stack_pool' = stack_pool + 1
=============================================================================
