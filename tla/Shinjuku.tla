------------------------------- MODULE Shinjuku -------------------------------
(***************************************************************************)
(* The running system: dispatcher, networker and workers, each on a core of *)
(* its own, taking steps in any order.                                      *)
(***************************************************************************)
EXTENDS Dispatcher, Worker, Networker

(* The pools are sized so that whatever a context can be allocated for also
   finds a task cell and a buffer cell (context.c, taskqueue.c).              *)
ASSUME PoolAssumption ==
  /\ TaskCapacity >= StackCapacity
  /\ McellCapacity >= StackCapacity
  /\ McellCapacity >= Batch

vars == <<tskq, mqueue, poolVars, preempt_check, requestVars, responseVars,
          pointerVars, ipi, frameVars, dispVars, workVars, netVars>>

Init ==
  /\ DispatchInit
  /\ DispatcherInit
  /\ WorkerInit
  /\ NetworkerInit

DispatcherStep == DispatcherNext /\ UNCHANGED <<frameVars, workVars, netVars>>
WorkerStep(w) == WorkerNext(w) /\ UNCHANGED <<dispVars, netVars>>
NetworkerStep == NetworkerNext /\ UNCHANGED <<dispVars, workVars>>

(* Every frame that arrives is one udp_input accepts or drops cleanly.       *)
Next ==
  \/ DispatcherStep
  \/ \E w \in Workers : WorkerStep(w)
  \/ NetworkerStep

Spec == Init /\ [][Next]_vars

(* Each core keeps running its loop.  A queue that is not empty again and again
   is served in the end: smart_tskq_dequeue takes the head that has waited
   longest relative to its queue's objective, and a wait only grows.  A request
   that gets to run again and again is through in the end: its work is finite
   and a dispatch is worth a quantum, unless an interrupt meant for the
   worker's previous request hits it at once, which is not assumed to happen
   to the same request forever.                                               *)
FairSpec ==
  /\ Spec
  /\ WF_vars(DispatcherStep)
  /\ \A t \in Types :
       SF_vars(dispatch_take(t) /\ UNCHANGED <<frameVars, workVars, netVars>>)
  /\ \A w \in Workers : WF_vars(WorkerStep(w))
  /\ WF_vars(NetworkerLoop /\ UNCHANGED <<dispVars, workVars>>)
  /\ \A p \in Mbuf : SF_vars(\E w \in Workers : /\ request[w].mbuf = p
                                                 /\ work_done(w)
                                                 /\ UNCHANGED <<dispVars, netVars>>)

(* Frames whose UDP length does not fit the frame arrive too.                *)
ShortFrameStep ==
  (\E p \in Mbuf : recv_short(p)) /\ UNCHANGED <<dispVars, workVars>>

SpecAnyFrame == Init /\ [][Next \/ ShortFrameStep]_vars

-----------------------------------------------------------------------------
(* The types of the shared memory and of each core's local state.            *)
TypeOK ==
  /\ tskq \in [Types -> Seq(Task)]
  /\ mqueue \in Seq(Mbuf)
  /\ context_pool \subseteq Ctx
  /\ stack_pool \in Int /\ task_mempool \in Nat /\ mcell_mempool \in Int
  /\ preempt_check \in [Workers -> BOOLEAN]
  /\ request_flag \in [Workers -> RequestFlag]
  /\ request \in [Workers -> Task]
  /\ response_flag \in [Workers -> ResponseFlag]
  /\ response \in [Workers -> Task]
  /\ cnt \in 0 .. Batch /\ free_cnt \in 0 .. Batch
  /\ pkts \in [Slots -> Mbuf \cup {NULL}]
  /\ types \in [Slots -> Types]
  /\ ipi \in [Workers -> BOOLEAN]
  /\ short \subseteq Mbuf /\ replied \subseteq Mbuf
  /\ disp_pc \in DispatcherPC /\ disp_w \in Workers /\ disp_k \in 0 .. Batch
  /\ disp_task \in Task
  /\ work_pc \in [Workers -> WorkerPC]
  /\ cont \in [Workers -> Ctx \cup {NULL}]
  /\ finished \in [Workers -> BOOLEAN]
  /\ net_pc \in NetworkerPC /\ net_k \in 0 .. Batch
  /\ net_recv \in Seq([mbuf : Mbuf, type : Types]) /\ Len(net_recv) <= Batch
  /\ mbuf_pool \in [Mbuf -> Nat]

-----------------------------------------------------------------------------
(* Where requests are.  A request between its first packet and its end is in *)
(* a task queue, in the dispatcher's hands, or with a worker: in the request  *)
(* slot until the worker reports, in the response slot until the dispatcher   *)
(* has seen the report.                                                       *)
Reported(w) == response_flag[w] \in {"FINISHED", "PREEMPTED"}

Executing(w) ==
  /\ response_flag[w] = "RUNNING"
  /\ work_pc[w] # "init"
  /\ ~(disp_pc = "fill" /\ disp_w = w)

TaskPlaces ==
  (UNION {{<<"tskq", t, j>> : j \in DOMAIN tskq[t]} : t \in Types})
    \cup {<<"request", w, 0>> : w \in {v \in Workers : Executing(v)}}
    \cup {<<"response", w, 0>> : w \in {v \in Workers : Reported(v)}}
    \cup (IF disp_pc = "fill" THEN {<<"dispatcher", 0, 0>>} ELSE {})

TaskAt(pl) ==
  CASE pl[1] = "tskq" -> tskq[pl[2]][pl[3]]
    [] pl[1] = "request" -> request[pl[2]]
    [] pl[1] = "response" -> response[pl[2]]
    [] pl[1] = "dispatcher" -> disp_task

(* Buffers not in the hands of a request: received but not yet queued, and    *)
(* on their way back to the networker.                                        *)
Unqueued(k) ==
  k < cnt /\ disp_pc # "give" /\ (disp_pc = "packet" => k >= disp_k)

GivenBack(k) == k < free_cnt /\ (net_pc = "free" => k >= net_k)

BufferPlaces ==
  TaskPlaces
    \cup (UNION {{<<"mbuf_pool", p, n>> : n \in 1 .. mbuf_pool[p]} : p \in Mbuf})
    \cup {<<"recv", j, 0>> : j \in DOMAIN net_recv}
    \cup {<<"pkts", k, 0>> : k \in {i \in Slots : Unqueued(i) \/ GivenBack(i)}}
    \cup {<<"mqueue", j, 0>> : j \in DOMAIN mqueue}

BufferAt(pl) ==
  CASE pl[1] = "mbuf_pool" -> pl[2]
    [] pl[1] = "recv" -> net_recv[pl[2]].mbuf
    [] pl[1] = "pkts" -> pkts[pl[2]]
    [] pl[1] = "mqueue" -> mqueue[pl[2]]
    [] OTHER -> TaskAt(pl).mbuf

-----------------------------------------------------------------------------
(* Every context is either free or belongs to exactly one request: preempting,
   requeueing and finishing requests neither loses a context (a task dropped
   by tskq_enqueue_tail would) nor frees or runs one twice.                   *)
ContextOwnership ==
  /\ \A pl \in TaskPlaces : TaskAt(pl).rnbl \in Ctx \ context_pool
  /\ \A c \in Ctx \ context_pool :
       \E pl \in TaskPlaces : \A q \in TaskPlaces : TaskAt(q).rnbl = c <=> q = pl

(* Every packet buffer is in exactly one place on its way from the pool through
   the networker, the queues, a worker and mqueue back to the pool.           *)
BufferOwnership ==
  /\ \A pl \in BufferPlaces : BufferAt(pl) \in Mbuf
  /\ \A p \in Mbuf :
       \E pl \in BufferPlaces : \A q \in BufferPlaces : BufferAt(q) = p <=> q = pl

(* The free list is a list of available slots (dp/core/mempool.c:45-47): a
   buffer on it is nowhere else.                                              *)
AvailableSlots ==
  \A p \in Mbuf : mbuf_pool[p] > 0 =>
    \A pl \in BufferPlaces : BufferAt(pl) = p => pl[1] = "mbuf_pool"

(* The dispatcher writes a request slot only while its worker spins on it, so
   what finish_request reads back from the slot after running the request is
   what was dispatched.                                                       *)
RequestSlotExclusion ==
  disp_pc \in {"fill", "activate"} =>
    work_pc[disp_w] = "poll" /\ request_flag[disp_w] = "WAITING"

(* networker_pointers belongs to the networker while cnt is 0 and to the
   dispatcher otherwise.                                                      *)
PointersExclusion ==
  ~(net_pc \in {"free", "fill"} /\ disp_pc \in {"packet", "give"})

(* A worker reports the context of the request it was given: cont is never
   left over from an earlier request.                                         *)
RunsOwnRequest ==
  \A w \in Workers :
    work_pc[w] \in {"run", "reply", "sent", "report", "flag"} =>
      cont[w] = request[w].rnbl

(* mbuf_enqueue always finds a free cell (it does not check).                 *)
McellAvailable == mcell_mempool >= 0

(* A request that was answered is never run again: a preemption interrupt
   cannot hit between the reply and the end of the request.                   *)
AnsweredOnce ==
  /\ \A t \in Types : \A j \in DOMAIN tskq[t] : tskq[t][j].mbuf \notin replied
  /\ \A w \in Workers : work_pc[w] \in {"enter", "run", "reply"} =>
       request[w].mbuf \notin replied
-----------------------------------------------------------------------------
(* The stage of the request in buffer p.                                      *)
StatusOf(p) ==
  LET pl == CHOOSE q \in BufferPlaces : BufferAt(q) = p
  IN CASE pl[1] = "mbuf_pool" -> "pool"
       [] pl[1] = "recv" -> "received"
       [] pl[1] = "pkts" -> IF Unqueued(pl[2]) THEN "received" ELSE "done"
       [] pl[1] = "tskq" -> "waiting"
       [] pl[1] = "mqueue" -> "done"
       [] OTHER -> "running"

Lifecycle == INSTANCE RequestLifecycle
               WITH status <- [p \in Mbuf |-> StatusOf(p)], answered <- replied

(* The cores together implement the request's life cycle: at most NumWorkers
   requests run at once, each is answered at most once, none goes back to a
   queue after its answer, and no buffer returns to the pool before its
   request is over.                                                           *)
LifecycleSpec == Lifecycle!Spec

(* Every request received is eventually over, however often it is preempted.  *)
RequestCompletes ==
  \A p \in Mbuf : StatusOf(p) = "received" ~> StatusOf(p) = "done"

(* The networker never waits for the dispatcher forever.                      *)
NetworkerProceeds == net_pc = "wait" ~> net_pc = "free"
-----------------------------------------------------------------------------
(***************************************************************************)
(* The inductive strengthening of the invariants: what holds between the    *)
(* program counters, the flags and the owners of requests at every step.    *)
(***************************************************************************)

(* networker_pointers: whose turn it is follows from cnt, and the loop indices
   and counters agree with it.                                                *)
PointersInv ==
  /\ cnt \in 0 .. Batch /\ free_cnt \in 0 .. Batch
  /\ disp_pc \in DispatcherPC /\ disp_k \in 0 .. Batch
  /\ net_pc \in NetworkerPC /\ net_k \in 0 .. Batch
  /\ net_recv \in Seq([mbuf : Mbuf, type : Types]) /\ Len(net_recv) <= Batch
  /\ disp_pc \notin {"packet", "give"} => disp_k = 0
  /\ disp_pc = "packet" => disp_k <= cnt /\ cnt # 0 /\ free_cnt = 0
  /\ disp_pc = "give" => free_cnt = disp_k /\ cnt # 0
  /\ cnt # 0 /\ disp_pc # "give" => free_cnt = 0
  /\ net_pc \in {"free", "fill"} => cnt = 0
  /\ net_pc = "fill" => free_cnt = 0 /\ net_k <= Len(net_recv)
  /\ net_pc = "free" => net_k <= free_cnt
  /\ net_pc \in {"recv", "wait"} => net_k = 0

(* The handshake on worker w's two slots: request_flag is ACTIVE exactly from
   dispatch_activate to take_request, response_flag is RUNNING from
   dispatch_take to finish_flag, and the dispatcher writes the request only in
   between, while the worker spins.                                           *)
HandshakeInv ==
  /\ disp_w \in Workers
  /\ work_pc \in [Workers -> WorkerPC]
  /\ request_flag \in [Workers -> RequestFlag]
  /\ response_flag \in [Workers -> ResponseFlag]
  /\ \A w \in Workers :
      /\ work_pc[w] = "init" => response_flag[w] = "RUNNING" /\ request_flag[w] = "WAITING"
      /\ work_pc[w] = "take" => response_flag[w] = "RUNNING" /\ request_flag[w] = "ACTIVE"
      /\ work_pc[w] \notin {"init", "poll", "take"} =>
           response_flag[w] = "RUNNING" /\ request_flag[w] = "WAITING"
      /\ request_flag[w] = "ACTIVE" => response_flag[w] = "RUNNING"
      /\ disp_w = w /\ disp_pc = "dispatch" => response_flag[w] = "PROCESSED"
      /\ disp_w = w /\ disp_pc \in {"fill", "activate"} =>
           /\ work_pc[w] = "poll"
           /\ response_flag[w] = "RUNNING"
           /\ request_flag[w] = "WAITING"
      /\ /\ work_pc[w] = "poll"
         /\ response_flag[w] = "RUNNING"
         /\ request_flag[w] = "WAITING"
         => disp_w = w /\ disp_pc \in {"fill", "activate"}

(* The types of the remaining data.                                           *)
DataInv ==
  /\ tskq \in [Types -> Seq(Task)]
  /\ mqueue \in Seq(Mbuf)
  /\ stack_pool \in Int /\ task_mempool \in Nat /\ mcell_mempool \in Int
  /\ preempt_check \in [Workers -> BOOLEAN]
  /\ request \in [Workers -> Task]
  /\ response \in [Workers -> Task]
  /\ pkts \in [Slots -> Mbuf \cup {NULL}]
  /\ types \in [Slots -> Types]
  /\ ipi \in [Workers -> BOOLEAN]
  /\ disp_task \in Task
  /\ cont \in [Workers -> Ctx \cup {NULL}]
  /\ finished \in [Workers -> BOOLEAN]
  /\ mbuf_pool \in [Mbuf -> Nat]

(* Worker w runs the context of its request and reports that request, and no
   frame is short.                                                            *)
RunInv ==
  /\ short = {}
  /\ RunsOwnRequest
  /\ \A w \in Workers : work_pc[w] = "flag" =>
       /\ response[w].rnbl = request[w].rnbl
       /\ response[w].mbuf = request[w].mbuf
       /\ response[w].type = request[w].type

-----------------------------------------------------------------------------
(* The task worker w answers for, from dispatch_take until the dispatcher has
   handled its report.                                                        *)
HasTask(w) == response_flag[w] # "PROCESSED" /\ work_pc[w] # "init"

TaskOf(w) ==
  IF disp_pc = "fill" /\ disp_w = w THEN disp_task
  ELSE IF response_flag[w] = "RUNNING" THEN request[w] ELSE response[w]

(* Tasks that are queued or with a worker have a context and a buffer, and so
   have the packets of a batch.                                               *)
OwnedTask ==
  [rnbl : Ctx, mbuf : Mbuf, type : Types, category : {"NOCONTENT", "PACKET", "CONTEXT"}]

TasksInv ==
  /\ tskq \in [Types -> Seq(OwnedTask)]
  /\ \A w \in Workers : HasTask(w) => TaskOf(w) \in OwnedTask
  /\ \A k \in Slots : k < cnt /\ disp_pc # "give" => pkts[k] \in Mbuf
  /\ net_pc = "fill" => \A k \in Slots : k < net_k => pkts[k] \in Mbuf

(* Only contexts go to context_pool, and only buffers are answered.           *)
PoolInv == context_pool \subseteq Ctx /\ replied \subseteq Mbuf

Queued ==
  {c \in Ctx : \E t \in Types : \E j \in 1 .. Len(tskq[t]) : tskq[t][j].rnbl = c}

(* Every allocated context is at one position of one queue or with one worker. *)
QueuedLive ==
  \A t \in Types : \A j \in 1 .. Len(tskq[t]) : tskq[t][j].rnbl \in Ctx \ context_pool

QueuedOnce ==
  \A t, u \in Types : \A j \in 1 .. Len(tskq[t]), k \in 1 .. Len(tskq[u]) :
    tskq[t][j].rnbl = tskq[u][k].rnbl => t = u /\ j = k

GivenLive ==
  \A w \in Workers : HasTask(w) => TaskOf(w).rnbl \in Ctx \ context_pool

GivenOnce ==
  \A v, w \in Workers :
    HasTask(v) /\ HasTask(w) /\ TaskOf(v).rnbl = TaskOf(w).rnbl => v = w

GivenNotQueued ==
  \A w \in Workers : HasTask(w) =>
    \A t \in Types : \A j \in 1 .. Len(tskq[t]) : tskq[t][j].rnbl # TaskOf(w).rnbl

LiveHeld ==
  \A c \in Ctx \ context_pool :
    \/ \E t \in Types : \E j \in 1 .. Len(tskq[t]) : tskq[t][j].rnbl = c
    \/ \E w \in Workers : HasTask(w) /\ TaskOf(w).rnbl = c

ContextInv ==
  QueuedLive /\ QueuedOnce /\ GivenLive /\ GivenOnce /\ GivenNotQueued /\ LiveHeld

(* The counts of the pools: a stack per allocated context, a task cell per
   queued context.                                                            *)
Live == Ctx \ context_pool

CountInv ==
  /\ StackCapacity - stack_pool = Cardinality(Live)
  /\ stack_pool >= 0
  /\ TaskCapacity - task_mempool = Cardinality(Queued)

(* Buffers waiting in mqueue: outside a batch they and the allocated contexts
   together fit the context pool; a batch of n packets adds at most n and
   then gives up to Batch back.                                               *)
MostContexts ==
  IF StackCapacity < Cardinality(Ctx) THEN StackCapacity ELSE Cardinality(Ctx)

MqueueInv ==
  /\ McellCapacity - mcell_mempool = Len(mqueue)
  /\ Len(mqueue) <= MostContexts \/ Len(mqueue) <= Batch
  /\ disp_pc \notin {"packet", "give"} =>
       Len(mqueue) + Cardinality(Live) <= MostContexts
  /\ disp_pc = "packet" =>
       Len(mqueue) + Cardinality(Live) <= MostContexts + disp_k
  /\ disp_pc = "give" =>
       Len(mqueue) + Cardinality(Live) <= MostContexts + Batch - disp_k

IInv ==
  /\ PointersInv /\ HandshakeInv /\ DataInv /\ RunInv /\ TasksInv /\ PoolInv
  /\ ContextInv /\ CountInv /\ MqueueInv
-----------------------------------------------------------------------------
(* Who holds a packet buffer: the free list, the networker, the batch it has
   published, a task queue, a worker, mqueue, or the array of buffers handed
   back.                                                                      *)
Holders == {"pool", "recv", "batch", "queued", "given", "mqueue", "back"}

HeldBy(k) ==
  CASE k = "pool" -> {p \in Mbuf : mbuf_pool[p] # 0}
    [] k = "recv" -> {p \in Mbuf : \E j \in 1 .. Len(net_recv) : net_recv[j].mbuf = p}
    [] k = "batch" -> {p \in Mbuf : \E i \in Slots : Unqueued(i) /\ pkts[i] = p}
    [] k = "queued" -> {p \in Mbuf : \E t \in Types :
                          \E j \in 1 .. Len(tskq[t]) : tskq[t][j].mbuf = p}
    [] k = "given" -> {p \in Mbuf : \E w \in Workers : HasTask(w) /\ TaskOf(w).mbuf = p}
    [] k = "mqueue" -> {p \in Mbuf : \E j \in 1 .. Len(mqueue) : mqueue[j] = p}
    [] k = "back" -> {p \in Mbuf : \E i \in Slots : GivenBack(i) /\ pkts[i] = p}

(* A holder holds a buffer once.                                              *)
HeldOnce(k) ==
  CASE k = "pool" -> \A p \in Mbuf : mbuf_pool[p] \in {0, 1}
    [] k = "recv" -> \A i, j \in 1 .. Len(net_recv) :
                       net_recv[i].mbuf = net_recv[j].mbuf => i = j
    [] k = "batch" -> \A i, j \in Slots :
                        Unqueued(i) /\ Unqueued(j) /\ pkts[i] = pkts[j] => i = j
    [] k = "queued" -> \A t, u \in Types :
                         \A i \in 1 .. Len(tskq[t]), j \in 1 .. Len(tskq[u]) :
                           tskq[t][i].mbuf = tskq[u][j].mbuf => t = u /\ i = j
    [] k = "given" -> \A v, w \in Workers :
                        HasTask(v) /\ HasTask(w) /\ TaskOf(v).mbuf = TaskOf(w).mbuf => v = w
    [] k = "mqueue" -> \A i, j \in 1 .. Len(mqueue) : mqueue[i] = mqueue[j] => i = j
    [] k = "back" -> \A i, j \in Slots :
                       GivenBack(i) /\ GivenBack(j) /\ pkts[i] = pkts[j] => i = j

(* Every buffer has one holder, which holds it once.                          *)
BufferInv ==
  /\ \A k \in Holders : HeldOnce(k)
  /\ \A p \in Mbuf : \E k \in Holders : \A l \in Holders : p \in HeldBy(l) <=> l = k

(* The part of networker_pointers written so far, in either direction.        *)
CopyInv ==
  /\ net_pc = "fill" => \A i \in Slots : i < net_k => pkts[i] = net_recv[i + 1].mbuf
  /\ \A i \in Slots : i < free_cnt => pkts[i] \in Mbuf

(* An answered request is at most waiting for its end to be reported.         *)
Ending(w) ==
  \/ work_pc[w] = "sent"
  \/ work_pc[w] \in {"report", "flag"} /\ finished[w]
  \/ response_flag[w] = "FINISHED"

AnswerInv ==
  /\ \A k \in {"recv", "batch", "queued"} : HeldBy(k) \cap replied = {}
  /\ \A w \in Workers : HasTask(w) /\ TaskOf(w).mbuf \in replied => Ending(w)
=============================================================================
