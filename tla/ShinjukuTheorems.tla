-------------------------- MODULE ShinjukuTheorems ---------------------------
(***************************************************************************)
(* Contexts and cells: every allocated context belongs to one request (a    *)
(* step returns a context, queues it again, admits a new one, hands one     *)
(* over or moves none, and each of these has a lemma), and the mbuf cells   *)
(* suffice.  Then the properties of Shinjuku that follow from its inductive *)
(* invariant, for any number of workers, ports, buffers and contexts and    *)
(* any batch size.                                                          *)
(***************************************************************************)
EXTENDS ShinjukuProofs, FiniteSetTheorems

USE DEF poolVars, requestVars, responseVars, pointerVars, frameVars, dispVars,
        workVars, netVars, dispatcherOnly, notNetworker

-----------------------------------------------------------------------------
(* tskq_enqueue_tail, position by position: one task more at the tail.        *)
LEMMA EnqueueTailAt ==
  ASSUME tskq \in [Types -> Seq(OwnedTask)], task_mempool # 0,
         NEW task \in OwnedTask, task.type \in Types, tskq_enqueue_tail(task)
  PROVE  /\ task_mempool' = task_mempool - 1
         /\ \A u \in Types : Len(tskq[u]) \in Nat
         /\ \A u \in Types : \A j \in 1 .. Len(tskq[u]) :
              j \in 1 .. Len(tskq'[u]) /\ tskq'[u][j] = tskq[u][j]
         /\ /\ Len(tskq[task.type]) + 1 \in 1 .. Len(tskq'[task.type])
            /\ tskq'[task.type][Len(tskq[task.type]) + 1] = task
         /\ \A u \in Types : \A j \in 1 .. Len(tskq'[u]) :
              \/ j \in 1 .. Len(tskq[u])
              \/ u = task.type /\ j = Len(tskq[u]) + 1
<1> DEFINE q == tskq[task.type]
<1>1. /\ tskq' = [tskq EXCEPT ![task.type] = Append(q, task)]
      /\ task_mempool' = task_mempool - 1
  BY Zenon DEF tskq_enqueue_tail
<1>2. q \in Seq(OwnedTask) /\ tskq'[task.type] = Append(q, task)
  BY Zenon, <1>1
<1>3. \A u \in Types : u # task.type => tskq'[u] = tskq[u]
  BY Zenon, <1>1
<1>4. \A u \in Types : Len(tskq[u]) \in Nat
  OBVIOUS
<1>5. /\ Len(Append(q, task)) = Len(q) + 1
      /\ \A j \in 1 .. Len(q) : Append(q, task)[j] = q[j]
      /\ Append(q, task)[Len(q) + 1] = task
  BY <1>2
<1>6. Len(q) \in Nat
  BY <1>2
<1> HIDE DEF q
<1>7. \A u \in Types : \A j \in 1 .. Len(tskq[u]) :
         j \in 1 .. Len(tskq'[u]) /\ tskq'[u][j] = tskq[u][j]
  <2> SUFFICES ASSUME NEW u \in Types, NEW j \in 1 .. Len(tskq[u])
               PROVE  j \in 1 .. Len(tskq'[u]) /\ tskq'[u][j] = tskq[u][j]
    OBVIOUS
  <2>1. CASE u = task.type
    BY <2>1, <1>2, <1>5, <1>6 DEF q
  <2>2. CASE u # task.type
    BY Zenon, <2>2, <1>3
  <2> QED
    BY Zenon, <2>1, <2>2
<1>8. /\ Len(q) + 1 \in 1 .. Len(tskq'[task.type])
      /\ tskq'[task.type][Len(q) + 1] = task
  BY <1>2, <1>5, <1>6
<1>9. \A u \in Types : \A j \in 1 .. Len(tskq'[u]) :
        j \in 1 .. Len(tskq[u]) \/ (u = task.type /\ j = Len(tskq[u]) + 1)
  <2> SUFFICES ASSUME NEW u \in Types, NEW j \in 1 .. Len(tskq'[u])
               PROVE  j \in 1 .. Len(tskq[u]) \/ (u = task.type /\ j = Len(tskq[u]) + 1)
    OBVIOUS
  <2>1. CASE u = task.type
    BY <2>1, <1>2, <1>5, <1>6 DEF q
  <2>2. CASE u # task.type
    BY Zenon, <2>2, <1>3
  <2> QED
    BY Zenon, <2>1, <2>2
<1> QED
  BY ZenonT(30), <1>1, <1>4, <1>7, <1>8, <1>9 DEF q

(* tskq_dequeue: the queue moves up by one position, the others stay.         *)
LEMMA DequeueAt ==
  ASSUME tskq \in [Types -> Seq(OwnedTask)], NEW t \in NonEmptyQueues, tskq_dequeue(t)
  PROVE  /\ task_mempool' = task_mempool + 1
         /\ 1 \in 1 .. Len(tskq[t]) /\ Head(tskq[t]) = tskq[t][1]
         /\ \A u \in Types : u # t => tskq'[u] = tskq[u]
         /\ \A j \in 1 .. Len(tskq'[t]) :
              j + 1 \in 1 .. Len(tskq[t]) /\ tskq'[t][j] = tskq[t][j + 1]
         /\ \A j \in 1 .. Len(tskq[t]) : j # 1 =>
              j - 1 \in 1 .. Len(tskq'[t]) /\ tskq'[t][j - 1] = tskq[t][j]
<1> DEFINE q == tskq[t]
<1>1. t \in Types /\ q \in Seq(OwnedTask) /\ q # <<>>
  BY Zenon DEF NonEmptyQueues
<1>2. tskq' = [tskq EXCEPT ![t] = Tail(q)] /\ task_mempool' = task_mempool + 1
  BY Zenon DEF tskq_dequeue
<1>3. tskq'[t] = Tail(q) /\ \A u \in Types : u # t => tskq'[u] = tskq[u]
  BY ZenonT(30), <1>1, <1>2
<1>4. /\ Len(q) \in Nat /\ Len(q) >= 1 /\ Head(q) = q[1]
      /\ Len(Tail(q)) = Len(q) - 1
      /\ \A j \in 1 .. Len(q) - 1 : Tail(q)[j] = q[j + 1]
  BY <1>1
<1> HIDE DEF q
<1>5. \A j \in 1 .. Len(tskq'[t]) : j + 1 \in 1 .. Len(q) /\ tskq'[t][j] = q[j + 1]
  BY <1>3, <1>4
<1>6. \A j \in 1 .. Len(q) : j # 1 =>
        j - 1 \in 1 .. Len(tskq'[t]) /\ tskq'[t][j - 1] = q[j]
  <2> SUFFICES ASSUME NEW j \in 1 .. Len(q), j # 1
               PROVE  j - 1 \in 1 .. Len(tskq'[t]) /\ tskq'[t][j - 1] = q[j]
    OBVIOUS
  <2>1. j - 1 \in 1 .. Len(q) - 1 /\ (j - 1) + 1 = j
    BY <1>4
  <2>2. Tail(q)[j - 1] = q[(j - 1) + 1]
    BY Zenon, <1>4, <2>1
  <2> QED
    BY Zenon, <1>3, <1>4, <2>1, <2>2
<1>7. 1 \in 1 .. Len(q)
  BY <1>4
<1> QED
  BY ZenonT(30), <1>2, <1>3, <1>4, <1>5, <1>6, <1>7 DEF q

(* Live and queued contexts are finite sets, and queued contexts are live.    *)
LEMMA CountedSets ==
  ASSUME ContextInv
  PROVE  /\ IsFiniteSet(Live) /\ Cardinality(Live) \in Nat
         /\ IsFiniteSet(Queued) /\ Cardinality(Queued) \in Nat
         /\ Queued \subseteq Live /\ Cardinality(Queued) <= Cardinality(Live)
<1>1. IsFiniteSet(Live) /\ Cardinality(Live) \in Nat
  BY ZenonT(30), DispatchAssumption, FS_Subset, FS_CardinalityType DEF Live
<1>2. Queued \subseteq Live
  BY Zenon DEF Queued, Live, ContextInv, QueuedLive
<1> QED
  BY ZenonT(30), <1>1, <1>2, FS_Subset, FS_CardinalityType

-----------------------------------------------------------------------------
(* What worker w is answerable for does not change.                           *)
SameTask(w) ==
  /\ HasTask(w)' <=> HasTask(w)
  /\ HasTask(w) => /\ TaskOf(w)'.rnbl = TaskOf(w).rnbl
                   /\ TaskOf(w)'.mbuf = TaskOf(w).mbuf

(* No worker's task changes when the slots and program counters stay as they are
   and the dispatcher is not between taking a task and storing it.            *)
LEMMA TasksLeft ==
  ASSUME UNCHANGED <<work_pc, response_flag, request, response>>,
         disp_pc # "fill", disp_pc' # "fill"
  PROVE  \A w \in Workers : SameTask(w)
BY Zenon DEF SameTask, HasTask, TaskOf

(* The networker moves no worker's task (do_networking).                      *)
LEMMA NetworkerLeavesTasks ==
  ASSUME UNCHANGED <<work_pc, response_flag, request, response, disp_pc, disp_w,
                     disp_task>>
  PROVE  \A w \in Workers : SameTask(w)
BY Zenon DEF SameTask, HasTask, TaskOf

(* A worker's own steps leave every worker its task: it becomes answerable for
   none at init_worker, and reports the context it was given at finish_flag.  *)
LEMMA WorkerKeepsTask ==
  ASSUME HandshakeInv, DataInv, RunInv, NEW w \in Workers, WorkerStep(w)
  PROVE  \A v \in Workers : SameTask(v)
<1>f. UNCHANGED <<request, disp_pc, disp_w, disp_task>>
  BY Zenon, WorkerFrame
<1>t. /\ work_pc \in [Workers -> WorkerPC]
      /\ response_flag \in [Workers -> ResponseFlag]
      /\ response \in [Workers -> Task]
  BY Zenon DEF HandshakeInv, DataInv
<1>n. WorkerNext(w)
  BY Zenon DEF WorkerStep
<1>1. \A v \in Workers : v # w => UNCHANGED <<work_pc[v], response_flag[v], response[v]>>
  BY ZenonT(30), <1>n, <1>t DEF WorkerNext, Goto, init_worker, poll_request, take_request,
     handle_new_packet, handle_context, test_handler, work_done, send_reply,
     end_work, finish_request, finish_flag
<1>2. \A v \in Workers : v # w => SameTask(v)
  BY Zenon, <1>f, <1>1 DEF SameTask, HasTask, TaskOf
<1>3. SameTask(w)
  <2>1. CASE init_worker(w)
    <3>1. work_pc[w] = "init" /\ response_flag'[w] = "PROCESSED"
      BY Zenon, <2>1, <1>t DEF init_worker, Goto
    <3> QED
      BY Zenon, <3>1 DEF SameTask, HasTask
  <2>2. CASE finish_flag(w)
    <3>1. /\ response_flag[w] = "RUNNING" /\ ~(disp_pc = "fill" /\ disp_w = w)
          /\ response[w].rnbl = request[w].rnbl /\ response[w].mbuf = request[w].mbuf
      BY Zenon, <2>2 DEF finish_flag, Goto, HandshakeInv, RunInv
    <3>2. /\ work_pc[w] = "flag" /\ work_pc'[w] = "poll" /\ response' = response
          /\ response_flag'[w] \in {"FINISHED", "PREEMPTED"}
      BY Zenon, <2>2, <1>t DEF finish_flag, Goto
    <3> QED
      BY Zenon, <3>1, <3>2, <1>f DEF SameTask, HasTask, TaskOf
  <2>3. CASE ~init_worker(w) /\ ~finish_flag(w)
    <3>1. work_pc[w] # "init" /\ work_pc'[w] # "init" /\ response_flag' = response_flag
      BY ZenonT(30), <2>3, <1>n, <1>t DEF WorkerNext, Goto, poll_request, take_request,
         handle_new_packet, handle_context, test_handler, work_done, send_reply,
         end_work, finish_request
    <3>2. response' = response \/ response_flag[w] = "RUNNING"
      BY Zenon, <2>3, <1>n DEF WorkerNext, Goto, poll_request, take_request,
         handle_new_packet, handle_context, test_handler, work_done, send_reply,
         end_work, finish_request, HandshakeInv
    <3> QED
      BY Zenon, <3>1, <3>2, <1>f DEF SameTask, HasTask, TaskOf
  <2> QED
    BY Zenon, <2>1, <2>2, <2>3
<1> QED
  BY Zenon, <1>2, <1>3

(* handle_finished and handle_preempted end what the worker reported on, and
   leave the other workers their tasks.                                       *)
LEMMA TaskHandled ==
  ASSUME HandshakeInv, NEW i \in Workers, i = disp_w, UNCHANGED workVars,
         handle_finished \/ handle_preempted
  PROVE  /\ HasTask(i) /\ TaskOf(i) = response[i] /\ ~HasTask(i)'
         /\ \A w \in Workers : w # i => SameTask(w)
<1>1. /\ response_flag[i] \in {"FINISHED", "PREEMPTED"} /\ disp_pc = "worker"
      /\ response_flag' = [response_flag EXCEPT ![i] = "PROCESSED"]
      /\ UNCHANGED <<work_pc, request, response, disp_w>> /\ disp_pc' = "dispatch"
  BY Zenon DEF handle_finished, handle_preempted
<1>2. work_pc[i] # "init" /\ response_flag \in [Workers -> ResponseFlag]
  BY Zenon, <1>1 DEF HandshakeInv
<1>3. HasTask(i) /\ TaskOf(i) = response[i]
  BY Zenon, <1>1, <1>2 DEF HasTask, TaskOf
<1>4. ~HasTask(i)'
  BY Zenon, <1>1, <1>2 DEF HasTask
<1>5. \A w \in Workers : w # i => response_flag'[w] = response_flag[w]
  BY Zenon, <1>1, <1>2
<1>6. \A w \in Workers : w # i => SameTask(w)
  BY Zenon, <1>1, <1>5 DEF SameTask, HasTask, TaskOf
<1> QED
  BY ZenonT(30), <1>3, <1>4, <1>6

(* dispatch_take makes worker disp_w, which has no task, answerable for the task
   at the head of the queue.                                                  *)
LEMMA TaskTaken ==
  ASSUME HandshakeInv, NEW i \in Workers, i = disp_w, UNCHANGED workVars,
         NEW t \in Types, dispatch_take(t)
  PROVE  /\ ~HasTask(i) /\ HasTask(i)' /\ TaskOf(i)' = Head(tskq[t])
         /\ \A w \in Workers : w # i => SameTask(w)
<1>1. /\ response_flag' = [response_flag EXCEPT ![i] = "RUNNING"]
      /\ disp_pc = "dispatch" /\ disp_pc' = "fill" /\ disp_task' = Head(tskq[t])
      /\ UNCHANGED <<work_pc, request, response, disp_w>>
  BY Zenon DEF dispatch_take
<1>2. /\ response_flag[i] = "PROCESSED" /\ work_pc[i] # "init"
      /\ response_flag \in [Workers -> ResponseFlag]
  BY Zenon, <1>1 DEF HandshakeInv
<1>3. ~HasTask(i) /\ HasTask(i)' /\ TaskOf(i)' = Head(tskq[t])
  BY Zenon, <1>1, <1>2 DEF HasTask, TaskOf
<1>4. \A w \in Workers : w # i => response_flag'[w] = response_flag[w]
  BY Zenon, <1>1, <1>2
<1>5. \A w \in Workers : w # i => SameTask(w)
  BY Zenon, <1>1, <1>4 DEF SameTask, HasTask, TaskOf
<1> QED
  BY Zenon, <1>3, <1>5

(* dispatch_fill moves the task from the dispatcher's hands to the slot of the
   same worker.                                                               *)
LEMMA TaskStored ==
  ASSUME HandshakeInv, DataInv, UNCHANGED workVars, dispatch_fill
  PROVE  \A w \in Workers : SameTask(w)
BY Zenon DEF dispatch_fill, SameTask, HasTask, TaskOf, HandshakeInv, DataInv

(* The ways a step may move contexts, and that each keeps every allocated
   context in one place and the pools' counts right.  None moves.             *)
LEMMA ContextStable ==
  ASSUME ContextInv, CountInv,
         UNCHANGED <<tskq, context_pool, stack_pool, task_mempool>>,
         \A w \in Workers : SameTask(w)
  PROVE  ContextInv' /\ CountInv'
<1>1. QueuedLive' /\ QueuedOnce'
  <2>1. QueuedLive'
    BY Zenon DEF ContextInv, QueuedLive
  <2>2. QueuedOnce'
    BY DEF ContextInv, QueuedOnce
  <2> QED
    BY Zenon, <2>1, <2>2
<1>2. GivenLive' /\ GivenOnce'
  BY Zenon DEF ContextInv, GivenLive, GivenOnce, SameTask
<1>3. GivenNotQueued'
  BY Zenon DEF ContextInv, GivenNotQueued, SameTask
<1>4. LiveHeld'
  BY DEF ContextInv, LiveHeld, SameTask
<1>5. CountInv'
  BY Zenon DEF CountInv, Live, Queued
<1> QED
  BY Zenon, <1>1, <1>2, <1>3, <1>4, <1>5 DEF ContextInv

(* handle_finished: the context worker i was given is free again.             *)
LEMMA ContextReturned ==
  ASSUME ContextInv, CountInv, UNCHANGED <<tskq, task_mempool>>, stack_pool \in Int,
         NEW i \in Workers, HasTask(i), ~HasTask(i)', context_free(TaskOf(i).rnbl),
         \A w \in Workers : w # i => SameTask(w)
  PROVE  ContextInv' /\ CountInv'
<1> DEFINE c == TaskOf(i).rnbl
<1>1. c \in Live /\ c \notin Queued
  BY Zenon DEF ContextInv, GivenLive, GivenNotQueued, Live, Queued
<1>2. context_pool' = context_pool \cup {c} /\ stack_pool' = stack_pool + 1
  BY Zenon DEF context_free
<1>3. \A w \in Workers : w # i /\ HasTask(w) => TaskOf(w).rnbl # c
  BY Zenon DEF ContextInv, GivenOnce
<1>4. \A t \in Types : \A j \in 1 .. Len(tskq[t]) : tskq[t][j].rnbl # c
  BY Zenon DEF ContextInv, GivenNotQueued
<1> HIDE DEF c
<1>5. ContextInv'
  <2>1. QueuedLive'
    BY Zenon, <1>2, <1>4 DEF ContextInv, QueuedLive
  <2>2. GivenLive'
    BY ZenonT(30), <1>2, <1>3 DEF ContextInv, GivenLive, SameTask
  <2>3. LiveHeld'
    BY <1>2 DEF ContextInv, LiveHeld, SameTask, c
  <2>4. GivenOnce'
    BY Zenon DEF ContextInv, GivenOnce, SameTask
  <2>5. GivenNotQueued'
    BY Zenon DEF ContextInv, GivenNotQueued, SameTask
  <2>6. QueuedOnce'
    BY DEF ContextInv, QueuedOnce
  <2> QED
    BY Zenon, <2>1, <2>2, <2>3, <2>4, <2>5, <2>6 DEF ContextInv
<1>6. CountInv'
  <2>1. Live' = Live \ {c} /\ Queued' = Queued
    BY Zenon, <1>2 DEF Live, Queued
  <2>2. Cardinality(Live') = Cardinality(Live) - 1
    BY Zenon, <1>1, <2>1, CountedSets, FS_RemoveElement
  <2> QED
    BY <1>2, <2>1, <2>2, CountedSets, DispatchAssumption DEF CountInv
<1> QED
  BY Zenon, <1>5, <1>6

(* A context queued by tskq_enqueue_tail that was not queued is queued once.  *)
LEMMA EnqueuedOnce ==
  ASSUME ContextInv, tskq \in [Types -> Seq(OwnedTask)], task_mempool # 0,
         NEW task \in OwnedTask, task.type \in Types, tskq_enqueue_tail(task),
         task.rnbl \in Ctx, task.rnbl \notin Queued
  PROVE  /\ QueuedOnce'
         /\ Queued' = Queued \cup {task.rnbl}
<1> DEFINE c == task.rnbl
<1>1. /\ \A u \in Types : \A j \in 1 .. Len(tskq[u]) :
           j \in 1 .. Len(tskq'[u]) /\ tskq'[u][j] = tskq[u][j]
      /\ /\ Len(tskq[task.type]) + 1 \in 1 .. Len(tskq'[task.type])
         /\ tskq'[task.type][Len(tskq[task.type]) + 1] = task
      /\ \A u \in Types : \A j \in 1 .. Len(tskq'[u]) :
           \/ j \in 1 .. Len(tskq[u])
           \/ u = task.type /\ j = Len(tskq[u]) + 1
  BY Zenon, EnqueueTailAt
<1>2. \A t \in Types : \A j \in 1 .. Len(tskq[t]) : tskq[t][j].rnbl # c
  BY Zenon DEF Queued
<1>3. ASSUME NEW t \in Types, NEW u \in Types,
             NEW j \in 1 .. Len(tskq'[t]), NEW k \in 1 .. Len(tskq'[u]),
             tskq'[t][j].rnbl = tskq'[u][k].rnbl
      PROVE  t = u /\ j = k
  <2>1. CASE j \in 1 .. Len(tskq[t]) /\ k \in 1 .. Len(tskq[u])
    <3>1. tskq[t][j].rnbl = tskq[u][k].rnbl
      BY Zenon, <2>1, <1>1, <1>3
    <3>2. \A v, w \in Types : \A m \in 1 .. Len(tskq[v]), n \in 1 .. Len(tskq[w]) :
            tskq[v][m].rnbl = tskq[w][n].rnbl => v = w /\ m = n
      BY Zenon DEF ContextInv, QueuedOnce
    <3> QED
      BY ZenonT(30), <2>1, <3>1, <3>2
  <2>2. CASE j \in 1 .. Len(tskq[t]) /\ k \notin 1 .. Len(tskq[u])
    <3>1. tskq'[u][k] = task /\ tskq'[t][j] = tskq[t][j]
      BY ZenonT(30), <2>2, <1>1
    <3> QED
      BY ZenonT(30), <3>1, <2>2, <1>2, <1>3
  <2>3. CASE j \notin 1 .. Len(tskq[t]) /\ k \in 1 .. Len(tskq[u])
    <3>1. tskq'[t][j] = task /\ tskq'[u][k] = tskq[u][k]
      BY ZenonT(30), <2>3, <1>1
    <3> QED
      BY Zenon, <3>1, <2>3, <1>2, <1>3
  <2>4. CASE j \notin 1 .. Len(tskq[t]) /\ k \notin 1 .. Len(tskq[u])
    BY <2>4, <1>1
  <2> QED
    BY ZenonT(30), <2>1, <2>2, <2>3, <2>4
<1>4. ASSUME NEW d \in Queued' PROVE d \in Queued \cup {c}
  BY ZenonT(60), <1>4, <1>1 DEF Queued
<1>5. ASSUME NEW d \in Queued PROVE d \in Queued'
  BY ZenonT(60), <1>5, <1>1 DEF Queued
<1>6. c \in Queued'
  BY Zenon, <1>1 DEF Queued
<1>7. QueuedOnce'
  BY Zenon, <1>3 DEF QueuedOnce
<1> HIDE DEF c
<1>8. Queued' = Queued \cup {c}
  BY Zenon, <1>4, <1>5, <1>6
<1> QED
  BY Zenon, <1>7, <1>8 DEF c

(* A live context that is not queued leaves a task cell free, and so does a free
   stack: tskq_enqueue_tail never drops what the dispatcher hands it.         *)
LEMMA CellForTask ==
  ASSUME ContextInv, CountInv, task_mempool \in Nat, stack_pool \in Int,
         Queued # Live \/ stack_pool > 0
  PROVE  task_mempool # 0
<1>1. CASE Queued # Live
  <2>1. Cardinality(Queued) # Cardinality(Live)
    BY ZenonT(30), <1>1, CountedSets, FS_Subset
  <2>2. Cardinality(Queued) < Cardinality(Live)
    BY <2>1, CountedSets
  <2> QED
    BY <2>2, CountedSets, DispatchAssumption, PoolAssumption DEF CountInv
<1>2. CASE stack_pool > 0
  BY <1>2, CountedSets, DispatchAssumption, PoolAssumption DEF CountInv
<1> QED
  BY Zenon, <1>1, <1>2

(* handle_preempted: the context worker i was given is queued again; there is
   a task cell for it, since it is live and not queued.                       *)
LEMMA ContextRequeued ==
  ASSUME ContextInv, CountInv, tskq \in [Types -> Seq(OwnedTask)], task_mempool \in Nat,
         UNCHANGED <<context_pool, stack_pool>>, stack_pool \in Int,
         NEW i \in Workers, HasTask(i), ~HasTask(i)',
         NEW task \in OwnedTask, task.type \in Types, task.rnbl = TaskOf(i).rnbl,
         tskq_enqueue_tail(task),
         \A w \in Workers : w # i => SameTask(w)
  PROVE  ContextInv' /\ CountInv'
<1> DEFINE c == task.rnbl
<1>1. c \in Live /\ c \notin Queued /\ c \in Ctx
  BY Zenon DEF ContextInv, GivenLive, GivenNotQueued, Live, Queued
<1>2. task_mempool # 0
  BY Zenon, <1>1, CellForTask
<1>3. /\ task_mempool' = task_mempool - 1
      /\ \A u \in Types : Len(tskq[u]) \in Nat
      /\ \A u \in Types : \A j \in 1 .. Len(tskq[u]) :
           j \in 1 .. Len(tskq'[u]) /\ tskq'[u][j] = tskq[u][j]
      /\ /\ Len(tskq[task.type]) + 1 \in 1 .. Len(tskq'[task.type])
         /\ tskq'[task.type][Len(tskq[task.type]) + 1] = task
      /\ \A u \in Types : \A j \in 1 .. Len(tskq'[u]) :
           \/ j \in 1 .. Len(tskq[u])
           \/ u = task.type /\ j = Len(tskq[u]) + 1
  BY Zenon, <1>2, EnqueueTailAt
<1>4. \A w \in Workers : w # i /\ HasTask(w) => TaskOf(w).rnbl # c
  BY Zenon DEF ContextInv, GivenOnce
<1>5. \A t \in Types : \A j \in 1 .. Len(tskq[t]) : tskq[t][j].rnbl # c
  BY Zenon DEF ContextInv, GivenNotQueued
<1> HIDE DEF c
<1>6. ContextInv'
  <2>1. QueuedLive'
    <3> SUFFICES ASSUME NEW t \in Types, NEW j \in 1 .. Len(tskq'[t])
                 PROVE  tskq'[t][j].rnbl \in Ctx \ context_pool'
      BY Zenon DEF QueuedLive
    <3>1. CASE j \in 1 .. Len(tskq[t])
      <4>1. tskq'[t][j] = tskq[t][j] /\ tskq[t][j].rnbl \in Ctx \ context_pool
        BY Zenon, <3>1, <1>3 DEF ContextInv, QueuedLive
      <4> QED
        BY ZenonT(30), <4>1, <1>1
    <3>2. CASE t = task.type /\ j = Len(tskq[t]) + 1
      <4>1. tskq'[t][j].rnbl = c
        BY Zenon, <3>2, <1>3 DEF c
      <4> QED
        BY Zenon, <4>1, <1>1 DEF Live
    <3> QED
      BY Zenon, <3>1, <3>2, <1>3
  <2>2. QueuedOnce'
    BY Zenon, <1>1, <1>2, EnqueuedOnce DEF c
  <2>3. GivenLive'
    BY Zenon DEF ContextInv, GivenLive, SameTask
  <2>4. GivenOnce'
    BY ZenonT(30) DEF ContextInv, GivenOnce, SameTask
  <2>5. GivenNotQueued'
    <3> SUFFICES ASSUME NEW w \in Workers, HasTask(w)',
                        NEW t \in Types, NEW j \in 1 .. Len(tskq'[t])
                 PROVE  tskq'[t][j].rnbl # TaskOf(w)'.rnbl
      BY Zenon DEF GivenNotQueued
    <3>1. w # i /\ HasTask(w) /\ TaskOf(w)'.rnbl = TaskOf(w).rnbl
      BY Zenon DEF SameTask
    <3>2. CASE j \in 1 .. Len(tskq[t])
      <4>1. tskq'[t][j] = tskq[t][j]
        BY Zenon, <3>2, <1>3
      <4>2. tskq[t][j].rnbl # TaskOf(w).rnbl
        BY Zenon, <3>1, <3>2 DEF ContextInv, GivenNotQueued
      <4> QED
        BY Zenon, <3>1, <4>1, <4>2
    <3>3. CASE t = task.type /\ j = Len(tskq[t]) + 1
      <4>1. tskq'[t][j].rnbl = c
        BY Zenon, <3>3, <1>3 DEF c
      <4> QED
        BY Zenon, <4>1, <3>1, <1>4
    <3> QED
      BY Zenon, <3>2, <3>3, <1>3
  <2>6. ASSUME NEW d \in Ctx \ context_pool'
        PROVE  \/ \E t \in Types : \E j \in 1 .. Len(tskq'[t]) : tskq'[t][j].rnbl = d
               \/ \E w \in Workers : HasTask(w)' /\ TaskOf(w)'.rnbl = d
    <3>1. CASE d = c
      BY Zenon, <3>1, <1>3 DEF c
    <3>2. CASE \E t \in Types : \E j \in 1 .. Len(tskq[t]) : tskq[t][j].rnbl = d
      BY ZenonT(30), <3>2, <1>3
    <3>3. CASE d # c /\ \E w \in Workers : HasTask(w) /\ TaskOf(w).rnbl = d
      BY Zenon, <3>3 DEF SameTask, c
    <3> QED
      BY Zenon, <3>1, <3>2, <3>3 DEF ContextInv, LiveHeld
  <2> QED
    BY Zenon, <2>1, <2>2, <2>3, <2>4, <2>5, <2>6 DEF ContextInv, LiveHeld
<1>7. CountInv'
  <2>1. Live' = Live
    BY Zenon DEF Live
  <2>2. Queued' = Queued \cup {c}
    BY Zenon, <1>1, <1>2, EnqueuedOnce DEF c
  <2>3. Cardinality(Queued') = Cardinality(Queued) + 1
    BY Zenon, <1>1, <2>2, CountedSets, FS_AddElement
  <2> QED
    BY <1>3, <2>1, <2>3, CountedSets, DispatchAssumption DEF CountInv
<1> QED
  BY ZenonT(30), <1>6, <1>7

(* packet_queue: a free context is allocated and queued; there is a task cell
   for it, since there was a stack.                                           *)
LEMMA ContextAdmitted ==
  ASSUME ContextInv, CountInv, tskq \in [Types -> Seq(OwnedTask)], task_mempool \in Nat,
         context_pool \subseteq Ctx, stack_pool \in Int,
         NEW task \in OwnedTask, task.type \in Types,
         context_alloc(task.rnbl), tskq_enqueue_tail(task),
         \A w \in Workers : SameTask(w)
  PROVE  ContextInv' /\ CountInv'
<1> DEFINE c == task.rnbl
<1>1. /\ c \in context_pool /\ c \notin Live /\ c \in Ctx /\ stack_pool > 0
      /\ context_pool' = context_pool \ {c} /\ stack_pool' = stack_pool - 1
  BY Zenon DEF Live, context_alloc
<1>2. c \notin Queued
  BY ZenonT(30), <1>1, CountedSets
<1>3. task_mempool # 0
  BY ZenonT(30), <1>1, CellForTask
<1>4. /\ task_mempool' = task_mempool - 1
      /\ \A u \in Types : \A j \in 1 .. Len(tskq[u]) :
           j \in 1 .. Len(tskq'[u]) /\ tskq'[u][j] = tskq[u][j]
      /\ /\ Len(tskq[task.type]) + 1 \in 1 .. Len(tskq'[task.type])
         /\ tskq'[task.type][Len(tskq[task.type]) + 1] = task
      /\ \A u \in Types : \A j \in 1 .. Len(tskq'[u]) :
           \/ j \in 1 .. Len(tskq[u])
           \/ u = task.type /\ j = Len(tskq[u]) + 1
  BY Zenon, <1>3, EnqueueTailAt
<1>5. \A w \in Workers : HasTask(w) => TaskOf(w).rnbl # c
  BY Zenon, <1>1 DEF ContextInv, GivenLive
<1> HIDE DEF c
<1>6. ContextInv'
  <2>1. QueuedLive'
    <3> SUFFICES ASSUME NEW t \in Types, NEW j \in 1 .. Len(tskq'[t])
                 PROVE  tskq'[t][j].rnbl \in Ctx \ context_pool'
      BY Zenon DEF QueuedLive
    <3>1. CASE j \in 1 .. Len(tskq[t])
      <4>1. tskq'[t][j] = tskq[t][j] /\ tskq[t][j].rnbl \in Ctx \ context_pool
        BY Zenon, <3>1, <1>4 DEF ContextInv, QueuedLive
      <4> QED
        BY Zenon, <4>1, <1>1
    <3>2. CASE t = task.type /\ j = Len(tskq[t]) + 1
      <4>1. tskq'[t][j].rnbl = c
        BY Zenon, <3>2, <1>4 DEF c
      <4> QED
        BY ZenonT(30), <4>1, <1>1 DEF Live
    <3> QED
      BY Zenon, <3>1, <3>2, <1>4
  <2>2. QueuedOnce'
    BY Zenon, <1>1, <1>2, <1>3, EnqueuedOnce DEF c
  <2>3. GivenLive'
    BY Zenon, <1>1 DEF ContextInv, GivenLive, SameTask
  <2>4. GivenOnce'
    BY Zenon DEF ContextInv, GivenOnce, SameTask
  <2>5. GivenNotQueued'
    <3> SUFFICES ASSUME NEW w \in Workers, HasTask(w)',
                        NEW t \in Types, NEW j \in 1 .. Len(tskq'[t])
                 PROVE  tskq'[t][j].rnbl # TaskOf(w)'.rnbl
      BY Zenon DEF GivenNotQueued
    <3>1. HasTask(w) /\ TaskOf(w)'.rnbl = TaskOf(w).rnbl
      BY Zenon DEF SameTask
    <3>2. CASE j \in 1 .. Len(tskq[t])
      <4>1. tskq'[t][j] = tskq[t][j]
        BY Zenon, <3>2, <1>4
      <4>2. tskq[t][j].rnbl # TaskOf(w).rnbl
        BY Zenon, <3>1, <3>2 DEF ContextInv, GivenNotQueued
      <4> QED
        BY Zenon, <3>1, <4>1, <4>2
    <3>3. CASE t = task.type /\ j = Len(tskq[t]) + 1
      <4>1. tskq'[t][j].rnbl = c
        BY Zenon, <3>3, <1>4 DEF c
      <4> QED
        BY Zenon, <4>1, <3>1, <1>5
    <3> QED
      BY Zenon, <3>2, <3>3, <1>4
  <2>6. ASSUME NEW d \in Ctx \ context_pool'
        PROVE  \/ \E t \in Types : \E j \in 1 .. Len(tskq'[t]) : tskq'[t][j].rnbl = d
               \/ \E w \in Workers : HasTask(w)' /\ TaskOf(w)'.rnbl = d
    <3>1. CASE d = c
      BY Zenon, <3>1, <1>4 DEF c
    <3>2. CASE \E t \in Types : \E j \in 1 .. Len(tskq[t]) : tskq[t][j].rnbl = d
      BY ZenonT(30), <3>2, <1>4
    <3>3. CASE \E w \in Workers : HasTask(w) /\ TaskOf(w).rnbl = d
      BY Zenon, <3>3 DEF SameTask
    <3> QED
      BY Zenon, <3>1, <3>2, <3>3, <1>1 DEF ContextInv, LiveHeld
  <2> QED
    BY Zenon, <2>1, <2>2, <2>3, <2>4, <2>5, <2>6 DEF ContextInv, LiveHeld
<1>7. CountInv'
  <2>1. Live' = Live \cup {c}
    BY Zenon, <1>1 DEF Live
  <2>2. Cardinality(Live') = Cardinality(Live) + 1
    BY Zenon, <1>1, <2>1, CountedSets, FS_AddElement
  <2>3. Queued' = Queued \cup {c}
    BY Zenon, <1>1, <1>2, <1>3, EnqueuedOnce DEF c
  <2>4. Cardinality(Queued') = Cardinality(Queued) + 1
    BY Zenon, <1>2, <2>3, CountedSets, FS_AddElement
  <2> QED
    BY <1>1, <1>4, <2>2, <2>4, CountedSets, DispatchAssumption DEF CountInv
<1> QED
  BY Zenon, <1>6, <1>7

(* dispatch_take: the context at the head of queue t goes to worker i.        *)
LEMMA ContextTaken ==
  ASSUME ContextInv, CountInv, tskq \in [Types -> Seq(OwnedTask)], task_mempool \in Nat,
         UNCHANGED <<context_pool, stack_pool>>, stack_pool \in Int,
         NEW t \in NonEmptyQueues, tskq_dequeue(t),
         NEW i \in Workers, ~HasTask(i), HasTask(i)',
         TaskOf(i)' = Head(tskq[t]),
         \A w \in Workers : w # i => SameTask(w)
  PROVE  ContextInv' /\ CountInv'
<1> DEFINE c == Head(tskq[t]).rnbl
<1>1. /\ task_mempool' = task_mempool + 1
      /\ 1 \in 1 .. Len(tskq[t]) /\ Head(tskq[t]) = tskq[t][1]
      /\ \A u \in Types : u # t => tskq'[u] = tskq[u]
      /\ \A j \in 1 .. Len(tskq'[t]) :
           j + 1 \in 1 .. Len(tskq[t]) /\ tskq'[t][j] = tskq[t][j + 1]
      /\ \A j \in 1 .. Len(tskq[t]) : j # 1 =>
           j - 1 \in 1 .. Len(tskq'[t]) /\ tskq'[t][j - 1] = tskq[t][j]
  BY Zenon, DequeueAt
<1>2. t \in Types
  BY Zenon DEF NonEmptyQueues
<1>3. c \in Live /\ c \in Queued /\ TaskOf(i)'.rnbl = c
  BY ZenonT(30), <1>1, <1>2 DEF ContextInv, QueuedLive, Live, Queued
<1>4. \A w \in Workers : HasTask(w) => TaskOf(w).rnbl # c
  BY <1>1, <1>2 DEF ContextInv, GivenNotQueued
<1>5. \A u \in Types : \A j \in 1 .. Len(tskq'[u]) : \E k \in 1 .. Len(tskq[u]) :
        /\ tskq'[u][j] = tskq[u][k]
        /\ k = IF u = t THEN j + 1 ELSE j
  BY Zenon, <1>1
<1>6. \A u \in Types : \A j \in 1 .. Len(tskq'[u]) : tskq'[u][j].rnbl # c
  <2> SUFFICES ASSUME NEW u \in Types, NEW j \in 1 .. Len(tskq'[u])
               PROVE  tskq'[u][j].rnbl # tskq[t][1].rnbl
    BY <1>1
  <2>1. PICK k \in 1 .. Len(tskq[u]) : /\ tskq'[u][j] = tskq[u][k]
                                       /\ k = IF u = t THEN j + 1 ELSE j
    BY Zenon, <1>5
  <2>2. ~(u = t /\ k = 1)
    BY <2>1
  <2> QED
    BY <1>1, <1>2, <2>1, <2>2 DEF ContextInv, QueuedOnce
<1>7. ASSUME NEW u \in Types, NEW j \in 1 .. Len(tskq[u]), tskq[u][j].rnbl # c
      PROVE  \E k \in 1 .. Len(tskq'[u]) : tskq'[u][k] = tskq[u][j]
  <2>1. CASE u # t
    BY Zenon, <2>1, <1>1
  <2>2. CASE u = t
    <3>1. j # 1
      BY Zenon, <2>2, <1>1, <1>7
    <3> QED
      BY Zenon, <2>2, <3>1, <1>1
  <2> QED
    BY Zenon, <2>1, <2>2
<1> HIDE DEF c
<1>8. ContextInv'
  <2>1. QueuedLive'
    <3> SUFFICES ASSUME NEW u \in Types, NEW j \in 1 .. Len(tskq'[u])
                 PROVE  tskq'[u][j].rnbl \in Ctx \ context_pool'
      BY Zenon DEF QueuedLive
    <3>1. PICK k \in 1 .. Len(tskq[u]) : tskq'[u][j] = tskq[u][k]
      BY Zenon, <1>5
    <3>2. tskq[u][k].rnbl \in Ctx \ context_pool
      BY Zenon DEF ContextInv, QueuedLive
    <3> QED
      BY ZenonT(30), <3>1, <3>2
  <2>2. ASSUME NEW u \in Types, NEW v \in Types,
               NEW j \in 1 .. Len(tskq'[u]), NEW k \in 1 .. Len(tskq'[v]),
               tskq'[u][j].rnbl = tskq'[v][k].rnbl
        PROVE  u = v /\ j = k
    <3>1. PICK jj \in 1 .. Len(tskq[u]) : /\ tskq'[u][j] = tskq[u][jj]
                                          /\ jj = IF u = t THEN j + 1 ELSE j
      BY Zenon, <1>5
    <3>2. PICK kk \in 1 .. Len(tskq[v]) : /\ tskq'[v][k] = tskq[v][kk]
                                          /\ kk = IF v = t THEN k + 1 ELSE k
      BY Zenon, <1>5
    <3>3. u = v /\ jj = kk
      BY <2>2, <3>1, <3>2 DEF ContextInv, QueuedOnce
    <3> QED
      BY <3>1, <3>2, <3>3
  <2>3. GivenLive'
    BY Zenon, <1>3 DEF ContextInv, GivenLive, SameTask, Live
  <2>4. GivenOnce'
    BY Zenon, <1>3, <1>4 DEF ContextInv, GivenOnce, SameTask
  <2>5. \A w \in Workers : HasTask(w)' =>
          \A u \in Types : \A j \in 1 .. Len(tskq'[u]) : tskq'[u][j].rnbl # TaskOf(w)'.rnbl
    <3> SUFFICES ASSUME NEW w \in Workers, HasTask(w)',
                        NEW u \in Types, NEW j \in 1 .. Len(tskq'[u])
                 PROVE  tskq'[u][j].rnbl # TaskOf(w)'.rnbl
      OBVIOUS
    <3>1. CASE w = i
      BY Zenon, <3>1, <1>3, <1>6
    <3>2. CASE w # i
      <4>1. HasTask(w) /\ TaskOf(w)'.rnbl = TaskOf(w).rnbl
        BY Zenon, <3>2 DEF SameTask
      <4>2. PICK k \in 1 .. Len(tskq[u]) : tskq'[u][j] = tskq[u][k]
        BY Zenon, <1>5
      <4>3. tskq[u][k].rnbl # TaskOf(w).rnbl
        BY Zenon, <4>1 DEF ContextInv, GivenNotQueued
      <4> QED
        BY Zenon, <4>1, <4>2, <4>3
    <3> QED
      BY Zenon, <3>1, <3>2
  <2>6. ASSUME NEW d \in Ctx \ context_pool'
        PROVE  \/ \E u \in Types : \E j \in 1 .. Len(tskq'[u]) : tskq'[u][j].rnbl = d
               \/ \E w \in Workers : HasTask(w)' /\ TaskOf(w)'.rnbl = d
    <3>1. CASE d = c
      BY Zenon, <3>1, <1>3
    <3>2. CASE d # c /\ \E u \in Types : \E j \in 1 .. Len(tskq[u]) : tskq[u][j].rnbl = d
      <4>u. PICK u \in Types : \E j \in 1 .. Len(tskq[u]) : tskq[u][j].rnbl = d
        BY Zenon, <3>2
      <4>1. PICK j \in 1 .. Len(tskq[u]) : tskq[u][j].rnbl = d
        BY Zenon, <4>u
      <4>2. PICK k \in 1 .. Len(tskq'[u]) : tskq'[u][k] = tskq[u][j]
        BY Zenon, <3>2, <4>1, <1>7
      <4>3. tskq'[u][k].rnbl = d
        BY Zenon, <4>1, <4>2
      <4> QED
        BY Zenon, <4>3
    <3>3. CASE \E w \in Workers : HasTask(w) /\ TaskOf(w).rnbl = d
      BY Zenon, <3>3 DEF SameTask
    <3> QED
      BY Zenon, <3>1, <3>2, <3>3 DEF ContextInv, LiveHeld
  <2> QED
    BY Zenon, <2>1, <2>2, <2>3, <2>4, <2>5, <2>6
       DEF ContextInv, QueuedOnce, GivenNotQueued, LiveHeld
<1>9. CountInv'
  <2>1. Live' = Live
    BY Zenon DEF Live
  <2>2. Queued' = Queued \ {c}
    <3>1. ASSUME NEW d \in Queued' PROVE d \in Queued /\ d # c
      <4>1. d \in Ctx
        BY Zenon DEF Queued
      <4>2. PICK u \in Types : \E j \in 1 .. Len(tskq'[u]) : tskq'[u][j].rnbl = d
        BY Zenon DEF Queued
      <4>3. PICK j \in 1 .. Len(tskq'[u]) : tskq'[u][j].rnbl = d
        BY Zenon, <4>2
      <4>4. d # c
        BY Zenon, <4>3, <1>6
      <4>5. \E k \in 1 .. Len(tskq[u]) : tskq[u][k].rnbl = d
        BY Zenon, <4>3, <1>5
      <4> QED
        BY Zenon, <4>1, <4>4, <4>5 DEF Queued
    <3>2. ASSUME NEW d \in Queued, d # c PROVE d \in Queued'
      BY <3>2, <1>7 DEF Queued
    <3> QED
      BY Zenon, <3>1, <3>2
  <2>3. Cardinality(Queued') = Cardinality(Queued) - 1
    BY Zenon, <1>3, <2>2, CountedSets, FS_RemoveElement
  <2> QED
    BY <1>1, <2>1, <2>3, CountedSets, DispatchAssumption DEF CountInv
<1> QED
  BY ZenonT(30), <1>8, <1>9
-----------------------------------------------------------------------------
(* Every allocated context is in one queue position or with one worker, and the
   stack and task cells match (context_alloc, context_free, tskq_enqueue_tail
   and tskq_dequeue as the dispatcher calls them).                            *)
THEOREM ContextInvariant == Spec => [](ContextInv /\ CountInv)
<1>1. Init => ContextInv /\ CountInv
  <2> SUFFICES ASSUME Init PROVE ContextInv /\ CountInv
    OBVIOUS
  <2>1. /\ \A t \in Types : Len(tskq[t]) = 0 /\ ~\E j \in 1 .. Len(tskq[t]) : TRUE
        /\ \A w \in Workers : ~HasTask(w)
        /\ context_pool = Ctx
    BY DEF Init, DispatchInit, WorkerInit, HasTask
  <2>2. Live = {} /\ Queued = {}
    BY Zenon, <2>1 DEF Live, Queued
  <2>3. Cardinality(Live) = 0 /\ Cardinality(Queued) = 0
    BY ZenonT(30), <2>2, FS_EmptySet
  <2>4. CountInv
    BY <2>3, DispatchAssumption DEF Init, DispatchInit, CountInv
  <2> QED
    BY ZenonT(30), <2>1, <2>4 DEF ContextInv, QueuedLive, QueuedOnce, GivenLive, GivenOnce,
          GivenNotQueued, LiveHeld
<1>2. /\ ContextInv /\ CountInv
      /\ PointersInv /\ HandshakeInv /\ DataInv /\ RunInv /\ TasksInv /\ PoolInv
      /\ [Next]_vars
      => ContextInv' /\ CountInv'
  <2> SUFFICES ASSUME ContextInv, CountInv, PointersInv, HandshakeInv, DataInv,
                      RunInv, TasksInv, PoolInv, [Next]_vars
               PROVE  (ContextInv /\ CountInv)'
    OBVIOUS
  <2>h. /\ disp_w \in Workers
        /\ request_flag \in [Workers -> RequestFlag]
        /\ response_flag \in [Workers -> ResponseFlag]
        /\ work_pc \in [Workers -> WorkerPC]
    BY Zenon DEF HandshakeInv
  <2>d. /\ tskq \in [Types -> Seq(OwnedTask)]
        /\ stack_pool \in Int /\ task_mempool \in Nat
        /\ request \in [Workers -> Task] /\ response \in [Workers -> Task]
    BY Zenon DEF DataInv, TasksInv
  <2>1. CASE handle_finished /\ UNCHANGED <<frameVars, workVars, netVars>>
    <3>i. PICK i \in Workers : i = disp_w
      BY Zenon, <2>h
    <3>1. HasTask(i) /\ TaskOf(i) = response[i]
      BY Zenon, <2>1, <3>i, TaskHandled
    <3>2. ~HasTask(i)' /\ \A w \in Workers : w # i => SameTask(w)
      BY Zenon, <2>1, <3>i, TaskHandled
    <3>3. context_free(TaskOf(i).rnbl) /\ UNCHANGED <<tskq, task_mempool>>
      BY ZenonT(30), <2>1, <3>i, <3>1 DEF handle_finished
    <3> QED
      BY ZenonT(30), <2>d, <3>1, <3>2, <3>3, ContextReturned
  <2>2. CASE handle_preempted /\ UNCHANGED <<frameVars, workVars, netVars>>
    <3>i. PICK i \in Workers : i = disp_w
      BY Zenon, <2>h
    <3>t. PICK task : task = response[i]
      OBVIOUS
    <3>1. HasTask(i) /\ TaskOf(i) = task
      BY Zenon, <2>2, <3>i, <3>t, TaskHandled
    <3>2. ~HasTask(i)' /\ \A w \in Workers : w # i => SameTask(w)
      BY Zenon, <2>2, <3>i, TaskHandled
    <3>3. task \in OwnedTask /\ task.type \in Types
      BY Zenon, <3>1 DEF TasksInv, OwnedTask
    <3>4. tskq_enqueue_tail(task) /\ UNCHANGED <<context_pool, stack_pool>>
      BY ZenonT(30), <2>2, <3>i, <3>t DEF handle_preempted
    <3> QED
      BY ZenonT(30), <2>d, <3>1, <3>2, <3>3, <3>4, ContextRequeued
  <2>3. ASSUME NEW t \in Types, dispatch_take(t), UNCHANGED <<frameVars, workVars, netVars>>
       PROVE  (ContextInv /\ CountInv)'
    <3>i. PICK i \in Workers : i = disp_w
      BY Zenon, <2>h
    <3>1. /\ ~HasTask(i) /\ HasTask(i)' /\ TaskOf(i)' = Head(tskq[t])
          /\ \A w \in Workers : w # i => SameTask(w)
      BY Zenon, <2>3, <3>i, TaskTaken
    <3>4. t \in NonEmptyQueues /\ tskq_dequeue(t) /\ UNCHANGED <<context_pool, stack_pool>>
      BY Zenon, <2>3, <3>i DEF dispatch_take
    <3> QED
      BY ZenonT(30), <2>d, <3>1, <3>4, ContextTaken
  <2>4. CASE dispatch_fill /\ UNCHANGED <<frameVars, workVars, netVars>>
    <3>1. \A w \in Workers : SameTask(w)
      BY Zenon, <2>4, TaskStored
    <3>2. UNCHANGED <<tskq, context_pool, stack_pool, task_mempool>>
      BY Zenon, <2>4 DEF dispatch_fill
    <3> QED
      BY ZenonT(30), <3>1, <3>2, ContextStable
  <2>5. ASSUME NEW c \in Ctx, packet_queue(c), UNCHANGED <<frameVars, workVars, netVars>>
       PROVE  (ContextInv /\ CountInv)'
    <3> DEFINE task == [rnbl |-> c, mbuf |-> pkts[disp_k],
                        type |-> types[disp_k], category |-> "PACKET"]
    <3>1. disp_k \in Slots /\ pkts[disp_k] \in Mbuf
      BY <2>5, DispatchAssumption DEF packet_queue, PointersInv, TasksInv, Slots
    <3>2. task \in OwnedTask /\ task.type \in Types /\ task.rnbl = c
      BY Zenon, <3>1 DEF OwnedTask, DataInv
    <3>3. tskq_enqueue_tail(task) /\ context_alloc(c)
      BY Zenon, <2>5 DEF packet_queue
    <3>4. \A w \in Workers : SameTask(w)
      BY Zenon, <2>5 DEF packet_queue, SameTask, HasTask, TaskOf
    <3> HIDE DEF task
    <3> QED
      BY ZenonT(30), <2>d, <3>2, <3>3, <3>4, ContextAdmitted DEF PoolInv
  <2> DEFINE Quiet == /\ disp_pc # "fill" /\ disp_pc' # "fill"
                      /\ UNCHANGED <<work_pc, response_flag, request, response, tskq,
                                    context_pool, stack_pool, task_mempool>>
  <2>6. CASE /\ UNCHANGED <<frameVars, workVars, netVars>>
             /\ handle_idle \/ preempt_worker \/ leave_running
                \/ dispatch_none \/ dispatch_activate
    <3>1. handle_idle => Quiet
      BY Zenon, <2>6 DEF handle_idle
    <3>2. preempt_worker => Quiet
      BY ZenonT(30), <2>6 DEF preempt_worker, NextWorker
    <3>3. leave_running => Quiet
      BY Zenon, <2>6 DEF leave_running, NextWorker
    <3>4. dispatch_none => Quiet
      BY Zenon, <2>6 DEF dispatch_none, NextWorker
    <3>5. dispatch_activate => Quiet
      BY ZenonT(30), <2>6 DEF dispatch_activate, NextWorker
    <3> QED
      BY ZenonT(30), <2>6, <3>1, <3>2, <3>3, <3>4, <3>5, TasksLeft, ContextStable
  <2>7. CASE /\ UNCHANGED <<frameVars, workVars, netVars>>
             /\ networker_check \/ packet_drop \/ packets_done
                \/ give_buffer \/ give_done
    <3>1. networker_check => Quiet
      BY Zenon, <2>7 DEF networker_check
    <3>2. packet_drop => Quiet
      BY Zenon, <2>7 DEF packet_drop
    <3>3. packets_done => Quiet
      BY ZenonT(30), <2>7 DEF packets_done
    <3>4. give_buffer => Quiet
      BY Zenon, <2>7 DEF give_buffer
    <3>5. give_done => Quiet
      BY Zenon, <2>7 DEF give_done
    <3> QED
      BY Zenon, <2>7, <3>1, <3>2, <3>3, <3>4, <3>5, TasksLeft, ContextStable
  <2>8. ASSUME NEW w \in Workers, WorkerStep(w)
        PROVE  (ContextInv /\ CountInv)'
    <3>1. UNCHANGED <<tskq, context_pool, stack_pool, task_mempool>>
      BY Zenon, <2>8, WorkerFrame
    <3>2. \A v \in Workers : SameTask(v)
      BY Zenon, <2>8, WorkerKeepsTask
    <3> QED
      BY ZenonT(30), <3>1, <3>2, ContextStable
  <2>9. CASE NetworkerStep
    <3>1. UNCHANGED <<work_pc, response_flag, request, response, disp_pc, disp_w,
                      disp_task, tskq, context_pool, stack_pool, task_mempool>>
      BY ZenonT(30), <2>9, NetworkerFrame
    <3> QED
      BY ZenonT(30), <3>1, NetworkerLeavesTasks, ContextStable
  <2>10. CASE UNCHANGED vars
    <3>1. UNCHANGED <<work_pc, response_flag, request, response, disp_pc, disp_w,
                      disp_task, tskq, context_pool, stack_pool, task_mempool>>
      BY Zenon, <2>10 DEF vars
    <3> QED
      BY Zenon, <3>1, NetworkerLeavesTasks, ContextStable
  <2> QED
    BY ZenonT(30), <2>1, <2>2, <2>3, <2>4, <2>5, <2>6, <2>7, <2>8, <2>9, <2>10
       DEF Next, DispatcherStep, DispatcherNext
<1> QED
  BY <1>1, <1>2, PointersInvariant, HandshakeInvariant, DataInvariant,
     RunInvariant, TasksInvariant, PoolInvariant, PTL DEF Spec

-----------------------------------------------------------------------------
(* The lengths mbuf_enqueue and mbuf_dequeue give mqueue.                      *)
LEMMA MqueueLength ==
  ASSUME mqueue \in Seq(Mbuf)
  PROVE  /\ Len(mqueue) \in Nat
         /\ \A buf \in Mbuf : mbuf_enqueue(buf) =>
              Len(mqueue') = Len(mqueue) + 1 /\ mcell_mempool' = mcell_mempool - 1
         /\ mqueue # <<>> /\ mbuf_dequeue =>
              Len(mqueue') = Len(mqueue) - 1 /\ mcell_mempool' = mcell_mempool + 1
<1>1. ASSUME NEW buf \in Mbuf, mbuf_enqueue(buf)
      PROVE  Len(mqueue') = Len(mqueue) + 1 /\ mcell_mempool' = mcell_mempool - 1
  <2>1. buf # NULL
    BY Zenon, DispatchAssumption
  <2>2. mqueue' = <<buf>> \o mqueue /\ mcell_mempool' = mcell_mempool - 1
    BY ZenonT(30), <1>1, <2>1 DEF mbuf_enqueue
  <2>3. <<buf>> \in Seq(Mbuf) /\ Len(<<buf>>) = 1
    OBVIOUS
  <2> QED
    BY <2>2, <2>3
<1>2. mqueue # <<>> /\ mbuf_dequeue =>
        Len(mqueue') = Len(mqueue) - 1 /\ mcell_mempool' = mcell_mempool + 1
  BY DEF mbuf_dequeue
<1> QED
  BY <1>1, <1>2

(* No more contexts are allocated than there are contexts and stacks, and when
   context_alloc fails exactly that many are.                                 *)
LEMMA LiveBound ==
  ASSUME ContextInv, CountInv, PoolInv, stack_pool \in Int
  PROVE  /\ Cardinality(Live) \in Nat /\ MostContexts \in Nat
         /\ MostContexts <= StackCapacity
         /\ Cardinality(Live) <= MostContexts
         /\ ~CanAllocContext => Cardinality(Live) = MostContexts
<1>1. Cardinality(Live) \in Nat /\ Cardinality(Ctx) \in Nat
      /\ Cardinality(Live) <= Cardinality(Ctx)
  BY ZenonT(30), CountedSets, DispatchAssumption, FS_Subset, FS_CardinalityType DEF Live
<1>2. context_pool = {} => Live = Ctx
  BY Zenon DEF Live
<1>3. stack_pool = 0 => Cardinality(Live) = StackCapacity
  BY <1>1, DispatchAssumption DEF CountInv
<1>4. Cardinality(Live) <= StackCapacity
  BY <1>1, DispatchAssumption DEF CountInv
<1>5. ~CanAllocContext => context_pool = {} \/ stack_pool = 0
  BY DEF CanAllocContext, CountInv
<1> QED
  BY <1>1, <1>2, <1>3, <1>4, <1>5, DispatchAssumption DEF MostContexts

(* The buffers waiting in mqueue are bounded by the contexts and the batch, so
   the cells they take are (handle_finished, handle_networker).               *)
THEOREM MqueueInvariant == Spec => []MqueueInv
<1>1. Init => MqueueInv
  <2> SUFFICES ASSUME Init PROVE MqueueInv
    OBVIOUS
  <2>1. mqueue = <<>> /\ Len(mqueue) = 0 /\ mcell_mempool = McellCapacity /\ disp_pc = "worker"
    BY Zenon DEF Init, DispatchInit, DispatcherInit
  <2>2. Cardinality(Live) = 0
    BY Zenon, FS_EmptySet DEF Init, DispatchInit, Live
  <2>3. MostContexts \in Nat
    BY ZenonT(30), DispatchAssumption, FS_CardinalityType DEF MostContexts
  <2> QED
    BY <2>1, <2>2, <2>3, DispatchAssumption DEF MqueueInv
<1>2. /\ MqueueInv
      /\ PointersInv /\ HandshakeInv /\ DataInv /\ TasksInv /\ PoolInv
      /\ ContextInv /\ CountInv /\ (ContextInv /\ CountInv)' /\ DataInv' /\ PoolInv'
      /\ [Next]_vars
      => MqueueInv'
  <2> SUFFICES ASSUME MqueueInv, PointersInv, HandshakeInv, DataInv, TasksInv, PoolInv,
                      ContextInv, CountInv, (ContextInv /\ CountInv)', DataInv', PoolInv',
                      [Next]_vars
               PROVE  MqueueInv'
    OBVIOUS
  <2> DEFINE L == Len(mqueue)
             N == Cardinality(Live)
             M == MostContexts
  <2>a. /\ L \in Nat /\ N \in Nat /\ M \in Nat /\ N <= M
        /\ Batch \in Nat /\ Batch >= 1 /\ McellCapacity \in Nat
        /\ mcell_mempool \in Int /\ disp_k \in 0 .. Batch /\ cnt \in 0 .. Batch
        /\ mqueue \in Seq(Mbuf)
    BY MqueueLength, LiveBound, DispatchAssumption DEF DataInv, PointersInv
  <2>b. L' \in Nat /\ N' \in Nat /\ M' = M /\ N' <= M
    <3>1. M' = M
      BY Zenon DEF MostContexts
    <3>2. Len(mqueue') \in Nat
      BY DEF DataInv
    <3>3. stack_pool' \in Int
      BY Zenon DEF DataInv
    <3>4. N' = StackCapacity - stack_pool' /\ stack_pool' >= 0
      BY Zenon DEF CountInv
    <3>5. IsFiniteSet(Ctx) /\ Live' \subseteq Ctx
      BY Zenon, DispatchAssumption DEF Live
    <3>6. N' \in Nat /\ N' <= Cardinality(Ctx) /\ Cardinality(Ctx) \in Nat
      BY Zenon, <3>5, FS_Subset, FS_CardinalityType
    <3>7. N' <= StackCapacity
      <4>1. \A n \in Nat, s \in Int : s >= 0 /\ n = StackCapacity - s => n <= StackCapacity
        BY DispatchAssumption
      <4> QED
        BY ZenonT(30), <3>3, <3>4, <3>6, <4>1
    <3>8. N' <= M
      BY Zenon, <3>6, <3>7 DEF MostContexts
    <3> QED
      BY Zenon, <3>1, <3>2, <3>6, <3>8
  <2>c. /\ McellCapacity - mcell_mempool = L
        /\ L <= M \/ L <= Batch
        /\ disp_pc \notin {"packet", "give"} => L + N <= M
        /\ disp_pc = "packet" => L + N <= M + disp_k
        /\ disp_pc = "give" => L + N <= M + Batch - disp_k
    BY Zenon DEF MqueueInv
  <2>d. SUFFICES /\ McellCapacity - mcell_mempool' = L'
                 /\ L' <= M \/ L' <= Batch
                 /\ disp_pc' \notin {"packet", "give"} => L' + N' <= M
                 /\ disp_pc' = "packet" => L' + N' <= M + disp_k'
                 /\ disp_pc' = "give" => L' + N' <= M + Batch - disp_k'
    BY Zenon, <2>b DEF MqueueInv
  <2> DEFINE Goal == /\ McellCapacity - mcell_mempool' = L'
                     /\ L' <= M \/ L' <= Batch
                     /\ disp_pc' \notin {"packet", "give"} => L' + N' <= M
                     /\ disp_pc' = "packet" => L' + N' <= M + disp_k'
                     /\ disp_pc' = "give" => L' + N' <= M + Batch - disp_k'
  <2>e. ASSUME UNCHANGED <<mqueue, mcell_mempool, context_pool>>
        PROVE  L' = L /\ N' = N
    BY Zenon, <2>e DEF Live
  <2> HIDE DEF M
  <2>1. CASE handle_finished /\ UNCHANGED <<frameVars, workVars, netVars>>
    <3>1. HasTask(disp_w) /\ TaskOf(disp_w) = response[disp_w]
      BY Zenon, <2>1 DEF handle_finished, HandshakeInv, HasTask, TaskOf
    <3>2. response[disp_w].mbuf \in Mbuf
      BY Zenon, <3>1 DEF TasksInv, HandshakeInv, OwnedTask
    <3>3. L' = L + 1 /\ mcell_mempool' = mcell_mempool - 1
      BY ZenonT(30), <2>1, <2>a, <3>2, MqueueLength DEF handle_finished
    <3>4. stack_pool' = stack_pool + 1
      BY Zenon, <2>1 DEF handle_finished, context_free
    <3>5. N' = N - 1
      BY <3>4, <2>a, <2>b, DispatchAssumption DEF CountInv, DataInv
    <3>6. disp_pc = "worker" /\ disp_pc' = "dispatch"
      BY Zenon, <2>1 DEF handle_finished
    <3> HIDE DEF L, N
    <3> QED
      BY <2>a, <2>b, <2>c, <3>3, <3>5, <3>6
  <2>2. CASE handle_preempted /\ UNCHANGED <<frameVars, workVars, netVars>>
    <3>1. UNCHANGED <<mqueue, mcell_mempool, context_pool>>
      BY Zenon, <2>2 DEF handle_preempted
    <3>2. disp_pc \notin {"packet", "give"} /\ disp_pc' \notin {"packet", "give"}
      BY ZenonT(30), <2>2 DEF handle_preempted
    <3> HIDE DEF L, N
    <3> QED
      BY Zenon, <2>a, <2>c, <2>e, <3>1, <3>2
  <2>3. CASE handle_idle /\ UNCHANGED <<frameVars, workVars, netVars>>
    <3>1. UNCHANGED <<mqueue, mcell_mempool, context_pool>>
      BY Zenon, <2>3 DEF handle_idle
    <3>2. disp_pc \notin {"packet", "give"} /\ disp_pc' \notin {"packet", "give"}
      BY ZenonT(30), <2>3 DEF handle_idle
    <3> HIDE DEF L, N
    <3> QED
      BY Zenon, <2>a, <2>c, <2>e, <3>1, <3>2
  <2>4. CASE preempt_worker /\ UNCHANGED <<frameVars, workVars, netVars>>
    <3>1. UNCHANGED <<mqueue, mcell_mempool, context_pool>>
      BY Zenon, <2>4 DEF preempt_worker
    <3>2. disp_pc \notin {"packet", "give"} /\ disp_pc' \notin {"packet", "give"}
      BY ZenonT(30), <2>4 DEF preempt_worker, NextWorker
    <3> HIDE DEF L, N
    <3> QED
      BY Zenon, <2>a, <2>c, <2>e, <3>1, <3>2
  <2>5. CASE leave_running /\ UNCHANGED <<frameVars, workVars, netVars>>
    <3>1. UNCHANGED <<mqueue, mcell_mempool, context_pool>>
      BY Zenon, <2>5 DEF leave_running
    <3>2. disp_pc \notin {"packet", "give"} /\ disp_pc' \notin {"packet", "give"}
      BY ZenonT(30), <2>5 DEF leave_running, NextWorker
    <3> HIDE DEF L, N
    <3> QED
      BY Zenon, <2>a, <2>c, <2>e, <3>1, <3>2
  <2>6. CASE dispatch_none /\ UNCHANGED <<frameVars, workVars, netVars>>
    <3>1. UNCHANGED <<mqueue, mcell_mempool, context_pool>>
      BY Zenon, <2>6 DEF dispatch_none
    <3>2. disp_pc \notin {"packet", "give"} /\ disp_pc' \notin {"packet", "give"}
      BY Zenon, <2>6 DEF dispatch_none, NextWorker
    <3> HIDE DEF L, N
    <3> QED
      BY Zenon, <2>a, <2>c, <2>e, <3>1, <3>2
  <2>7. ASSUME NEW t \in Types, dispatch_take(t), UNCHANGED <<frameVars, workVars, netVars>>
       PROVE  Goal
    <3>1. UNCHANGED <<mqueue, mcell_mempool, context_pool>>
      BY Zenon, <2>7 DEF dispatch_take
    <3>2. disp_pc \notin {"packet", "give"} /\ disp_pc' \notin {"packet", "give"}
      BY ZenonT(30), <2>7 DEF dispatch_take
    <3> HIDE DEF L, N
    <3> QED
      BY ZenonT(30), <2>a, <2>c, <2>e, <3>1, <3>2
  <2>8. CASE dispatch_fill /\ UNCHANGED <<frameVars, workVars, netVars>>
    <3>1. UNCHANGED <<mqueue, mcell_mempool, context_pool>>
      BY ZenonT(30), <2>8 DEF dispatch_fill
    <3>2. disp_pc \notin {"packet", "give"} /\ disp_pc' \notin {"packet", "give"}
      BY ZenonT(30), <2>8 DEF dispatch_fill
    <3> HIDE DEF L, N
    <3> QED
      BY Zenon, <2>a, <2>c, <2>e, <3>1, <3>2
  <2>9. CASE dispatch_activate /\ UNCHANGED <<frameVars, workVars, netVars>>
    <3>1. UNCHANGED <<mqueue, mcell_mempool, context_pool>>
      BY Zenon, <2>9 DEF dispatch_activate
    <3>2. disp_pc \notin {"packet", "give"} /\ disp_pc' \notin {"packet", "give"}
      BY ZenonT(30), <2>9 DEF dispatch_activate, NextWorker
    <3> HIDE DEF L, N
    <3> QED
      BY Zenon, <2>a, <2>c, <2>e, <3>1, <3>2
  <2>10. CASE networker_check /\ UNCHANGED <<frameVars, workVars, netVars>>
    <3>1. UNCHANGED <<mqueue, mcell_mempool, context_pool, disp_k>>
      BY ZenonT(30), <2>10 DEF networker_check
    <3>2. disp_k = 0 /\ disp_pc = "networker" /\ disp_pc' \in {"worker", "packet"}
      BY ZenonT(30), <2>10 DEF networker_check, PointersInv
    <3> HIDE DEF L, N
    <3> QED
      BY <2>a, <2>c, <2>e, <3>1, <3>2
  <2>11. ASSUME NEW c \in Ctx, packet_queue(c), UNCHANGED <<frameVars, workVars, netVars>>
       PROVE  Goal
    <3>1. UNCHANGED <<mqueue, mcell_mempool, disp_pc>> /\ disp_k' = disp_k + 1
          /\ disp_pc = "packet"
      BY Zenon, <2>11 DEF packet_queue
    <3>2. stack_pool' = stack_pool - 1
      BY ZenonT(30), <2>11 DEF packet_queue, context_alloc
    <3>3. N' = N + 1
      BY <3>2, <2>a, <2>b, DispatchAssumption DEF CountInv, DataInv
    <3>4. L' = L
      BY Zenon, <3>1
    <3> HIDE DEF L, N
    <3> QED
      BY <2>a, <2>c, <3>1, <3>3, <3>4
  <2>12. CASE packet_drop /\ UNCHANGED <<frameVars, workVars, netVars>>
    <3>1. /\ UNCHANGED <<disp_pc, context_pool>> /\ disp_k' = disp_k + 1
          /\ disp_pc = "packet" /\ disp_k < cnt /\ ~CanAllocContext
      BY Zenon, <2>12 DEF packet_drop
    <3>2. pkts[disp_k] \in Mbuf
      BY <2>a, <3>1 DEF TasksInv, Slots
    <3>3. L' = L + 1 /\ mcell_mempool' = mcell_mempool - 1
      BY Zenon, <2>12, <2>a, <3>2, MqueueLength DEF packet_drop
    <3>4. N = M /\ N' = N
      BY ZenonT(30), <3>1, LiveBound DEF DataInv, Live, M
    <3> HIDE DEF L, N
    <3> QED
      BY <2>a, <2>c, <3>1, <3>3, <3>4
  <2>13. CASE packets_done /\ UNCHANGED <<frameVars, workVars, netVars>>
    <3>1. UNCHANGED <<mqueue, mcell_mempool, context_pool>> /\ disp_pc = "packet"
          /\ disp_k = cnt /\ disp_pc' = "give" /\ disp_k' = 0
      BY ZenonT(30), <2>13 DEF packets_done
    <3> HIDE DEF L, N
    <3> QED
      BY <2>a, <2>c, <2>e, <3>1
  <2>14. CASE give_buffer /\ UNCHANGED <<frameVars, workVars, netVars>>
    <3>1. UNCHANGED <<disp_pc, context_pool>> /\ disp_k' = disp_k + 1
          /\ disp_pc = "give" /\ mqueue # <<>> /\ mbuf_dequeue
      BY Zenon, <2>14 DEF give_buffer
    <3>2. L' = L - 1 /\ mcell_mempool' = mcell_mempool + 1
      BY ZenonT(30), <2>a, <3>1, MqueueLength
    <3>3. N' = N
      BY ZenonT(30), <3>1 DEF Live
    <3> HIDE DEF L, N
    <3> QED
      BY <2>a, <2>b, <2>c, <3>1, <3>2, <3>3
  <2>15. CASE give_done /\ UNCHANGED <<frameVars, workVars, netVars>>
    <3>1. UNCHANGED <<mqueue, mcell_mempool, context_pool>> /\ disp_pc = "give"
          /\ disp_pc' = "worker" /\ (disp_k = Batch \/ mqueue = <<>>)
      BY Zenon, <2>15 DEF give_done
    <3>2. mqueue = <<>> => L = 0
      OBVIOUS
    <3> HIDE DEF L, N
    <3> QED
      BY <2>a, <2>c, <2>e, <3>1, <3>2
  <2>16. ASSUME NEW w \in Workers, WorkerStep(w) PROVE Goal
    <3>1. UNCHANGED <<mqueue, mcell_mempool, context_pool, disp_pc, disp_k>>
      BY ZenonT(30), <2>16, WorkerFrame
    <3> HIDE DEF L, N
    <3> QED
      BY ZenonT(30), <2>c, <2>e, <3>1
  <2>17. CASE NetworkerStep
    <3>1. UNCHANGED <<mqueue, mcell_mempool, context_pool, disp_pc, disp_k>>
      BY ZenonT(30), <2>17, NetworkerFrame
    <3> HIDE DEF L, N
    <3> QED
      BY ZenonT(30), <2>c, <2>e, <3>1
  <2>18. CASE UNCHANGED vars
    <3>1. UNCHANGED <<mqueue, mcell_mempool, context_pool, disp_pc, disp_k>>
      BY Zenon, <2>18 DEF vars
    <3> HIDE DEF L, N
    <3> QED
      BY Zenon, <2>c, <2>e, <3>1
  <2> HIDE DEF L, N
  <2> QED
    BY ZenonT(30), <2>1, <2>2, <2>3, <2>4, <2>5, <2>6, <2>7, <2>8, <2>9, <2>10, <2>11,
       <2>12, <2>13, <2>14, <2>15, <2>16, <2>17, <2>18
       DEF Next, DispatcherStep, DispatcherNext
<1> QED
  BY <1>1, <1>2, PointersInvariant, HandshakeInvariant, DataInvariant, TasksInvariant,
     PoolInvariant, ContextInvariant, PTL DEF Spec
-----------------------------------------------------------------------------
(* The strengthening holds in every reachable state: the layers proved one
   after the other hold together (the program counters, flags and pools of
   do_dispatching, do_work and do_networking agree).                          *)
THEOREM InductiveInvariant == Spec => []IInv
BY PointersInvariant, HandshakeInvariant, DataInvariant, RunInvariant, TasksInvariant,
   PoolInvariant, ContextInvariant, MqueueInvariant, PTL DEF IInv

(* The shared memory and the locals of each core keep their types: no null
   context is freed and no null buffer is answered or batched.                *)
THEOREM TypeCorrect == Spec => []TypeOK
<1>1. IInv => TypeOK
  <2> SUFFICES ASSUME IInv PROVE TypeOK
    OBVIOUS
  <2>1. /\ context_pool \subseteq Ctx /\ replied \subseteq Mbuf /\ short \subseteq Mbuf
    BY Zenon DEF IInv, PoolInv, RunInv
  <2>2. DataInv /\ HandshakeInv /\ PointersInv
    BY ZenonT(30) DEF IInv
  <2> QED
    BY ZenonT(30), <2>1, <2>2 DEF TypeOK, DataInv, HandshakeInv, PointersInv
<1> QED
  BY <1>1, InductiveInvariant, PTL

(* networker_pointers has one owner at a time: do_networking does not touch it
   while handle_networker does.                                               *)
THEOREM PointersExcluded == Spec => []PointersExclusion
<1>1. PointersInv => PointersExclusion
  BY ZenonT(30) DEF PointersInv, PointersExclusion
<1> QED
  BY <1>1, PointersInvariant, PTL

(* dispatch_request writes a request slot only while its worker spins in
   handle_request.                                                            *)
THEOREM RequestSlotExcluded == Spec => []RequestSlotExclusion
<1>1. HandshakeInv => RequestSlotExclusion
  BY ZenonT(30) DEF HandshakeInv, RequestSlotExclusion
<1> QED
  BY <1>1, HandshakeInvariant, PTL

(* The context finish_request reports is the one of the request do_work took. *)
THEOREM OwnRequestRun == Spec => []RunsOwnRequest
<1>1. RunInv => RunsOwnRequest
  BY ZenonT(30) DEF RunInv
<1> QED
  BY <1>1, RunInvariant, PTL

(* mbuf_enqueue finds a cell whenever it is called: mqueue never holds more
   than the contexts or a batch, and mcell_mempool has as many cells.         *)
THEOREM McellsSuffice == Spec => []McellAvailable
<1>1. IInv => McellAvailable
  <2> SUFFICES ASSUME IInv PROVE McellAvailable
    OBVIOUS
  <2>1. /\ MostContexts \in Nat /\ MostContexts <= StackCapacity
    BY Zenon, LiveBound DEF IInv, DataInv
  <2>2. /\ Len(mqueue) \in Nat /\ mcell_mempool \in Int
        /\ McellCapacity - mcell_mempool = Len(mqueue)
        /\ Len(mqueue) <= MostContexts \/ Len(mqueue) <= Batch
    BY DEF IInv, DataInv, MqueueInv
  <2> QED
    BY <2>1, <2>2, DispatchAssumption, PoolAssumption DEF McellAvailable
<1> QED
  BY <1>1, InductiveInvariant, PTL

-----------------------------------------------------------------------------
(* Where the task of worker w is.                                             *)
WorkerPlace(w) ==
  IF disp_pc = "fill" /\ disp_w = w THEN <<"dispatcher", 0, 0>>
  ELSE IF response_flag[w] = "RUNNING" THEN <<"request", w, 0>>
  ELSE <<"response", w, 0>>

(* A task is in a queue or with a worker, and nowhere else.                   *)
LEMMA PlacesOfTasks ==
  ASSUME HandshakeInv
  PROVE  \A pl : pl \in TaskPlaces <=>
           \/ \E t \in Types : \E j \in DOMAIN tskq[t] : pl = <<"tskq", t, j>>
           \/ \E w \in Workers : HasTask(w) /\ pl = WorkerPlace(w)
<1>1. disp_w \in Workers /\ response_flag \in [Workers -> ResponseFlag]
  BY Zenon DEF HandshakeInv
<1>2. \A w \in Workers :
        /\ Executing(w) <=> /\ HasTask(w) /\ response_flag[w] = "RUNNING"
                            /\ ~(disp_pc = "fill" /\ disp_w = w)
        /\ Reported(w) <=> HasTask(w) /\ response_flag[w] # "RUNNING"
        /\ disp_pc = "fill" /\ disp_w = w => HasTask(w) /\ response_flag[w] = "RUNNING"
  BY ZenonT(30), <1>1 DEF Executing, Reported, HasTask, HandshakeInv, ResponseFlag
<1>3. ASSUME NEW pl, NEW w \in Workers, HasTask(w), pl = WorkerPlace(w)
      PROVE  \/ Executing(w) /\ pl = <<"request", w, 0>>
             \/ Reported(w) /\ pl = <<"response", w, 0>>
             \/ disp_pc = "fill" /\ pl = <<"dispatcher", 0, 0>>
  BY ZenonT(30), <1>2, <1>3 DEF WorkerPlace
<1>4. ASSUME NEW w \in Workers
      PROVE  /\ Executing(w) => HasTask(w) /\ <<"request", w, 0>> = WorkerPlace(w)
             /\ Reported(w) => HasTask(w) /\ <<"response", w, 0>> = WorkerPlace(w)
  BY Zenon, <1>2 DEF WorkerPlace
<1>5. disp_pc = "fill" => HasTask(disp_w) /\ <<"dispatcher", 0, 0>> = WorkerPlace(disp_w)
  BY Zenon, <1>1, <1>2 DEF WorkerPlace
<1>6. \A pl : pl \in TaskPlaces <=>
        \/ \E t \in Types : \E j \in DOMAIN tskq[t] : pl = <<"tskq", t, j>>
        \/ \E w \in Workers : Executing(w) /\ pl = <<"request", w, 0>>
        \/ \E w \in Workers : Reported(w) /\ pl = <<"response", w, 0>>
        \/ disp_pc = "fill" /\ pl = <<"dispatcher", 0, 0>>
  <2> DEFINE A == UNION {{<<"tskq", t, j>> : j \in DOMAIN tskq[t]} : t \in Types}
             B == {<<"request", w, 0>> : w \in {v \in Workers : Executing(v)}}
             C == {<<"response", w, 0>> : w \in {v \in Workers : Reported(v)}}
             D == IF disp_pc = "fill" THEN {<<"dispatcher", 0, 0>>} ELSE {}
  <2> TAKE pl
  <2>1. ASSUME pl \in A
        PROVE  \E t \in Types : \E j \in DOMAIN tskq[t] : pl = <<"tskq", t, j>>
    <3>1. PICK t \in Types : pl \in {<<"tskq", t, j>> : j \in DOMAIN tskq[t]}
      BY Zenon, <2>1
    <3> QED
      BY Zenon, <3>1
  <2>2. ASSUME NEW t \in Types, NEW j \in DOMAIN tskq[t], pl = <<"tskq", t, j>>
        PROVE  pl \in A
    <3>1. pl \in {<<"tskq", t, i>> : i \in DOMAIN tskq[t]}
      BY Zenon, <2>2
    <3> QED
      BY Zenon, <3>1
  <2>3. pl \in B <=> \E w \in Workers : Executing(w) /\ pl = <<"request", w, 0>>
    BY Zenon
  <2>4. pl \in C <=> \E w \in Workers : Reported(w) /\ pl = <<"response", w, 0>>
    BY Zenon
  <2>5. pl \in D <=> disp_pc = "fill" /\ pl = <<"dispatcher", 0, 0>>
    BY Zenon
  <2>6. TaskPlaces = A \cup B \cup C \cup D
    BY Zenon DEF TaskPlaces
  <2> HIDE DEF A, B, C, D
  <2>7. pl \in TaskPlaces <=> pl \in A \/ pl \in B \/ pl \in C \/ pl \in D
    BY Zenon, <2>6
  <2> QED
    BY ZenonT(30), <2>1, <2>2, <2>3, <2>4, <2>5, <2>7
<1> HIDE DEF WorkerPlace
<1> QED
  BY <1>1, <1>3, <1>4, <1>5, <1>6

(* What is in those places.                                                   *)
LEMMA TasksAtPlaces ==
  /\ \A t \in Types : \A j \in DOMAIN tskq[t] : TaskAt(<<"tskq", t, j>>) = tskq[t][j]
  /\ \A w \in Workers : TaskAt(WorkerPlace(w)) = TaskOf(w)
<1>1. \A t \in Types : \A j \in DOMAIN tskq[t] : TaskAt(<<"tskq", t, j>>) = tskq[t][j]
  BY Zenon DEF TaskAt
<1>2. \A w \in Workers : TaskAt(WorkerPlace(w)) = TaskOf(w)
  BY Zenon DEF TaskAt, WorkerPlace, TaskOf
<1> QED
  BY Zenon, <1>1, <1>2

(* Every context is free or belongs to exactly one request: handle_finished,
   handle_preempted, dispatch_request and handle_networker lose none and give
   none to two workers.                                                       *)
THEOREM ContextsOwned == Spec => []ContextOwnership
<1>1. IInv => ContextOwnership
  <2> SUFFICES ASSUME IInv PROVE ContextOwnership
    OBVIOUS
  <2>1. ContextInv /\ HandshakeInv /\ tskq \in [Types -> Seq(OwnedTask)]
    BY Zenon DEF IInv, TasksInv
  <2>2. \A t \in Types : DOMAIN tskq[t] = 1 .. Len(tskq[t])
    BY <2>1
  <2>3. /\ \A t \in Types : \A j \in DOMAIN tskq[t] :
             <<"tskq", t, j>> \in TaskPlaces /\ TaskAt(<<"tskq", t, j>>) = tskq[t][j]
        /\ \A w \in Workers : HasTask(w) =>
             WorkerPlace(w) \in TaskPlaces /\ TaskAt(WorkerPlace(w)) = TaskOf(w)
        /\ \A pl \in TaskPlaces :
             \/ \E t \in Types : \E j \in DOMAIN tskq[t] : pl = <<"tskq", t, j>>
             \/ \E w \in Workers : HasTask(w) /\ pl = WorkerPlace(w)
    BY Zenon, <2>1, PlacesOfTasks, TasksAtPlaces
  <2>4. ASSUME NEW pl \in TaskPlaces PROVE TaskAt(pl).rnbl \in Ctx \ context_pool
    BY <2>1, <2>2, <2>3 DEF ContextInv, QueuedLive, GivenLive
  <2>5. ASSUME NEW pl \in TaskPlaces, NEW q \in TaskPlaces,
               TaskAt(q).rnbl = TaskAt(pl).rnbl
        PROVE  q = pl
    <3>1. CASE \E t \in Types : \E j \in DOMAIN tskq[t] : pl = <<"tskq", t, j>>
      <4>t. PICK t \in Types : \E j \in DOMAIN tskq[t] : pl = <<"tskq", t, j>>
        BY Zenon, <3>1
      <4>1. PICK j \in DOMAIN tskq[t] : pl = <<"tskq", t, j>>
        BY Zenon, <4>t
      <4>2. CASE \E u \in Types : \E k \in DOMAIN tskq[u] : q = <<"tskq", u, k>>
        <5>u. PICK u \in Types : \E k \in DOMAIN tskq[u] : q = <<"tskq", u, k>>
          BY Zenon, <4>2
        <5>1. PICK k \in DOMAIN tskq[u] : q = <<"tskq", u, k>>
          BY Zenon, <5>u
        <5>2. tskq[u][k].rnbl = tskq[t][j].rnbl
          BY ZenonT(30), <2>3, <2>5, <4>1, <5>1
        <5>3. u = t /\ k = j
          BY <2>1, <2>2, <5>2 DEF ContextInv, QueuedOnce
        <5> QED
          BY Zenon, <4>1, <5>1, <5>3
      <4>3. CASE \E w \in Workers : HasTask(w) /\ q = WorkerPlace(w)
        BY <2>1, <2>2, <2>3, <2>5, <4>1, <4>3 DEF ContextInv, GivenNotQueued
      <4> QED
        BY Zenon, <2>3, <4>2, <4>3
    <3>2. CASE \E w \in Workers : HasTask(w) /\ pl = WorkerPlace(w)
      <4>1. PICK w \in Workers : HasTask(w) /\ pl = WorkerPlace(w)
        BY Zenon, <3>2
      <4>2. CASE \E u \in Types : \E k \in DOMAIN tskq[u] : q = <<"tskq", u, k>>
        BY <2>1, <2>2, <2>3, <2>5, <4>1, <4>2 DEF ContextInv, GivenNotQueued
      <4>3. CASE \E v \in Workers : HasTask(v) /\ q = WorkerPlace(v)
        BY Zenon, <2>1, <2>3, <2>5, <4>1, <4>3 DEF ContextInv, GivenOnce
      <4> QED
        BY ZenonT(30), <2>3, <4>2, <4>3
    <3> QED
      BY Zenon, <2>3, <3>1, <3>2
  <2>6. ASSUME NEW c \in Ctx \ context_pool
        PROVE  \E pl \in TaskPlaces : TaskAt(pl).rnbl = c
    <3>1. CASE \E t \in Types : \E j \in 1 .. Len(tskq[t]) : tskq[t][j].rnbl = c
      BY Zenon, <2>2, <2>3, <3>1
    <3>2. CASE \E w \in Workers : HasTask(w) /\ TaskOf(w).rnbl = c
      BY Zenon, <2>3, <3>2
    <3> QED
      BY Zenon, <2>1, <3>1, <3>2 DEF ContextInv, LiveHeld
  <2> QED
    BY Zenon, <2>4, <2>5, <2>6 DEF ContextOwnership
<1> QED
  BY <1>1, InductiveInvariant, PTL

=============================================================================
