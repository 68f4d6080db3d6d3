---------------------------- MODULE BufferProofs -----------------------------
(***************************************************************************)
(* Packet buffers: every buffer has one holder at any time.  A step moves   *)
(* one buffer from a holder to another, or a batch from the networker to    *)
(* networker_pointers, or none.                                             *)
(***************************************************************************)
EXTENDS ShinjukuTheorems

USE DEF poolVars, requestVars, responseVars, pointerVars, frameVars, dispVars,
        workVars, netVars, dispatcherOnly, notNetworker

-----------------------------------------------------------------------------
(* What a step may do to holder k: nothing, take buffer p, or give it up.     *)
Same(k) == HeldBy(k)' = HeldBy(k) /\ (HeldOnce(k) => HeldOnce(k)')

Gains(k, p) ==
  /\ HeldBy(k)' = HeldBy(k) \cup {p}
  /\ HeldOnce(k) /\ p \notin HeldBy(k) => HeldOnce(k)'

Loses(k, p) ==
  /\ p \in HeldBy(k)
  /\ HeldOnce(k) => HeldBy(k)' = HeldBy(k) \ {p} /\ HeldOnce(k)'

(* A step that moves no buffer.                                               *)
LEMMA BufferStable ==
  ASSUME BufferInv, \A k \in Holders : Same(k)
  PROVE  BufferInv'
<1>1. \A k \in Holders : HeldOnce(k)'
  BY Zenon DEF BufferInv, Same
<1>2. \A p \in Mbuf : \E k \in Holders : \A l \in Holders : p \in HeldBy(l)' <=> l = k
  BY Zenon DEF BufferInv, Same
<1> QED
  BY Zenon, <1>1, <1>2 DEF BufferInv

(* A step in which one holder passes a buffer to another.                     *)
LEMMA BufferMoved ==
  ASSUME BufferInv, NEW from \in Holders, NEW to \in Holders, from # to,
         NEW p \in Mbuf, Loses(from, p), Gains(to, p),
         \A k \in Holders : k # from /\ k # to => Same(k)
  PROVE  BufferInv'
<1>1. p \notin HeldBy(to) /\ p \in HeldBy(from)
  BY Zenon DEF BufferInv, Loses
<1>2. /\ HeldBy(from)' = HeldBy(from) \ {p} /\ HeldOnce(from)'
      /\ HeldBy(to)' = HeldBy(to) \cup {p} /\ HeldOnce(to)'
  BY Zenon, <1>1 DEF BufferInv, Loses, Gains
<1>3. \A k \in Holders : HeldOnce(k)'
  BY Zenon, <1>2 DEF BufferInv, Same
<1>4. ASSUME NEW q \in Mbuf
      PROVE  \E k \in Holders : \A l \in Holders : q \in HeldBy(l)' <=> l = k
  <2>1. PICK k \in Holders : \A l \in Holders : q \in HeldBy(l) <=> l = k
    BY Zenon DEF BufferInv
  <2>2. \A l \in Holders : l # from /\ l # to => HeldBy(l)' = HeldBy(l)
    BY Zenon DEF Same
  <2>3. CASE q = p
    <3>1. k = from
      BY Zenon, <2>1, <2>3, <1>1
    <3>2. \A l \in Holders : q \in HeldBy(l)' <=> l = to
      BY Zenon, <2>1, <2>2, <2>3, <3>1, <1>2
    <3> QED
      BY Zenon, <3>2
  <2>4. CASE q # p
    <3>1. \A l \in Holders : q \in HeldBy(l)' <=> l = k
      BY Zenon, <2>1, <2>2, <2>4, <1>2
    <3> QED
      BY Zenon, <3>1
  <2> QED
    BY Zenon, <2>3, <2>4
<1> QED
  BY Zenon, <1>3, <1>4 DEF BufferInv

-----------------------------------------------------------------------------
(* What leaves a holder alone.                                                *)
LEMMA SamePool == ASSUME UNCHANGED mbuf_pool PROVE Same("pool")
BY Zenon DEF Same, HeldBy, HeldOnce

(* The frames the networker has accepted.                                     *)
LEMMA SameRecv == ASSUME UNCHANGED net_recv PROVE Same("recv")
BY Zenon DEF Same, HeldBy, HeldOnce

(* The task queues.                                                           *)
LEMMA SameQueued == ASSUME UNCHANGED tskq PROVE Same("queued")
<1>1. HeldBy("queued")' = HeldBy("queued")
  BY Zenon DEF HeldBy
<1>2. HeldOnce("queued") => HeldOnce("queued")'
  BY DEF HeldOnce
<1> QED
  BY Zenon, <1>1, <1>2 DEF Same

(* mqueue.                                                                    *)
LEMMA SameMqueue == ASSUME UNCHANGED mqueue PROVE Same("mqueue")
BY Zenon DEF Same, HeldBy, HeldOnce

(* The workers.                                                               *)
LEMMA SameGiven == ASSUME \A w \in Workers : SameTask(w) PROVE Same("given")
<1>1. \A w \in Workers : HasTask(w)' <=> HasTask(w)
  BY Zenon DEF SameTask
<1>2. \A w \in Workers : HasTask(w) => TaskOf(w)'.mbuf = TaskOf(w).mbuf
  BY Zenon DEF SameTask
<1> QED
  BY Zenon, <1>1, <1>2 DEF Same, HeldBy, HeldOnce

(* The packets of a batch that are still to be queued.                        *)
LEMMA SameBatch ==
  ASSUME \A i \in Slots : (Unqueued(i)' <=> Unqueued(i)) /\ (Unqueued(i) => pkts'[i] = pkts[i])
  PROVE  Same("batch")
BY Zenon DEF Same, HeldBy, HeldOnce

(* The buffers handed back that are still to be freed.                        *)
LEMMA SameBack ==
  ASSUME \A i \in Slots : (GivenBack(i)' <=> GivenBack(i)) /\ (GivenBack(i) => pkts'[i] = pkts[i])
  PROVE  Same("back")
BY Zenon DEF Same, HeldBy, HeldOnce

-----------------------------------------------------------------------------
(* What each kind of step does to the holder it takes from or gives to.       *)
(* recv_frame: buffer p leaves the free list.                                 *)
LEMMA PoolLoses ==
  ASSUME mbuf_pool \in [Mbuf -> Nat], NEW p \in Mbuf, mbuf_pool[p] > 0,
         mbuf_pool' = [mbuf_pool EXCEPT ![p] = @ - 1]
  PROVE  Loses("pool", p)
<1>1. HeldBy("pool") = {q \in Mbuf : mbuf_pool[q] # 0}
  BY Zenon DEF HeldBy
<1>2. HeldBy("pool")' = {q \in Mbuf : mbuf_pool'[q] # 0}
  BY Zenon DEF HeldBy
<1>3. HeldOnce("pool") <=> \A q \in Mbuf : mbuf_pool[q] \in {0, 1}
  BY Zenon DEF HeldOnce
<1>4. HeldOnce("pool")' <=> \A q \in Mbuf : mbuf_pool'[q] \in {0, 1}
  BY Zenon DEF HeldOnce
<1> QED
  BY SMTT(30), <1>1, <1>2, <1>3, <1>4 DEF Loses

(* mbuf_free: buffer p joins the free list.                                   *)
LEMMA PoolGains ==
  ASSUME mbuf_pool \in [Mbuf -> Nat], NEW p \in Mbuf,
         mbuf_pool' = [mbuf_pool EXCEPT ![p] = @ + 1]
  PROVE  Gains("pool", p)
<1>1. HeldBy("pool") = {q \in Mbuf : mbuf_pool[q] # 0}
  BY Zenon DEF HeldBy
<1>2. HeldBy("pool")' = {q \in Mbuf : mbuf_pool'[q] # 0}
  BY Zenon DEF HeldBy
<1>3. HeldOnce("pool") <=> \A q \in Mbuf : mbuf_pool[q] \in {0, 1}
  BY Zenon DEF HeldOnce
<1>4. HeldOnce("pool")' <=> \A q \in Mbuf : mbuf_pool'[q] \in {0, 1}
  BY Zenon DEF HeldOnce
<1> QED
  BY SMTT(30), <1>1, <1>2, <1>3, <1>4 DEF Gains

(* recv_frame: buffer p is the last of the accepted frames.                   *)
LEMMA RecvGains ==
  ASSUME net_recv \in Seq([mbuf : Mbuf, type : Types]), NEW p \in Mbuf, NEW t \in Types,
         net_recv' = Append(net_recv, [mbuf |-> p, type |-> t])
  PROVE  Gains("recv", p)
<1>1. /\ Len(net_recv) \in Nat /\ Len(net_recv') = Len(net_recv) + 1
      /\ \A j \in 1 .. Len(net_recv) : net_recv'[j] = net_recv[j]
      /\ net_recv'[Len(net_recv) + 1].mbuf = p
  OBVIOUS
<1>2. HeldBy("recv") = {q \in Mbuf : \E j \in 1 .. Len(net_recv) : net_recv[j].mbuf = q}
  BY Zenon DEF HeldBy
<1>3. HeldBy("recv")' = {q \in Mbuf : \E j \in 1 .. Len(net_recv') : net_recv'[j].mbuf = q}
  BY Zenon DEF HeldBy
<1>4. HeldOnce("recv") <=> \A i, j \in 1 .. Len(net_recv) :
                             net_recv[i].mbuf = net_recv[j].mbuf => i = j
  BY Zenon DEF HeldOnce
<1>5. HeldOnce("recv")' <=> \A i, j \in 1 .. Len(net_recv') :
                              net_recv'[i].mbuf = net_recv'[j].mbuf => i = j
  BY Zenon DEF HeldOnce
<1>6. HeldBy("recv")' = HeldBy("recv") \cup {p}
  BY SMTT(30), <1>1, <1>2, <1>3
<1>7. HeldOnce("recv") /\ p \notin HeldBy("recv") => HeldOnce("recv")'
  BY SMTT(30), <1>1, <1>2, <1>4, <1>5
<1> QED
  BY Zenon, <1>6, <1>7 DEF Gains

(* tskq_enqueue_tail, with a free task cell: the task's buffer is queued.     *)
LEMMA QueuedGains ==
  ASSUME tskq \in [Types -> Seq(OwnedTask)], task_mempool # 0,
         NEW task \in OwnedTask, task.type \in Types, tskq_enqueue_tail(task)
  PROVE  Gains("queued", task.mbuf)
<1> DEFINE p == task.mbuf
<1>p. p \in Mbuf
  BY Zenon DEF OwnedTask
<1>1. /\ \A u \in Types : \A j \in 1 .. Len(tskq[u]) :
           j \in 1 .. Len(tskq'[u]) /\ tskq'[u][j] = tskq[u][j]
      /\ /\ Len(tskq[task.type]) + 1 \in 1 .. Len(tskq'[task.type])
         /\ tskq'[task.type][Len(tskq[task.type]) + 1] = task
      /\ \A u \in Types : \A j \in 1 .. Len(tskq'[u]) :
           \/ j \in 1 .. Len(tskq[u])
           \/ u = task.type /\ j = Len(tskq[u]) + 1
  BY Zenon, EnqueueTailAt
<1>2. HeldBy("queued") = {q \in Mbuf : \E t \in Types :
                            \E j \in 1 .. Len(tskq[t]) : tskq[t][j].mbuf = q}
  BY Zenon DEF HeldBy
<1>3. HeldBy("queued")' = {q \in Mbuf : \E t \in Types :
                             \E j \in 1 .. Len(tskq'[t]) : tskq'[t][j].mbuf = q}
  BY Zenon DEF HeldBy
<1>4. HeldOnce("queued") => \A t, u \in Types :
        \A i \in 1 .. Len(tskq[t]), j \in 1 .. Len(tskq[u]) :
          tskq[t][i].mbuf = tskq[u][j].mbuf => t = u /\ i = j
  BY Zenon DEF HeldOnce
<1>5. (\A t, u \in Types :
        \A i \in 1 .. Len(tskq'[t]), j \in 1 .. Len(tskq'[u]) :
          tskq'[t][i].mbuf = tskq'[u][j].mbuf => t = u /\ i = j) => HeldOnce("queued")'
  BY Zenon DEF HeldOnce
<1>6. HeldBy("queued")' = HeldBy("queued") \cup {p}
  <2>1. ASSUME NEW q \in HeldBy("queued")' PROVE q \in HeldBy("queued") \cup {p}
    <3>1. PICK t \in Types : \E j \in 1 .. Len(tskq'[t]) : tskq'[t][j].mbuf = q
      BY ZenonT(60), <2>1, <1>3
    <3>2. PICK j \in 1 .. Len(tskq'[t]) : tskq'[t][j].mbuf = q
      BY Zenon, <3>1
    <3>3. q \in Mbuf
      BY ZenonT(60), <2>1, <1>3
    <3>4. q = p \/ \E k \in 1 .. Len(tskq[t]) : tskq[t][k].mbuf = q
      BY Zenon, <3>2, <1>1
    <3> QED
      BY Zenon, <3>3, <3>4, <1>2
  <2>2. ASSUME NEW q \in HeldBy("queued") PROVE q \in HeldBy("queued")'
    BY ZenonT(30), <2>2, <1>1, <1>2, <1>3
  <2>3. p \in HeldBy("queued")'
    BY ZenonT(60), <1>p, <1>1, <1>3
  <2> HIDE DEF p
  <2> QED
    BY ZenonT(30), <2>1, <2>2, <2>3
<1>7. ASSUME HeldOnce("queued"), p \notin HeldBy("queued")
      PROVE  HeldOnce("queued")'
  <2>n. \A t \in Types : \A j \in 1 .. Len(tskq[t]) : tskq[t][j].mbuf # p
    BY ZenonT(60), <1>7, <1>2, <1>p
  <2> SUFFICES ASSUME NEW t \in Types, NEW u \in Types,
                      NEW i \in 1 .. Len(tskq'[t]), NEW j \in 1 .. Len(tskq'[u]),
                      tskq'[t][i].mbuf = tskq'[u][j].mbuf
               PROVE  t = u /\ i = j
    BY Zenon, <1>5
  <2>1. CASE i \in 1 .. Len(tskq[t]) /\ j \in 1 .. Len(tskq[u])
    <3>1. tskq[t][i].mbuf = tskq[u][j].mbuf
      BY Zenon, <2>1, <1>1
    <3>2. \A v, w \in Types : \A m \in 1 .. Len(tskq[v]), n \in 1 .. Len(tskq[w]) :
            tskq[v][m].mbuf = tskq[w][n].mbuf => v = w /\ m = n
      BY Zenon, <1>4, <1>7
    <3> QED
      BY SMTT(30), <2>1, <3>1, <3>2
  <2>2. CASE i \in 1 .. Len(tskq[t]) /\ j \notin 1 .. Len(tskq[u])
    <3>1. tskq'[u][j] = task /\ tskq'[t][i] = tskq[t][i]
      BY ZenonT(30), <2>2, <1>1
    <3> QED
      BY ZenonT(60), <3>1, <2>2, <2>n
  <2>3. CASE i \notin 1 .. Len(tskq[t]) /\ j \in 1 .. Len(tskq[u])
    <3>1. tskq'[t][i] = task /\ tskq'[u][j] = tskq[u][j]
      BY ZenonT(30), <2>3, <1>1
    <3> QED
      BY ZenonT(60), <3>1, <2>3, <2>n
  <2>4. CASE i \notin 1 .. Len(tskq[t]) /\ j \notin 1 .. Len(tskq[u])
    BY SMTT(30), <2>4, <1>1
  <2> QED
    BY Zenon, <2>1, <2>2, <2>3, <2>4
<1> QED
  BY Zenon, <1>6, <1>7 DEF Gains

(* dispatch_take: the buffer of the task at the head of queue t is no longer
   queued.                                                                    *)
LEMMA QueuedLoses ==
  ASSUME tskq \in [Types -> Seq(OwnedTask)], NEW t \in NonEmptyQueues, tskq_dequeue(t)
  PROVE  Loses("queued", Head(tskq[t]).mbuf)
<1> DEFINE p == Head(tskq[t]).mbuf
<1>1. /\ 1 \in 1 .. Len(tskq[t]) /\ Head(tskq[t]) = tskq[t][1]
      /\ \A u \in Types : u # t => tskq'[u] = tskq[u]
      /\ \A j \in 1 .. Len(tskq'[t]) :
           j + 1 \in 1 .. Len(tskq[t]) /\ tskq'[t][j] = tskq[t][j + 1]
      /\ \A j \in 1 .. Len(tskq[t]) : j # 1 =>
           j - 1 \in 1 .. Len(tskq'[t]) /\ tskq'[t][j - 1] = tskq[t][j]
  BY Zenon, DequeueAt
<1>2. t \in Types
  BY Zenon DEF NonEmptyQueues
<1>3. tskq[t][1] \in OwnedTask
  BY Zenon, <1>1, <1>2, ElementType
<1>4. p \in Mbuf /\ p = tskq[t][1].mbuf
  BY Zenon, <1>1, <1>3 DEF OwnedTask
<1>5. \A u \in Types : \A j \in 1 .. Len(tskq'[u]) : \E k \in 1 .. Len(tskq[u]) :
        /\ tskq'[u][j] = tskq[u][k]
        /\ k = IF u = t THEN j + 1 ELSE j
  BY Zenon, <1>1
<1>6. HeldBy("queued") = {q \in Mbuf : \E u \in Types :
                            \E j \in 1 .. Len(tskq[u]) : tskq[u][j].mbuf = q}
  BY Zenon DEF HeldBy
<1>7. HeldBy("queued")' = {q \in Mbuf : \E u \in Types :
                             \E j \in 1 .. Len(tskq'[u]) : tskq'[u][j].mbuf = q}
  BY Zenon DEF HeldBy
<1> HIDE DEF p
<1>8. p \in HeldBy("queued")
  BY ZenonT(60), <1>1, <1>2, <1>4, <1>6
<1>9. ASSUME HeldOnce("queued")
      PROVE  HeldBy("queued")' = HeldBy("queued") \ {p} /\ HeldOnce("queued")'
  <2>1. \A u, v \in Types : \A i \in 1 .. Len(tskq[u]), j \in 1 .. Len(tskq[v]) :
          tskq[u][i].mbuf = tskq[v][j].mbuf => u = v /\ i = j
    BY Zenon, <1>9 DEF HeldOnce
  <2>2. ASSUME NEW q \in HeldBy("queued")' PROVE q \in HeldBy("queued") /\ q # p
    <3>1. PICK u \in Types : \E j \in 1 .. Len(tskq'[u]) : tskq'[u][j].mbuf = q
      BY Zenon, <2>2, <1>7
    <3>2. PICK j \in 1 .. Len(tskq'[u]) : tskq'[u][j].mbuf = q
      BY Zenon, <3>1
    <3>3. PICK k \in 1 .. Len(tskq[u]) : /\ tskq'[u][j] = tskq[u][k]
                                         /\ k = IF u = t THEN j + 1 ELSE j
      BY Zenon, <1>5
    <3>4. ~(u = t /\ k = 1)
      BY <3>3
    <3>5. tskq[u][k].mbuf # p
      BY SMTT(30), <3>4, <2>1, <1>1, <1>2, <1>4
    <3>6. q \in Mbuf
      BY Zenon, <2>2, <1>7
    <3> QED
      BY ZenonT(60), <3>2, <3>3, <3>5, <3>6, <1>6
  <2>3. ASSUME NEW q \in HeldBy("queued"), q # p PROVE q \in HeldBy("queued")'
    <3>1. PICK u \in Types : \E j \in 1 .. Len(tskq[u]) : tskq[u][j].mbuf = q
      BY Zenon, <2>3, <1>6
    <3>2. PICK j \in 1 .. Len(tskq[u]) : tskq[u][j].mbuf = q
      BY Zenon, <3>1
    <3>3. CASE u # t
      BY ZenonT(60), <3>2, <3>3, <2>3, <1>1, <1>6, <1>7
    <3>4. CASE u = t
      <4>1. j # 1
        BY Zenon, <3>2, <3>4, <2>3, <1>4
      <4> QED
        BY ZenonT(60), <4>1, <3>2, <3>4, <2>3, <1>1, <1>2, <1>6, <1>7
    <3> QED
      BY Zenon, <3>3, <3>4
  <2>4. \A u, v \in Types : \A i \in 1 .. Len(tskq'[u]), j \in 1 .. Len(tskq'[v]) :
          tskq'[u][i].mbuf = tskq'[v][j].mbuf => u = v /\ i = j
    <3> SUFFICES ASSUME NEW u \in Types, NEW v \in Types,
                        NEW j \in 1 .. Len(tskq'[u]), NEW k \in 1 .. Len(tskq'[v]),
                        tskq'[u][j].mbuf = tskq'[v][k].mbuf
                 PROVE  u = v /\ j = k
      OBVIOUS
    <3>1. PICK jj \in 1 .. Len(tskq[u]) : /\ tskq'[u][j] = tskq[u][jj]
                                          /\ jj = IF u = t THEN j + 1 ELSE j
      BY Zenon, <1>5
    <3>2. PICK kk \in 1 .. Len(tskq[v]) : /\ tskq'[v][k] = tskq[v][kk]
                                          /\ kk = IF v = t THEN k + 1 ELSE k
      BY Zenon, <1>5
    <3>3. u = v /\ jj = kk
      BY SMTT(30), <3>1, <3>2, <2>1
    <3> QED
      BY SMTT(30), <3>1, <3>2, <3>3
  <2>5. HeldOnce("queued")'
    BY Zenon, <2>4 DEF HeldOnce
  <2> QED
    BY Zenon, <2>2, <2>3, <2>5
<1> QED
  BY Zenon, <1>8, <1>9 DEF Loses, p

(* handle_finished and handle_preempted: worker i gives its buffer up.        *)
LEMMA GivenLoses ==
  ASSUME NEW i \in Workers, HasTask(i), TaskOf(i).mbuf \in Mbuf, ~HasTask(i)',
         \A w \in Workers : w # i => SameTask(w)
  PROVE  Loses("given", TaskOf(i).mbuf)
<1>1. HeldBy("given") = {q \in Mbuf : \E w \in Workers : HasTask(w) /\ TaskOf(w).mbuf = q}
  BY Zenon DEF HeldBy
<1>2. HeldBy("given")' = {q \in Mbuf : \E w \in Workers : HasTask(w)' /\ TaskOf(w)'.mbuf = q}
  BY Zenon DEF HeldBy
<1>3. \A w \in Workers : w # i =>
        (HasTask(w)' <=> HasTask(w)) /\ (HasTask(w) => TaskOf(w)'.mbuf = TaskOf(w).mbuf)
  BY Zenon DEF SameTask
<1>4. TaskOf(i).mbuf \in HeldBy("given")
  BY Zenon, <1>1
<1>5. ASSUME HeldOnce("given")
      PROVE  HeldBy("given")' = HeldBy("given") \ {TaskOf(i).mbuf} /\ HeldOnce("given")'
  <2>1. \A v, w \in Workers :
          HasTask(v) /\ HasTask(w) /\ TaskOf(v).mbuf = TaskOf(w).mbuf => v = w
    BY Zenon, <1>5 DEF HeldOnce
  <2>2. \A v, w \in Workers :
          HasTask(v)' /\ HasTask(w)' /\ TaskOf(v)'.mbuf = TaskOf(w)'.mbuf => v = w
    BY Zenon, <2>1, <1>3
  <2>3. HeldOnce("given")'
    BY Zenon, <2>2 DEF HeldOnce
  <2>4. \A q \in Mbuf : q \in HeldBy("given")' <=> q \in HeldBy("given") /\ q # TaskOf(i).mbuf
    BY ZenonT(30), <2>1, <1>1, <1>2, <1>3
  <2> QED
    BY Zenon, <2>3, <2>4, <1>1, <1>2
<1> QED
  BY Zenon, <1>4, <1>5 DEF Loses

(* dispatch_take: worker i holds the buffer of the task taken for it.         *)
LEMMA GivenGains ==
  ASSUME NEW i \in Workers, ~HasTask(i), HasTask(i)', NEW p \in Mbuf,
         TaskOf(i)'.mbuf = p, \A w \in Workers : w # i => SameTask(w)
  PROVE  Gains("given", p)
<1>1. HeldBy("given") = {q \in Mbuf : \E w \in Workers : HasTask(w) /\ TaskOf(w).mbuf = q}
  BY Zenon DEF HeldBy
<1>2. HeldBy("given")' = {q \in Mbuf : \E w \in Workers : HasTask(w)' /\ TaskOf(w)'.mbuf = q}
  BY Zenon DEF HeldBy
<1>3. \A w \in Workers : w # i =>
        (HasTask(w)' <=> HasTask(w)) /\ (HasTask(w) => TaskOf(w)'.mbuf = TaskOf(w).mbuf)
  BY Zenon DEF SameTask
<1>4. \A q \in Mbuf : q \in HeldBy("given")' <=> q \in HeldBy("given") \/ q = p
  BY ZenonT(30), <1>1, <1>2, <1>3
<1>5. HeldBy("given")' = HeldBy("given") \cup {p}
  BY ZenonT(30), <1>1, <1>2, <1>4
<1>6. ASSUME HeldOnce("given"), p \notin HeldBy("given") PROVE HeldOnce("given")'
  <2>1. \A v, w \in Workers :
          HasTask(v) /\ HasTask(w) /\ TaskOf(v).mbuf = TaskOf(w).mbuf => v = w
    BY Zenon, <1>6 DEF HeldOnce
  <2>2. \A w \in Workers : HasTask(w) => TaskOf(w).mbuf # p
    BY Zenon, <1>6, <1>1
  <2>3. \A v, w \in Workers :
          HasTask(v)' /\ HasTask(w)' /\ TaskOf(v)'.mbuf = TaskOf(w)'.mbuf => v = w
    BY ZenonT(30), <2>1, <2>2, <1>3
  <2> QED
    BY Zenon, <2>3 DEF HeldOnce
<1> QED
  BY Zenon, <1>5, <1>6 DEF Gains

(* mbuf_enqueue of a buffer that is not NULL: it is the first of mqueue.      *)
LEMMA MqueueGains ==
  ASSUME mqueue \in Seq(Mbuf), NEW p \in Mbuf, mbuf_enqueue(p)
  PROVE  Gains("mqueue", p)
<1>1. mqueue' = <<p>> \o mqueue
  BY Zenon, DispatchAssumption DEF mbuf_enqueue
<1>2. /\ Len(mqueue) \in Nat /\ Len(mqueue') = Len(mqueue) + 1 /\ mqueue'[1] = p
      /\ \A j \in 2 .. Len(mqueue') : mqueue'[j] = mqueue[j - 1]
  BY <1>1
<1>3. \A j \in 1 .. Len(mqueue) : j + 1 \in 1 .. Len(mqueue') /\ mqueue'[j + 1] = mqueue[j]
  BY <1>2
<1>4. \A j \in 1 .. Len(mqueue') : j # 1 =>
        j - 1 \in 1 .. Len(mqueue) /\ mqueue'[j] = mqueue[j - 1]
  BY <1>2
<1>5. HeldBy("mqueue") = {q \in Mbuf : \E j \in 1 .. Len(mqueue) : mqueue[j] = q}
  BY Zenon DEF HeldBy
<1>6. HeldBy("mqueue")' = {q \in Mbuf : \E j \in 1 .. Len(mqueue') : mqueue'[j] = q}
  BY Zenon DEF HeldBy
<1>7. HeldBy("mqueue")' = HeldBy("mqueue") \cup {p}
  <2>1. ASSUME NEW q \in HeldBy("mqueue")' PROVE q \in HeldBy("mqueue") \/ q = p
    <3>1. PICK j \in 1 .. Len(mqueue') : mqueue'[j] = q
      BY Zenon, <2>1, <1>6
    <3>2. q \in Mbuf
      BY Zenon, <2>1, <1>6
    <3> QED
      BY Zenon, <3>1, <3>2, <1>2, <1>4, <1>5
  <2>2. ASSUME NEW q \in HeldBy("mqueue") PROVE q \in HeldBy("mqueue")'
    BY Zenon, <2>2, <1>3, <1>5, <1>6
  <2>3. 1 \in 1 .. Len(mqueue')
    BY <1>2
  <2>4. p \in HeldBy("mqueue")'
    BY Zenon, <2>3, <1>2, <1>6
  <2> QED
    BY Zenon, <2>1, <2>2, <2>4
<1>8. ASSUME HeldOnce("mqueue"), p \notin HeldBy("mqueue") PROVE HeldOnce("mqueue")'
  <2>1. \A i, j \in 1 .. Len(mqueue) : mqueue[i] = mqueue[j] => i = j
    BY Zenon, <1>8 DEF HeldOnce
  <2>2. \A j \in 1 .. Len(mqueue) : mqueue[j] # p
    BY Zenon, <1>8, <1>5
  <2>3. \A i, j \in 1 .. Len(mqueue') : mqueue'[i] = mqueue'[j] => i = j
    <3> SUFFICES ASSUME NEW i \in 1 .. Len(mqueue'), NEW j \in 1 .. Len(mqueue'),
                        mqueue'[i] = mqueue'[j]
                 PROVE  i = j
      OBVIOUS
    <3>1. CASE i = 1 \/ j = 1
      BY ZenonT(60), <3>1, <2>2, <1>2, <1>4
    <3>2. CASE i # 1 /\ j # 1
      <4>1. i - 1 = j - 1
        BY ZenonT(60), <3>2, <2>1, <1>4
      <4> QED
        BY SMTT(30), <4>1
    <3> QED
      BY Zenon, <3>1, <3>2
  <2> QED
    BY Zenon, <2>3 DEF HeldOnce
<1> QED
  BY Zenon, <1>7, <1>8 DEF Gains

(* mbuf_dequeue: the first buffer of mqueue leaves it.                        *)
LEMMA MqueueLoses ==
  ASSUME mqueue \in Seq(Mbuf), mqueue # <<>>, mbuf_dequeue
  PROVE  Loses("mqueue", Head(mqueue))
<1> DEFINE p == Head(mqueue)
<1>1. mqueue' = Tail(mqueue)
  BY Zenon DEF mbuf_dequeue
<1>2. /\ Len(mqueue) \in Nat /\ Len(mqueue) >= 1 /\ mqueue[1] = p /\ p \in Mbuf
      /\ Len(mqueue') = Len(mqueue) - 1
      /\ \A j \in 1 .. Len(mqueue') : mqueue'[j] = mqueue[j + 1]
  BY <1>1
<1> HIDE DEF p
<1>3. \A j \in 1 .. Len(mqueue') : j + 1 \in 1 .. Len(mqueue) /\ mqueue'[j] = mqueue[j + 1]
  BY <1>2
<1>4. \A j \in 1 .. Len(mqueue) : j # 1 =>
        j - 1 \in 1 .. Len(mqueue') /\ mqueue'[j - 1] = mqueue[j]
  <2> SUFFICES ASSUME NEW j \in 1 .. Len(mqueue), j # 1
               PROVE  j - 1 \in 1 .. Len(mqueue') /\ mqueue'[j - 1] = mqueue[j]
    OBVIOUS
  <2>1. j - 1 \in 1 .. Len(mqueue') /\ (j - 1) + 1 = j
    BY <1>2
  <2>2. mqueue'[j - 1] = mqueue[(j - 1) + 1]
    BY Zenon, <1>2, <2>1
  <2> QED
    BY Zenon, <2>1, <2>2
<1>5. HeldBy("mqueue") = {q \in Mbuf : \E j \in 1 .. Len(mqueue) : mqueue[j] = q}
  BY Zenon DEF HeldBy
<1>6. HeldBy("mqueue")' = {q \in Mbuf : \E j \in 1 .. Len(mqueue') : mqueue'[j] = q}
  BY Zenon DEF HeldBy
<1>7. p \in HeldBy("mqueue")
  BY SMTT(30), <1>2, <1>5
<1>8. ASSUME HeldOnce("mqueue")
      PROVE  HeldBy("mqueue")' = HeldBy("mqueue") \ {p} /\ HeldOnce("mqueue")'
  <2>1. \A i, j \in 1 .. Len(mqueue) : mqueue[i] = mqueue[j] => i = j
    BY Zenon, <1>8 DEF HeldOnce
  <2>2. \A i, j \in 1 .. Len(mqueue') : mqueue'[i] = mqueue'[j] => i = j
    BY SMTT(30), <2>1, <1>3
  <2>3. HeldOnce("mqueue")'
    BY Zenon, <2>2 DEF HeldOnce
  <2>4. \A j \in 1 .. Len(mqueue') : mqueue'[j] # p
    BY SMTT(30), <2>1, <1>2, <1>3
  <2>5. ASSUME NEW q \in HeldBy("mqueue"), q # p PROVE q \in HeldBy("mqueue")'
    <3>1. PICK j \in 1 .. Len(mqueue) : mqueue[j] = q /\ j # 1
      BY Zenon, <2>5, <1>2, <1>5
    <3> QED
      BY ZenonT(60), <3>1, <2>5, <1>4, <1>5, <1>6
  <2>6. ASSUME NEW q \in HeldBy("mqueue")' PROVE q \in HeldBy("mqueue") /\ q # p
    BY ZenonT(60), <2>6, <2>4, <1>3, <1>5, <1>6
  <2> QED
    BY Zenon, <2>3, <2>5, <2>6
<1> QED
  BY Zenon, <1>7, <1>8 DEF Loses, p

(* packet_queue and packet_drop: packet i of the batch is dealt with.         *)
LEMMA BatchLoses ==
  ASSUME NEW i \in Slots, Unqueued(i), pkts[i] \in Mbuf, UNCHANGED pkts,
         \A j \in Slots : Unqueued(j)' <=> Unqueued(j) /\ j # i
  PROVE  Loses("batch", pkts[i])
<1> DEFINE p == pkts[i]
<1>1. HeldBy("batch") = {q \in Mbuf : \E j \in Slots : Unqueued(j) /\ pkts[j] = q}
  BY Zenon DEF HeldBy
<1>2. HeldBy("batch")' = {q \in Mbuf : \E j \in Slots : Unqueued(j)' /\ pkts[j] = q}
  BY Zenon DEF HeldBy
<1>3. p \in HeldBy("batch")
  BY Zenon, <1>1
<1>4. ASSUME HeldOnce("batch")
      PROVE  HeldBy("batch")' = HeldBy("batch") \ {p} /\ HeldOnce("batch")'
  <2>1. \A j, k \in Slots : Unqueued(j) /\ Unqueued(k) /\ pkts[j] = pkts[k] => j = k
    BY Zenon, <1>4 DEF HeldOnce
  <2>2. \A j, k \in Slots : Unqueued(j)' /\ Unqueued(k)' /\ pkts'[j] = pkts'[k] => j = k
    BY Zenon, <2>1
  <2>3. HeldOnce("batch")'
    BY ZenonT(60), <2>2 DEF HeldOnce
  <2>4. \A q \in Mbuf : q \in HeldBy("batch")' <=> q \in HeldBy("batch") /\ q # p
    BY ZenonT(30), <2>1, <1>1, <1>2
  <2> QED
    BY ZenonT(30), <2>3, <2>4, <1>1, <1>2
<1> QED
  BY Zenon, <1>3, <1>4 DEF Loses

(* mbuf_free: buffer i of those handed back is freed.                         *)
LEMMA BackLoses ==
  ASSUME NEW i \in Slots, GivenBack(i), pkts[i] \in Mbuf, UNCHANGED pkts,
         \A j \in Slots : GivenBack(j)' <=> GivenBack(j) /\ j # i
  PROVE  Loses("back", pkts[i])
<1> DEFINE p == pkts[i]
<1>1. HeldBy("back") = {q \in Mbuf : \E j \in Slots : GivenBack(j) /\ pkts[j] = q}
  BY Zenon DEF HeldBy
<1>2. HeldBy("back")' = {q \in Mbuf : \E j \in Slots : GivenBack(j)' /\ pkts[j] = q}
  BY Zenon DEF HeldBy
<1>3. p \in HeldBy("back")
  BY ZenonT(60), <1>1
<1>4. ASSUME HeldOnce("back")
      PROVE  HeldBy("back")' = HeldBy("back") \ {p} /\ HeldOnce("back")'
  <2>1. \A j, k \in Slots : GivenBack(j) /\ GivenBack(k) /\ pkts[j] = pkts[k] => j = k
    BY Zenon, <1>4 DEF HeldOnce
  <2>2. \A j, k \in Slots : GivenBack(j)' /\ GivenBack(k)' /\ pkts'[j] = pkts'[k] => j = k
    BY Zenon, <2>1
  <2>3. HeldOnce("back")'
    BY ZenonT(60), <2>2 DEF HeldOnce
  <2>4. \A q \in Mbuf : q \in HeldBy("back")' <=> q \in HeldBy("back") /\ q # p
    BY ZenonT(30), <2>1, <1>1, <1>2
  <2> QED
    BY ZenonT(30), <2>3, <2>4, <1>1, <1>2
<1> QED
  BY Zenon, <1>3, <1>4 DEF Loses

(* give_buffer: buffer p is handed back in slot i.                            *)
LEMMA BackGains ==
  ASSUME NEW i \in Slots, NEW p \in Mbuf, ~GivenBack(i), pkts'[i] = p,
         \A j \in Slots : j # i => pkts'[j] = pkts[j],
         \A j \in Slots : GivenBack(j)' <=> GivenBack(j) \/ j = i
  PROVE  Gains("back", p)
<1>1. HeldBy("back") = {q \in Mbuf : \E j \in Slots : GivenBack(j) /\ pkts[j] = q}
  BY ZenonT(60) DEF HeldBy
<1>2. HeldBy("back")' = {q \in Mbuf : \E j \in Slots : GivenBack(j)' /\ pkts'[j] = q}
  BY Zenon DEF HeldBy
<1>3. \A q \in Mbuf : q \in HeldBy("back")' <=> q \in HeldBy("back") \/ q = p
  BY ZenonT(30), <1>1, <1>2
<1>4. HeldBy("back")' = HeldBy("back") \cup {p}
  BY ZenonT(30), <1>1, <1>2, <1>3
<1>5. ASSUME HeldOnce("back"), p \notin HeldBy("back") PROVE HeldOnce("back")'
  <2>1. \A j, k \in Slots : GivenBack(j) /\ GivenBack(k) /\ pkts[j] = pkts[k] => j = k
    BY Zenon, <1>5 DEF HeldOnce
  <2>2. \A j \in Slots : GivenBack(j) => pkts[j] # p
    BY Zenon, <1>5, <1>1
  <2>3. \A j, k \in Slots : GivenBack(j)' /\ GivenBack(k)' /\ pkts'[j] = pkts'[k] => j = k
    BY ZenonT(30), <2>1, <2>2
  <2> QED
    BY Zenon, <2>3 DEF HeldOnce
<1> QED
  BY ZenonT(60), <1>4, <1>5 DEF Gains

-----------------------------------------------------------------------------
(* The effect of each action on the holders.                                  *)
Still == \A k \in Holders : Same(k)

Moves(p, from, to) ==
  /\ p \in Mbuf /\ from \in Holders /\ to \in Holders /\ from # to
  /\ Loses(from, p) /\ Gains(to, p)
  /\ \A k \in Holders : k # from /\ k # to => Same(k)

(* Neither array of networker_pointers changes hands while its counts, its
   contents and both loop indices stay and the dispatcher is not in its loops. *)
LEMMA SlotsLeft ==
  ASSUME UNCHANGED <<cnt, free_cnt, pkts, net_pc, net_k>>,
         \/ UNCHANGED <<disp_pc, disp_k>>
         \/ disp_pc \notin {"packet", "give"} /\ disp_pc' \notin {"packet", "give"}
  PROVE  Same("batch") /\ Same("back")
<1>1. \A i \in Slots : Unqueued(i)' <=> Unqueued(i)
  BY Zenon DEF Unqueued
<1>2. \A i \in Slots : GivenBack(i)' <=> GivenBack(i)
  BY Zenon DEF GivenBack
<1> QED
  BY ZenonT(60), <1>1, <1>2, SameBatch, SameBack

(* handle_finished: from the worker to mqueue.                                *)
LEMMA FinishedMoves ==
  ASSUME IInv, NEW i \in Workers, i = disp_w, handle_finished,
         UNCHANGED <<frameVars, workVars, netVars>>
  PROVE  Moves(response[i].mbuf, "given", "mqueue")
<1>1. /\ HasTask(i) /\ TaskOf(i) = response[i] /\ ~HasTask(i)'
      /\ \A w \in Workers : w # i => SameTask(w)
  BY Zenon, TaskHandled DEF IInv
<1>2. TaskOf(i).mbuf \in Mbuf
  BY Zenon, <1>1 DEF IInv, TasksInv, OwnedTask
<1>3. Loses("given", TaskOf(i).mbuf)
  BY ZenonT(60), <1>1, <1>2, GivenLoses
<1>4. mbuf_enqueue(TaskOf(i).mbuf) /\ mqueue \in Seq(Mbuf)
  BY Zenon, <1>1 DEF handle_finished, IInv, DataInv
<1>5. Gains("mqueue", TaskOf(i).mbuf)
  BY ZenonT(60), <1>2, <1>4, MqueueGains
<1>6. /\ UNCHANGED <<tskq, net_recv, mbuf_pool, cnt, free_cnt, pkts, net_pc, net_k>>
      /\ disp_pc = "worker" /\ disp_pc' = "dispatch"
  BY Zenon DEF handle_finished
<1>7. Same("pool") /\ Same("recv") /\ Same("queued") /\ Same("batch") /\ Same("back")
  BY ZenonT(30), <1>6, SamePool, SameRecv, SameQueued, SlotsLeft
<1> QED
  BY ZenonT(30), <1>1, <1>2, <1>3, <1>5, <1>7 DEF Moves, Holders

(* handle_preempted: from the worker back to a queue; the task is not dropped,
   since its context is live and not queued.                                  *)
LEMMA PreemptedMoves ==
  ASSUME IInv, NEW i \in Workers, i = disp_w, handle_preempted,
         UNCHANGED <<frameVars, workVars, netVars>>
  PROVE  Moves(response[i].mbuf, "given", "queued")
<1>1. /\ HasTask(i) /\ TaskOf(i) = response[i] /\ ~HasTask(i)'
      /\ \A w \in Workers : w # i => SameTask(w)
  BY Zenon, TaskHandled DEF IInv
<1>2. TaskOf(i) \in OwnedTask /\ TaskOf(i).mbuf \in Mbuf /\ TaskOf(i).type \in Types
  BY Zenon, <1>1 DEF IInv, TasksInv, OwnedTask
<1>3. Loses("given", TaskOf(i).mbuf)
  BY ZenonT(60), <1>1, <1>2, GivenLoses
<1>4. /\ tskq_enqueue_tail(TaskOf(i)) /\ tskq \in [Types -> Seq(OwnedTask)]
      /\ task_mempool \in Nat /\ stack_pool \in Int /\ ContextInv /\ CountInv
  BY Zenon, <1>1 DEF handle_preempted, IInv, DataInv, TasksInv
<1>5. Queued # Live
  BY ZenonT(30), <1>1, <1>4 DEF ContextInv, GivenLive, GivenNotQueued, Queued, Live
<1>6. task_mempool # 0
  BY ZenonT(30), <1>4, <1>5, CellForTask
<1>7. Gains("queued", TaskOf(i).mbuf)
  BY ZenonT(60), <1>2, <1>4, <1>6, QueuedGains
<1>8. /\ UNCHANGED <<mqueue, net_recv, mbuf_pool, cnt, free_cnt, pkts, net_pc, net_k>>
      /\ disp_pc = "worker" /\ disp_pc' = "dispatch"
  BY Zenon DEF handle_preempted
<1>9. Same("pool") /\ Same("recv") /\ Same("mqueue") /\ Same("batch") /\ Same("back")
  BY ZenonT(30), <1>8, SamePool, SameRecv, SameMqueue, SlotsLeft
<1> QED
  BY ZenonT(60), <1>1, <1>2, <1>3, <1>7, <1>9 DEF Moves, Holders

(* dispatch_take: from the head of queue t to worker disp_w.                  *)
LEMMA TakeMoves ==
  ASSUME IInv, NEW t \in Types, dispatch_take(t), UNCHANGED <<frameVars, workVars, netVars>>
  PROVE  Moves(Head(tskq[t]).mbuf, "queued", "given")
<1>i. PICK i \in Workers : i = disp_w
  BY Zenon DEF IInv, HandshakeInv
<1>1. /\ ~HasTask(i) /\ HasTask(i)' /\ TaskOf(i)' = Head(tskq[t])
      /\ \A w \in Workers : w # i => SameTask(w)
  BY ZenonT(30), <1>i, TaskTaken DEF IInv
<1>2. t \in NonEmptyQueues /\ tskq_dequeue(t) /\ tskq \in [Types -> Seq(OwnedTask)]
  BY Zenon DEF dispatch_take, IInv, TasksInv
<1>3. Head(tskq[t]) \in OwnedTask
  BY SMTT(30), <1>2 DEF NonEmptyQueues
<1>4. Head(tskq[t]).mbuf \in Mbuf
  BY Zenon, <1>3 DEF OwnedTask
<1>5. Loses("queued", Head(tskq[t]).mbuf)
  BY Zenon, <1>2, QueuedLoses
<1>6. Gains("given", Head(tskq[t]).mbuf)
  BY ZenonT(60), <1>1, <1>4, GivenGains
<1>7. /\ UNCHANGED <<mqueue, net_recv, mbuf_pool, cnt, free_cnt, pkts, net_pc, net_k>>
      /\ disp_pc = "dispatch" /\ disp_pc' = "fill"
  BY Zenon DEF dispatch_take
<1>8. Same("pool") /\ Same("recv") /\ Same("mqueue") /\ Same("batch") /\ Same("back")
  BY ZenonT(30), <1>7, SamePool, SameRecv, SameMqueue, SlotsLeft
<1> QED
  BY ZenonT(60), <1>4, <1>5, <1>6, <1>8 DEF Moves, Holders

(* handle_networker's first loop goes on to the next packet of the batch.      *)
LEMMA PacketLeaves ==
  ASSUME IInv, NEW i \in Slots, i = disp_k, disp_pc = "packet", disp_k < cnt,
         disp_k' = disp_k + 1,
         UNCHANGED <<cnt, free_cnt, pkts, net_pc, net_k, disp_pc>>
  PROVE  pkts[i] \in Mbuf /\ Loses("batch", pkts[i]) /\ Same("back")
<1>1. Unqueued(i) /\ \A j \in Slots : Unqueued(j)' <=> Unqueued(j) /\ j # i
  BY SMTT(30), DispatchAssumption DEF Unqueued, Slots, IInv, PointersInv
<1>2. pkts[i] \in Mbuf
  BY Zenon DEF IInv, TasksInv
<1>3. \A j \in Slots : GivenBack(j)' <=> GivenBack(j)
  BY Zenon DEF GivenBack
<1>4. Loses("batch", pkts[i])
  BY Zenon, <1>1, <1>2, BatchLoses
<1> QED
  BY ZenonT(60), <1>2, <1>3, <1>4, SameBack

(* packet_queue: from the batch to a queue; there was a stack, so there is a
   task cell.                                                                 *)
LEMMA PacketQueueMoves ==
  ASSUME IInv, NEW c \in Ctx, packet_queue(c), UNCHANGED <<frameVars, workVars, netVars>>
  PROVE  Moves(pkts[disp_k], "batch", "queued")
<1>i. PICK i \in Slots : i = disp_k
  BY SMTT(30), DispatchAssumption DEF packet_queue, IInv, PointersInv, Slots
<1>1. /\ disp_pc = "packet" /\ disp_k < cnt /\ disp_k' = disp_k + 1
      /\ UNCHANGED <<cnt, free_cnt, pkts, net_pc, net_k, disp_pc, disp_w, disp_task,
                     mqueue, net_recv, mbuf_pool, work_pc, response_flag, request, response>>
  BY Zenon DEF packet_queue
<1>2. pkts[i] \in Mbuf /\ Loses("batch", pkts[i]) /\ Same("back")
  BY ZenonT(30), <1>i, <1>1, PacketLeaves
<1> DEFINE task == [rnbl |-> c, mbuf |-> pkts[disp_k],
                    type |-> types[disp_k], category |-> "PACKET"]
<1>3. task \in OwnedTask /\ task.type \in Types /\ task.mbuf = pkts[i]
  BY ZenonT(30), <1>i, <1>2 DEF OwnedTask, IInv, DataInv
<1>4. /\ tskq_enqueue_tail(task) /\ stack_pool > 0 /\ tskq \in [Types -> Seq(OwnedTask)]
      /\ task_mempool \in Nat /\ stack_pool \in Int /\ ContextInv /\ CountInv
  BY Zenon DEF packet_queue, context_alloc, IInv, DataInv, TasksInv
<1> HIDE DEF task
<1>5. task_mempool # 0
  BY Zenon, <1>4, CellForTask
<1>6. Gains("queued", pkts[i])
  BY ZenonT(60), <1>3, <1>4, <1>5, QueuedGains
<1>7. \A w \in Workers : SameTask(w)
  BY Zenon, <1>1, NetworkerLeavesTasks
<1>8. Same("pool") /\ Same("recv") /\ Same("mqueue") /\ Same("given")
  BY ZenonT(30), <1>1, <1>7, SamePool, SameRecv, SameMqueue, SameGiven
<1> QED
  BY ZenonT(60), <1>i, <1>2, <1>6, <1>8 DEF Moves, Holders

(* packet_drop: from the batch to mqueue.                                     *)
LEMMA PacketDropMoves ==
  ASSUME IInv, packet_drop, UNCHANGED <<frameVars, workVars, netVars>>
  PROVE  Moves(pkts[disp_k], "batch", "mqueue")
<1>i. PICK i \in Slots : i = disp_k
  BY SMTT(30), DispatchAssumption DEF packet_drop, IInv, PointersInv, Slots
<1>1. /\ disp_pc = "packet" /\ disp_k < cnt /\ disp_k' = disp_k + 1
      /\ UNCHANGED <<cnt, free_cnt, pkts, net_pc, net_k, disp_pc, disp_w, disp_task,
                     tskq, net_recv, mbuf_pool, work_pc, response_flag, request, response>>
  BY Zenon DEF packet_drop
<1>2. pkts[i] \in Mbuf /\ Loses("batch", pkts[i]) /\ Same("back")
  BY ZenonT(30), <1>i, <1>1, PacketLeaves
<1>3. mbuf_enqueue(pkts[i]) /\ mqueue \in Seq(Mbuf)
  BY Zenon, <1>i DEF packet_drop, IInv, DataInv
<1>4. Gains("mqueue", pkts[i])
  BY ZenonT(60), <1>2, <1>3, MqueueGains
<1>5. \A w \in Workers : SameTask(w)
  BY ZenonT(30), <1>1, NetworkerLeavesTasks
<1>6. Same("pool") /\ Same("recv") /\ Same("queued") /\ Same("given")
  BY ZenonT(30), <1>1, <1>5, SamePool, SameRecv, SameQueued, SameGiven
<1> QED
  BY ZenonT(60), <1>i, <1>2, <1>4, <1>6 DEF Moves, Holders

(* give_buffer: from mqueue to the array the networker frees.                 *)
LEMMA GiveMoves ==
  ASSUME IInv, give_buffer, UNCHANGED <<frameVars, workVars, netVars>>
  PROVE  Moves(Head(mqueue), "mqueue", "back")
<1> DEFINE p == Head(mqueue)
<1>i. PICK i \in Slots : i = disp_k
  BY SMTT(30), DispatchAssumption DEF give_buffer, IInv, PointersInv, Slots
<1>1. /\ disp_pc = "give" /\ mqueue # <<>> /\ mqueue \in Seq(Mbuf) /\ mbuf_dequeue
      /\ pkts' = [pkts EXCEPT ![i] = p] /\ pkts \in [Slots -> Mbuf \cup {NULL}]
      /\ free_cnt' = free_cnt + 1
      /\ UNCHANGED <<cnt, net_pc, net_k, disp_pc, disp_w, disp_task,
                     tskq, net_recv, mbuf_pool, work_pc, response_flag, request, response>>
  BY Zenon, <1>i DEF give_buffer, IInv, DataInv
<1>2. p \in Mbuf /\ Loses("mqueue", p)
  BY SMTT(30), <1>1, MqueueLoses
<1> HIDE DEF p
<1>3. /\ free_cnt = i /\ net_pc # "free"
  BY Zenon, <1>i, <1>1 DEF IInv, PointersInv
<1>4. ~GivenBack(i) /\ \A j \in Slots : GivenBack(j)' <=> GivenBack(j) \/ j = i
  BY SMTT(30), <1>1, <1>3, DispatchAssumption DEF GivenBack, Slots
<1>5. pkts'[i] = p /\ \A j \in Slots : j # i => pkts'[j] = pkts[j]
  BY Zenon, <1>1
<1>6. Gains("back", p)
  BY ZenonT(60), <1>2, <1>4, <1>5, BackGains
<1>7. \A j \in Slots : ~Unqueued(j) /\ ~Unqueued(j)'
  BY Zenon, <1>1 DEF Unqueued
<1>8. Same("batch")
  BY Zenon, <1>7, SameBatch
<1>9. \A w \in Workers : SameTask(w)
  BY ZenonT(30), <1>1, NetworkerLeavesTasks
<1>10. Same("pool") /\ Same("recv") /\ Same("queued") /\ Same("given")
  BY ZenonT(30), <1>1, <1>9, SamePool, SameRecv, SameQueued, SameGiven
<1> QED
  BY ZenonT(60), <1>2, <1>6, <1>8, <1>10 DEF Moves, Holders, p

(* recv_frame: from the free list to the accepted frames.                     *)
LEMMA RecvMoves ==
  ASSUME IInv, NEW p \in Mbuf, NEW t \in Types, recv_frame(p, t),
         UNCHANGED <<dispVars, workVars>>
  PROVE  Moves(p, "pool", "recv")
<1>1. /\ mbuf_pool \in [Mbuf -> Nat] /\ mbuf_pool[p] > 0
      /\ mbuf_pool' = [mbuf_pool EXCEPT ![p] = @ - 1]
      /\ net_recv \in Seq([mbuf : Mbuf, type : Types])
      /\ net_recv' = Append(net_recv, [mbuf |-> p, type |-> t])
  BY Zenon DEF recv_frame, IInv, DataInv, PointersInv
<1>2. Loses("pool", p) /\ Gains("recv", p)
  BY ZenonT(60), <1>1, PoolLoses, RecvGains
<1>3. UNCHANGED <<cnt, free_cnt, pkts, net_pc, net_k, disp_pc, disp_k, disp_w, disp_task,
                  tskq, mqueue, work_pc, response_flag, request, response>>
  BY Zenon DEF recv_frame
<1>4. \A w \in Workers : SameTask(w)
  BY ZenonT(30), <1>3, NetworkerLeavesTasks
<1>5. /\ Same("queued") /\ Same("mqueue") /\ Same("given")
      /\ Same("batch") /\ Same("back")
  BY ZenonT(30), <1>3, <1>4, SameQueued, SameMqueue, SameGiven, SlotsLeft
<1> QED
  BY ZenonT(60), <1>2, <1>5 DEF Moves, Holders

(* mbuf_free: from the array of buffers handed back to the free list.         *)
LEMMA FreeMoves ==
  ASSUME IInv, CopyInv, mbuf_free, UNCHANGED <<dispVars, workVars>>
  PROVE  Moves(pkts[net_k], "back", "pool")
<1>i. PICK i \in Slots : i = net_k
  BY SMTT(30), DispatchAssumption DEF mbuf_free, IInv, PointersInv, Slots
<1>1. /\ mbuf_pool \in [Mbuf -> Nat] /\ mbuf_pool' = [mbuf_pool EXCEPT ![pkts[i]] = @ + 1]
      /\ net_k' = net_k + 1 /\ i < free_cnt /\ net_pc = "free" /\ free_cnt \in Nat
      /\ UNCHANGED <<cnt, free_cnt, pkts, net_pc, disp_pc, disp_k, disp_w, disp_task,
                     tskq, mqueue, net_recv, work_pc, response_flag, request, response>>
  BY SMTT(30), <1>i DEF mbuf_free, IInv, DataInv, PointersInv
<1>2. pkts[i] \in Mbuf
  BY Zenon, <1>1 DEF CopyInv
<1>3. GivenBack(i) /\ \A j \in Slots : GivenBack(j)' <=> GivenBack(j) /\ j # i
  BY SMTT(30), <1>i, <1>1, DispatchAssumption DEF GivenBack, Slots
<1>4. Loses("back", pkts[i]) /\ Gains("pool", pkts[i])
  BY ZenonT(60), <1>1, <1>2, <1>3, BackLoses, PoolGains
<1>5. \A j \in Slots : Unqueued(j)' <=> Unqueued(j)
  BY Zenon, <1>1 DEF Unqueued
<1>6. \A w \in Workers : SameTask(w)
  BY ZenonT(30), <1>1, NetworkerLeavesTasks
<1>7. /\ Same("queued") /\ Same("mqueue") /\ Same("given")
      /\ Same("batch") /\ Same("recv")
  BY ZenonT(60), <1>1, <1>5, <1>6, SameQueued, SameMqueue, SameGiven, SameBatch, SameRecv
<1> QED
  BY ZenonT(60), <1>i, <1>2, <1>4, <1>7 DEF Moves, Holders

(* The dispatcher's other steps move no buffer.                               *)
LEMMA DispatcherStill ==
  ASSUME IInv, UNCHANGED <<frameVars, workVars, netVars>>,
         \/ handle_idle \/ preempt_worker \/ leave_running \/ dispatch_none
         \/ dispatch_fill \/ dispatch_activate \/ networker_check \/ packets_done
         \/ give_done
  PROVE  Still
<1>1. UNCHANGED <<tskq, mqueue, net_recv, mbuf_pool, net_pc, net_k, work_pc, free_cnt, pkts>>
  BY Zenon DEF handle_idle, preempt_worker, leave_running, dispatch_none, dispatch_fill,
         dispatch_activate, networker_check, packets_done, give_done
<1>2. Same("pool") /\ Same("recv") /\ Same("queued") /\ Same("mqueue")
  BY ZenonT(30), <1>1, SamePool, SameRecv, SameQueued, SameMqueue
<1>3. \A i \in Slots : GivenBack(i)' <=> GivenBack(i)
  BY Zenon, <1>1 DEF GivenBack
<1>4. Same("back")
  BY ZenonT(60), <1>1, <1>3, SameBack
<1>5. \A w \in Workers : SameTask(w)
  <2>1. CASE dispatch_fill
    BY ZenonT(30), <2>1, TaskStored DEF IInv
  <2>2. CASE ~dispatch_fill
    <3>1. /\ UNCHANGED <<work_pc, response_flag, request, response>>
          /\ disp_pc # "fill" /\ disp_pc' # "fill"
      BY Zenon, <2>2 DEF handle_idle, preempt_worker, leave_running, dispatch_none, NextWorker,
             dispatch_activate, networker_check, packets_done, give_done
    <3> QED
      BY ZenonT(30), <3>1, TasksLeft
  <2> QED
    BY Zenon, <2>1, <2>2
<1>6. \A i \in Slots : Unqueued(i)' <=> Unqueued(i)
  <2>1. CASE networker_check
    <3>1. /\ disp_pc = "networker" /\ cnt' = cnt /\ disp_k' = disp_k /\ disp_k = 0
          /\ disp_pc' = IF cnt = 0 THEN "worker" ELSE "packet"
      BY Zenon, <2>1 DEF networker_check, IInv, PointersInv
    <3> QED
      BY SMTT(30), <3>1 DEF Unqueued, Slots
  <2>2. CASE packets_done
    <3>1. disp_pc = "packet" /\ disp_k = cnt /\ disp_pc' = "give" /\ cnt \in Nat
      BY SMTT(30), <2>2 DEF packets_done, IInv, PointersInv
    <3> QED
      BY SMTT(30), <3>1 DEF Unqueued, Slots
  <2>3. CASE give_done
    <3>1. disp_pc = "give" /\ cnt' = 0
      BY Zenon, <2>3 DEF give_done
    <3> QED
      BY SMTT(30), <3>1 DEF Unqueued, Slots
  <2>4. CASE ~networker_check /\ ~packets_done /\ ~give_done
    <3>1. /\ disp_pc \notin {"packet", "give"} /\ disp_pc' \notin {"packet", "give"}
          /\ cnt' = cnt
      BY Zenon, <2>4 DEF handle_idle, preempt_worker, leave_running, dispatch_none, NextWorker,
             dispatch_fill, dispatch_activate
    <3> QED
      BY Zenon, <3>1 DEF Unqueued
  <2> QED
    BY ZenonT(30), <2>1, <2>2, <2>3, <2>4
<1>7. Same("batch")
  BY Zenon, <1>1, <1>6, SameBatch
<1>8. Same("given")
  BY Zenon, <1>5, SameGiven
<1> QED
  BY ZenonT(60), <1>2, <1>4, <1>7, <1>8 DEF Still, Holders

(* A worker moves no buffer, whatever it does with its task.                  *)
LEMMA WorkerStill ==
  ASSUME IInv, NEW w \in Workers, WorkerStep(w)
  PROVE  Still
<1>1. UNCHANGED <<tskq, mqueue, net_recv, mbuf_pool, cnt, free_cnt, pkts, net_pc, net_k,
                  disp_pc, disp_k>>
  BY Zenon, WorkerFrame
<1>2. \A v \in Workers : SameTask(v)
  BY Zenon, WorkerKeepsTask DEF IInv
<1>3. /\ Same("pool") /\ Same("recv") /\ Same("queued") /\ Same("mqueue")
      /\ Same("given") /\ Same("batch") /\ Same("back")
  BY ZenonT(30), <1>1, <1>2, SamePool, SameRecv, SameQueued, SameMqueue, SameGiven, SlotsLeft
<1> QED
  BY Zenon, <1>3 DEF Still, Holders

(* The networker's other steps, publish aside, move no buffer.                *)
LEMMA NetworkerStill ==
  ASSUME IInv, UNCHANGED <<dispVars, workVars>>,
         recv_done \/ wait_dispatcher \/ free_done \/ fill_packet
  PROVE  Still
<1>1. UNCHANGED <<tskq, mqueue, net_recv, mbuf_pool, cnt, disp_pc, disp_k, disp_w, disp_task,
                  work_pc, response_flag, request, response>>
  BY Zenon DEF recv_done, wait_dispatcher, free_done, fill_packet
<1>2. \A w \in Workers : SameTask(w)
  BY ZenonT(30), <1>1, NetworkerLeavesTasks
<1>t. /\ Slots \subseteq Nat /\ free_cnt \in Nat /\ net_k \in Nat
      /\ net_pc = "wait" => net_k = 0
      /\ net_pc = "free" => net_k <= free_cnt /\ cnt = 0
      /\ net_pc = "fill" => cnt = 0 /\ free_cnt = 0
  BY DispatchAssumption DEF IInv, PointersInv, Slots
<1>3. \A i \in Slots : (GivenBack(i)' <=> GivenBack(i)) /\ (GivenBack(i) => pkts'[i] = pkts[i])
  <2>1. CASE recv_done
    BY Zenon, <2>1 DEF recv_done, GivenBack
  <2>2. CASE wait_dispatcher
    BY SMTT(30), <1>t, <2>2 DEF wait_dispatcher, GivenBack
  <2>3. CASE free_done
    BY SMTT(30), <1>t, <2>3 DEF free_done, GivenBack
  <2>4. CASE fill_packet
    BY SMTT(30), <1>t, <2>4 DEF fill_packet, GivenBack
  <2> QED
    BY ZenonT(60), <2>1, <2>2, <2>3, <2>4
<1>4. \A i \in Slots : (Unqueued(i)' <=> Unqueued(i)) /\ (Unqueued(i) => pkts'[i] = pkts[i])
  <2>1. CASE fill_packet
    <3>1. cnt = 0
      BY Zenon, <1>t, <2>1 DEF fill_packet
    <3>2. \A i \in Slots : ~(i < cnt)
      BY <1>t, <3>1
    <3> QED
      BY Zenon, <1>1, <3>2 DEF Unqueued
  <2>2. CASE ~fill_packet
    BY Zenon, <1>1, <2>2 DEF recv_done, wait_dispatcher, free_done, Unqueued
  <2> QED
    BY Zenon, <2>1, <2>2
<1>5. Same("batch") /\ Same("back")
  BY ZenonT(60), <1>3, <1>4, SameBatch, SameBack
<1>6. /\ Same("pool") /\ Same("recv") /\ Same("queued") /\ Same("mqueue") /\ Same("given")
  BY ZenonT(30), <1>1, <1>2, SamePool, SameRecv, SameQueued, SameMqueue, SameGiven
<1> QED
  BY ZenonT(60), <1>5, <1>6 DEF Still, Holders

(* Nothing happens.                                                           *)
LEMMA StutterStill ==
  ASSUME UNCHANGED vars
  PROVE  Still
<1>1. UNCHANGED <<tskq, mqueue, net_recv, mbuf_pool, cnt, free_cnt, pkts, net_pc, net_k,
                  disp_pc, disp_k, disp_w, disp_task, work_pc, response_flag, request,
                  response>>
  BY Zenon DEF vars
<1>2. \A w \in Workers : SameTask(w)
  BY ZenonT(30), <1>1, NetworkerLeavesTasks
<1>3. /\ Same("pool") /\ Same("recv") /\ Same("queued") /\ Same("mqueue")
      /\ Same("given") /\ Same("batch") /\ Same("back")
  BY ZenonT(30), <1>1, <1>2, SamePool, SameRecv, SameQueued, SameMqueue, SameGiven, SlotsLeft
<1> QED
  BY Zenon, <1>3 DEF Still, Holders

(* publish: all accepted frames become the batch at once.                     *)
Published ==
  /\ HeldBy("batch") = {} /\ HeldBy("batch")' = HeldBy("recv")
  /\ HeldBy("recv")' = {} /\ HeldOnce("recv")'
  /\ HeldOnce("recv") => HeldOnce("batch")'
  /\ \A k \in Holders : k # "recv" /\ k # "batch" => Same(k)

(* publish passes the whole batch on: the array holds what recv_frame took in. *)
LEMMA PublishMoves ==
  ASSUME IInv, CopyInv, publish, UNCHANGED <<dispVars, workVars>>
  PROVE  Published
<1> DEFINE n == Len(net_recv)
<1>1. /\ net_pc = "fill" /\ net_k = n /\ cnt' = n /\ net_pc' = "recv" /\ net_recv' = <<>>
      /\ cnt = 0 /\ free_cnt = 0 /\ n \in 0 .. Batch /\ disp_pc \notin {"packet", "give"}
      /\ net_recv \in Seq([mbuf : Mbuf, type : Types])
      /\ UNCHANGED <<free_cnt, pkts, disp_pc, disp_k, disp_w, disp_task, tskq, mqueue,
                     mbuf_pool, work_pc, response_flag, request, response>>
  BY Zenon DEF publish, IInv, PointersInv
<1>2. \A i \in Slots : ~Unqueued(i) /\ (Unqueued(i)' <=> i < n)
  <2>1. cnt = 0 /\ cnt' = n /\ disp_pc' = disp_pc /\ disp_pc \notin {"packet", "give"}
    BY Zenon, <1>1
  <2>2. \A i \in Slots : ~(i < 0)
    BY DEF Slots
  <2> QED
    BY Zenon, <2>1, <2>2 DEF Unqueued
<1>3. \A i \in Slots : i < n => i + 1 \in 1 .. n /\ pkts'[i] = net_recv[i + 1].mbuf
  BY SMTT(30), <1>1, DispatchAssumption DEF CopyInv, Slots
<1>4. \A j \in 1 .. n : j - 1 \in Slots /\ j - 1 < n /\ pkts'[j - 1] = net_recv[j].mbuf
  <2> SUFFICES ASSUME NEW j \in 1 .. n
               PROVE  j - 1 \in Slots /\ j - 1 < n /\ pkts'[j - 1] = net_recv[j].mbuf
    BY Zenon 
  <2>1. j - 1 \in Slots /\ j - 1 < n /\ (j - 1) + 1 = j
    BY SMTT(30), <1>1, DispatchAssumption DEF Slots
  <2> QED
    BY Zenon, <2>1, <1>3
<1>5. HeldBy("recv") = {q \in Mbuf : \E j \in 1 .. n : net_recv[j].mbuf = q}
  BY Zenon DEF HeldBy
<1>6. HeldBy("batch") = {q \in Mbuf : \E i \in Slots : Unqueued(i) /\ pkts[i] = q}
  BY Zenon DEF HeldBy
<1>7. HeldBy("batch")' = {q \in Mbuf : \E i \in Slots : Unqueued(i)' /\ pkts'[i] = q}
  BY ZenonT(60) DEF HeldBy
<1>8. ~\E j \in 1 .. Len(net_recv') : TRUE
  BY SMTT(30), <1>1
<1>9. HeldBy("recv")' = {} /\ HeldOnce("recv")'
  <2>1. HeldBy("recv")' = {q \in Mbuf : \E j \in 1 .. Len(net_recv') : net_recv'[j].mbuf = q}
    BY Zenon DEF HeldBy
  <2>2. HeldOnce("recv")'
    BY Zenon, <1>8 DEF HeldOnce
  <2> QED
    BY ZenonT(60), <2>1, <2>2, <1>8
<1> HIDE DEF n
<1>10. HeldBy("batch") = {}
  BY Zenon, <1>2, <1>6
<1>11. HeldBy("batch")' = HeldBy("recv")
  <2>1. ASSUME NEW q \in HeldBy("batch")' PROVE q \in HeldBy("recv")
    BY ZenonT(30), <2>1, <1>2, <1>3, <1>5, <1>7
  <2>2. ASSUME NEW q \in HeldBy("recv") PROVE q \in HeldBy("batch")'
    <3>1. PICK j \in 1 .. n : net_recv[j].mbuf = q
      BY Zenon, <2>2, <1>5
    <3>2. q \in Mbuf
      BY ZenonT(60), <2>2, <1>5
    <3>3. Unqueued(j - 1)'
      BY ZenonT(60), <1>2, <1>4
    <3> QED
      BY ZenonT(30), <3>1, <3>2, <3>3, <1>4, <1>7
  <2> QED
    BY Zenon, <2>1, <2>2
<1>12. ASSUME HeldOnce("recv") PROVE HeldOnce("batch")'
  <2>1. \A i, j \in 1 .. n : net_recv[i].mbuf = net_recv[j].mbuf => i = j
    BY Zenon, <1>12 DEF HeldOnce, n
  <2>2. ASSUME NEW i \in Slots, NEW j \in Slots, Unqueued(i)', Unqueued(j)', pkts'[i] = pkts'[j]
        PROVE  i = j
    <3>1. /\ i + 1 \in 1 .. n /\ j + 1 \in 1 .. n
          /\ net_recv[i + 1].mbuf = net_recv[j + 1].mbuf
      BY ZenonT(60), <2>2, <1>2, <1>3
    <3>2. i + 1 = j + 1
      BY ZenonT(60), <2>1, <3>1
    <3> QED
      BY <3>2 DEF Slots
  <2> QED
    BY Zenon, <2>2 DEF HeldOnce
<1>13. \A w \in Workers : SameTask(w)
  BY ZenonT(30), <1>1, NetworkerLeavesTasks
<1>14. \A i \in Slots : (GivenBack(i)' <=> GivenBack(i)) /\ (GivenBack(i) => pkts'[i] = pkts[i])
  BY Zenon, <1>1 DEF GivenBack, Slots
<1>15. Same("pool") /\ Same("queued") /\ Same("mqueue") /\ Same("given") /\ Same("back")
  BY ZenonT(30), <1>1, <1>13, <1>14, SamePool, SameQueued, SameMqueue, SameGiven, SameBack
<1> QED
  BY ZenonT(60), <1>9, <1>10, <1>11, <1>12, <1>15 DEF Published, Holders

(* The batch takes over the accepted frames and leaves every buffer one holder. *)
LEMMA BufferPublished ==
  ASSUME BufferInv, Published
  PROVE  BufferInv'
<1>1. \A k \in Holders : HeldOnce(k)'
  BY Zenon DEF BufferInv, Published, Same, Holders
<1>2. ASSUME NEW q \in Mbuf
      PROVE  \E k \in Holders : \A l \in Holders : q \in HeldBy(l)' <=> l = k
  <2>1. PICK k \in Holders : \A l \in Holders : q \in HeldBy(l) <=> l = k
    BY Zenon DEF BufferInv
  <2>2. \A l \in Holders : l # "recv" /\ l # "batch" => HeldBy(l)' = HeldBy(l)
    BY Zenon DEF Published, Same
  <2>3. "recv" \in Holders /\ "batch" \in Holders
    BY Zenon DEF Holders
  <2>4. CASE k = "recv"
    <3>1. \A l \in Holders : q \in HeldBy(l)' <=> l = "batch"
      BY ZenonT(60), <2>1, <2>2, <2>3, <2>4 DEF Published
    <3> QED
      BY Zenon, <3>1, <2>3
  <2>5. CASE k # "recv"
    <3>1. k # "batch" /\ q \notin HeldBy("recv")
      BY Zenon, <2>1, <2>3, <2>5 DEF Published
    <3>2. \A l \in Holders : q \in HeldBy(l)' <=> l = k
      BY ZenonT(30), <2>1, <2>2, <2>3, <2>5, <3>1 DEF Published
    <3> QED
      BY Zenon, <3>2
  <2> QED
    BY ZenonT(30), <2>4, <2>5
<1> QED
  BY Zenon, <1>1, <1>2 DEF BufferInv

-----------------------------------------------------------------------------
(* What fill_packet has copied is what was received, and what give_buffer has
   handed back are buffers.                                                   *)
THEOREM CopyInvariant == Spec => []CopyInv
<1>1. Init => CopyInv
  BY DEF Init, DispatchInit, NetworkerInit, CopyInv, Slots
<1>2. IInv /\ CopyInv /\ [Next]_vars => CopyInv'
  <2> SUFFICES ASSUME IInv, CopyInv, [Next]_vars PROVE CopyInv'
    OBVIOUS
  <2>p. pkts \in [Slots -> Mbuf \cup {NULL}]
    BY Zenon DEF IInv, DataInv
  <2>1. CASE UNCHANGED <<pkts, free_cnt>> /\ (net_pc' # "fill" \/ UNCHANGED <<net_pc, net_k, net_recv>>)
    BY Zenon, <2>1 DEF CopyInv
  <2>2. CASE give_buffer /\ UNCHANGED netVars
    <3>k. disp_k \in 0 .. Batch /\ disp_k < Batch
      BY Zenon, <2>2 DEF give_buffer, IInv, PointersInv
    <3>1. PICK i \in Slots : i = disp_k
      BY <3>k, DispatchAssumption DEF Slots
    <3>m. mqueue \in Seq(Mbuf) /\ mqueue # <<>>
      BY Zenon, <2>2 DEF give_buffer, IInv, DataInv
    <3>h. Head(mqueue) \in Mbuf
      BY <3>m
    <3>2. /\ net_pc' # "fill" /\ free_cnt = i /\ free_cnt' = i + 1
          /\ pkts' = [pkts EXCEPT ![i] = Head(mqueue)] /\ Head(mqueue) \in Mbuf
      BY ZenonT(30), <2>2, <3>1, <3>h DEF give_buffer, IInv, PointersInv
    <3>3. \A j \in Slots : j < free_cnt' => j = i \/ j < free_cnt
      <4>1. free_cnt = i /\ free_cnt' = i + 1
        BY Zenon, <3>2
      <4> QED
        BY <4>1 DEF Slots
    <3> QED
      BY ZenonT(30), <3>2, <3>3, <2>p DEF CopyInv
  <2>3. CASE free_done
    BY SMTT(30), <2>3, DispatchAssumption DEF free_done, CopyInv, Slots
  <2>4. CASE fill_packet
    <3>k. net_k \in 0 .. Batch /\ net_k < Len(net_recv) /\ Len(net_recv) <= Batch
          /\ net_recv \in Seq([mbuf : Mbuf, type : Types])
      BY Zenon, <2>4 DEF fill_packet, IInv, PointersInv
    <3>1. PICK i \in Slots : i = net_k
      BY <3>k, DispatchAssumption DEF Slots
    <3>2. /\ pkts' = [pkts EXCEPT ![i] = net_recv[i + 1].mbuf] /\ net_k' = i + 1
          /\ free_cnt' = 0 /\ net_recv' = net_recv /\ net_pc = "fill"
      BY ZenonT(30), <2>4, <3>1 DEF fill_packet, IInv, PointersInv
    <3>3. \A j \in Slots : (j < net_k' => j = i \/ j < net_k) /\ ~(j < free_cnt')
      BY SMTT(30), <3>1, <3>2 DEF Slots
    <3> QED
      BY Zenon, <3>2, <3>3, <2>p DEF CopyInv
  <2>5. CASE DispatcherStep /\ ~give_buffer
    <3>1. UNCHANGED <<pkts, free_cnt, net_pc, net_k, net_recv>>
      BY ZenonT(60), <2>5 DEF DispatcherStep, DispatcherNext, handle_finished, handle_preempted,
         handle_idle, preempt_worker, leave_running, dispatch_none, dispatch_take,
         dispatch_fill, dispatch_activate, networker_check, packet_queue, packet_drop,
         packets_done, give_done
    <3> QED
      BY ZenonT(60), <2>1, <3>1
  <2>6. ASSUME NEW w \in Workers, WorkerStep(w) PROVE CopyInv'
    <3>1. UNCHANGED <<pkts, free_cnt, net_pc, net_k, net_recv>>
      BY ZenonT(30), <2>6, WorkerFrame
    <3> QED
      BY ZenonT(60), <2>1, <3>1
  <2>7. CASE NetworkerStep /\ ~free_done /\ ~fill_packet
    <3>1. UNCHANGED <<pkts, free_cnt>> /\ net_pc' # "fill"
      BY ZenonT(60), <2>7 DEF NetworkerStep, NetworkerNext, NetworkerLoop, recv_frame, recv_done,
         wait_dispatcher, mbuf_free, publish
    <3> QED
      BY ZenonT(60), <2>1, <3>1
  <2>8. CASE UNCHANGED vars
    BY Zenon, <2>1, <2>8 DEF vars
  <2> QED
    BY ZenonT(60), <2>2, <2>3, <2>4, <2>5, <2>6, <2>7, <2>8 DEF Next, DispatcherStep
<1> QED
  BY <1>1, <1>2, InductiveInvariant, PTL DEF Spec

(* Every packet buffer has one holder, which holds it once, whatever the cores
   do and however often a request is preempted.                               *)
THEOREM BufferInvariant == Spec => [](BufferInv /\ CopyInv)
<1>1. Init => BufferInv
  <2> SUFFICES ASSUME Init PROVE BufferInv
    OBVIOUS
  <2>1. /\ \A p \in Mbuf : mbuf_pool[p] = 1
        /\ ~\E j \in 1 .. Len(net_recv) : TRUE
        /\ ~\E j \in 1 .. Len(mqueue) : TRUE
        /\ \A t \in Types : ~\E j \in 1 .. Len(tskq[t]) : TRUE
        /\ \A i \in Slots : ~Unqueued(i) /\ ~GivenBack(i)
        /\ \A w \in Workers : ~HasTask(w)
    BY DEF Init, DispatchInit, DispatcherInit, WorkerInit, NetworkerInit, Unqueued, GivenBack,
       HasTask, Slots
  <2>2. /\ HeldBy("recv") = {} /\ HeldBy("batch") = {} /\ HeldBy("queued") = {}
        /\ HeldBy("given") = {} /\ HeldBy("mqueue") = {} /\ HeldBy("back") = {}
    <3>1. HeldBy("recv") = {} /\ HeldBy("mqueue") = {}
      BY Zenon, <2>1 DEF HeldBy
    <3>2. HeldBy("batch") = {} /\ HeldBy("back") = {}
      BY Zenon, <2>1 DEF HeldBy
    <3>3. HeldBy("queued") = {} /\ HeldBy("given") = {}
      BY ZenonT(60), <2>1 DEF HeldBy
    <3> QED
      BY ZenonT(30), <3>1, <3>2, <3>3
  <2>3. \A p \in Mbuf : p \in HeldBy("pool")
    <3>1. HeldBy("pool") = {p \in Mbuf : mbuf_pool[p] # 0}
      BY Zenon DEF HeldBy
    <3> QED
      BY SMTT(30), <2>1, <3>1
  <2>4. HeldOnce("recv") /\ HeldOnce("mqueue") /\ HeldOnce("batch") /\ HeldOnce("back")
    BY ZenonT(60), <2>1 DEF HeldOnce
  <2>5. HeldOnce("queued") /\ HeldOnce("given") /\ HeldOnce("pool")
    BY Zenon, <2>1 DEF HeldOnce
  <2>6. \A p \in Mbuf : \A l \in Holders : p \in HeldBy(l) <=> l = "pool"
    BY ZenonT(60), <2>2, <2>3 DEF Holders
  <2>7. \A k \in Holders : HeldOnce(k)
    BY Zenon, <2>4, <2>5 DEF Holders
  <2>8. "pool" \in Holders
    BY Zenon DEF Holders
  <2> QED
    BY Zenon, <2>6, <2>7, <2>8 DEF BufferInv
<1>2. IInv /\ CopyInv /\ BufferInv /\ [Next]_vars => BufferInv'
  <2> SUFFICES ASSUME IInv, CopyInv, BufferInv, [Next]_vars PROVE BufferInv'
    OBVIOUS
  <2>s. Still => BufferInv'
    BY Zenon, BufferStable DEF Still
  <2>m. ASSUME NEW p, NEW from, NEW to, Moves(p, from, to) PROVE BufferInv'
    BY Zenon, <2>m, BufferMoved DEF Moves
  <2>1. CASE handle_finished /\ UNCHANGED <<frameVars, workVars, netVars>>
    <3>1. PICK i \in Workers : i = disp_w
      BY Zenon DEF IInv, HandshakeInv
    <3> QED
      BY ZenonT(60), <2>1, <2>m, <3>1, FinishedMoves
  <2>2. CASE handle_preempted /\ UNCHANGED <<frameVars, workVars, netVars>>
    <3>1. PICK i \in Workers : i = disp_w
      BY Zenon DEF IInv, HandshakeInv
    <3> QED
      BY ZenonT(60), <2>2, <2>m, <3>1, PreemptedMoves
  <2>3. ASSUME NEW t \in Types, dispatch_take(t), UNCHANGED <<frameVars, workVars, netVars>>
        PROVE  BufferInv'
    BY ZenonT(60), <2>3, <2>m, TakeMoves
  <2>4. ASSUME NEW c \in Ctx, packet_queue(c), UNCHANGED <<frameVars, workVars, netVars>>
        PROVE  BufferInv'
    BY ZenonT(60), <2>4, <2>m, PacketQueueMoves
  <2>5. CASE packet_drop /\ UNCHANGED <<frameVars, workVars, netVars>>
    BY ZenonT(60), <2>5, <2>m, PacketDropMoves
  <2>6. CASE give_buffer /\ UNCHANGED <<frameVars, workVars, netVars>>
    BY ZenonT(60), <2>6, <2>m, GiveMoves
  <2>7. CASE /\ UNCHANGED <<frameVars, workVars, netVars>>
             /\ \/ handle_idle \/ preempt_worker \/ leave_running \/ dispatch_none
                \/ dispatch_fill \/ dispatch_activate \/ networker_check \/ packets_done
                \/ give_done
    BY ZenonT(60), <2>7, <2>s, DispatcherStill
  <2>8. ASSUME NEW w \in Workers, WorkerStep(w) PROVE BufferInv'
    BY Zenon, <2>8, <2>s, WorkerStill
  <2>9. ASSUME NEW p \in Mbuf, NEW t \in Types, recv_frame(p, t), UNCHANGED <<dispVars, workVars>>
        PROVE  BufferInv'
    BY ZenonT(60), <2>9, <2>m, RecvMoves
  <2>10. CASE mbuf_free /\ UNCHANGED <<dispVars, workVars>>
    BY ZenonT(60), <2>10, <2>m, FreeMoves
  <2>11. CASE publish /\ UNCHANGED <<dispVars, workVars>>
    BY ZenonT(60), <2>11, PublishMoves, BufferPublished
  <2>12. CASE /\ UNCHANGED <<dispVars, workVars>>
              /\ recv_done \/ wait_dispatcher \/ free_done \/ fill_packet
    BY ZenonT(60), <2>12, <2>s, NetworkerStill
  <2>13. CASE UNCHANGED vars
    BY ZenonT(60), <2>13, <2>s, StutterStill
  <2>14. CASE DispatcherStep
    BY ZenonT(60), <2>14, <2>1, <2>2, <2>3, <2>4, <2>5, <2>6, <2>7 DEF DispatcherStep, DispatcherNext
  <2>15. CASE NetworkerStep
    BY ZenonT(60), <2>15, <2>9, <2>10, <2>11, <2>12 DEF NetworkerStep, NetworkerNext, NetworkerLoop
  <2> QED
    BY ZenonT(60), <2>8, <2>13, <2>14, <2>15 DEF Next
<1> QED
  BY <1>1, <1>2, InductiveInvariant, CopyInvariant, PTL DEF Spec
=============================================================================
