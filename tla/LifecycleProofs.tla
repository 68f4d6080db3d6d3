--------------------------- MODULE LifecycleProofs ----------------------------
(***************************************************************************)
(* Requests: where their buffers are decides their stage, an answered       *)
(* request is never run again, and the cores together implement             *)
(* RequestLifecycle.                                                        *)
(***************************************************************************)
EXTENDS BufferProofs

USE DEF poolVars, requestVars, responseVars, pointerVars, frameVars, dispVars,
        workVars, netVars, dispatcherOnly, notNetworker

(* The places of holder k.                                                    *)
PlaceIn(k, pl) ==
  CASE k = "pool" -> \E p \in Mbuf : mbuf_pool[p] # 0 /\ pl = <<"mbuf_pool", p, 1>>
    [] k = "recv" -> \E j \in 1 .. Len(net_recv) : pl = <<"recv", j, 0>>
    [] k = "batch" -> \E i \in Slots : Unqueued(i) /\ pl = <<"pkts", i, 0>>
    [] k = "queued" -> \E t \in Types : \E j \in DOMAIN tskq[t] : pl = <<"tskq", t, j>>
    [] k = "given" -> \E w \in Workers : HasTask(w) /\ pl = WorkerPlace(w)
    [] k = "mqueue" -> \E j \in 1 .. Len(mqueue) : pl = <<"mqueue", j, 0>>
    [] k = "back" -> \E i \in Slots : GivenBack(i) /\ pl = <<"pkts", i, 0>>

(* The places of the holders are all the places there are.                    *)
LEMMA PlacesOfBuffers ==
  ASSUME IInv, BufferInv
  PROVE  \A pl : pl \in BufferPlaces <=> \E k \in Holders : PlaceIn(k, pl)
<1> DEFINE A == UNION {{<<"mbuf_pool", p, n>> : n \in 1 .. mbuf_pool[p]} : p \in Mbuf}
           B == {<<"recv", j, 0>> : j \in DOMAIN net_recv}
           C == {<<"pkts", k, 0>> : k \in {i \in Slots : Unqueued(i) \/ GivenBack(i)}}
           D == {<<"mqueue", j, 0>> : j \in DOMAIN mqueue}
<1> TAKE pl
<1>1. DOMAIN net_recv = 1 .. Len(net_recv) /\ DOMAIN mqueue = 1 .. Len(mqueue)
  BY DEF IInv, PointersInv, DataInv
<1>2. HeldOnce("pool")
  BY Zenon DEF BufferInv, Holders
<1>3. \A p \in Mbuf : mbuf_pool[p] \in {0, 1}
  BY Zenon, <1>2 DEF HeldOnce
<1>4. pl \in A <=> PlaceIn("pool", pl)
  <2>1. PlaceIn("pool", pl) <=> \E p \in Mbuf : mbuf_pool[p] # 0 /\ pl = <<"mbuf_pool", p, 1>>
    BY Zenon DEF PlaceIn
  <2>2. ASSUME pl \in A PROVE \E p \in Mbuf : mbuf_pool[p] # 0 /\ pl = <<"mbuf_pool", p, 1>>
    <3>1. PICK p \in Mbuf : pl \in {<<"mbuf_pool", p, n>> : n \in 1 .. mbuf_pool[p]}
      BY Zenon, <2>2
    <3>2. PICK n \in 1 .. mbuf_pool[p] : pl = <<"mbuf_pool", p, n>>
      BY Zenon, <3>1
    <3>3. mbuf_pool[p] # 0 /\ n = 1
      BY SMTT(30), <1>3, <3>2
    <3> QED
      BY Zenon, <3>2, <3>3
  <2>3. ASSUME NEW p \in Mbuf, mbuf_pool[p] # 0, pl = <<"mbuf_pool", p, 1>> PROVE pl \in A
    <3>1. 1 \in 1 .. mbuf_pool[p]
      BY <1>3, <2>3
    <3>2. pl \in {<<"mbuf_pool", p, n>> : n \in 1 .. mbuf_pool[p]}
      BY Zenon, <2>3, <3>1
    <3> QED
      BY Zenon, <3>2
  <2> QED
    BY Zenon, <2>1, <2>2, <2>3
<1>5. pl \in B <=> PlaceIn("recv", pl)
  <2>1. PlaceIn("recv", pl) <=> \E j \in 1 .. Len(net_recv) : pl = <<"recv", j, 0>>
    BY Zenon DEF PlaceIn
  <2> QED
    BY Zenon, <1>1, <2>1
<1>6. pl \in C <=> PlaceIn("batch", pl) \/ PlaceIn("back", pl)
  <2>1. PlaceIn("batch", pl) <=> \E i \in Slots : Unqueued(i) /\ pl = <<"pkts", i, 0>>
    BY Zenon DEF PlaceIn
  <2>2. PlaceIn("back", pl) <=> \E i \in Slots : GivenBack(i) /\ pl = <<"pkts", i, 0>>
    BY Zenon DEF PlaceIn
  <2> QED
    BY Zenon, <2>1, <2>2
<1>7. pl \in D <=> PlaceIn("mqueue", pl)
  <2>1. PlaceIn("mqueue", pl) <=> \E j \in 1 .. Len(mqueue) : pl = <<"mqueue", j, 0>>
    BY Zenon DEF PlaceIn
  <2> QED
    BY ZenonT(60), <1>1, <2>1
<1>8. pl \in TaskPlaces <=> PlaceIn("queued", pl) \/ PlaceIn("given", pl)
  <2>1. PlaceIn("queued", pl) <=>
          \E t \in Types : \E j \in DOMAIN tskq[t] : pl = <<"tskq", t, j>>
    BY Zenon DEF PlaceIn
  <2>2. PlaceIn("given", pl) <=> \E w \in Workers : HasTask(w) /\ pl = WorkerPlace(w)
    BY Zenon DEF PlaceIn
  <2>3. HandshakeInv
    BY Zenon DEF IInv
  <2> QED
    BY ZenonT(60), <2>1, <2>2, <2>3, PlacesOfTasks
<1>9. BufferPlaces = TaskPlaces \cup A \cup B \cup C \cup D
  BY Zenon DEF BufferPlaces
<1> HIDE DEF A, B, C, D
<1>10. pl \in BufferPlaces <=> pl \in TaskPlaces \/ pl \in A \/ pl \in B \/ pl \in C \/ pl \in D
  BY Zenon, <1>9
<1> QED
  BY ZenonT(60), <1>4, <1>5, <1>6, <1>7, <1>8, <1>10 DEF Holders

(* A holder's places have its buffers, each in one place.                     *)
LEMMA BuffersAtPlaces ==
  ASSUME IInv, CopyInv, BufferInv, NEW k \in Holders
  PROVE  /\ \A pl : PlaceIn(k, pl) => BufferAt(pl) \in HeldBy(k)
         /\ \A p \in HeldBy(k) : \E pl : PlaceIn(k, pl) /\ BufferAt(pl) = p
         /\ \A pl, q : PlaceIn(k, pl) /\ PlaceIn(k, q) /\ BufferAt(pl) = BufferAt(q) => pl = q
<1>1. HeldOnce(k)
  BY Zenon DEF BufferInv
<1>2. CASE k = "pool"
  <2>1. \A pl : PlaceIn(k, pl) <=> \E p \in Mbuf : mbuf_pool[p] # 0 /\ pl = <<"mbuf_pool", p, 1>>
    BY Zenon, <1>2 DEF PlaceIn
  <2>2. \A p \in Mbuf : BufferAt(<<"mbuf_pool", p, 1>>) = p
    BY Zenon DEF BufferAt
  <2>3. HeldBy(k) = {p \in Mbuf : mbuf_pool[p] # 0}
    BY Zenon, <1>2 DEF HeldBy
  <2>4. \A pl : PlaceIn(k, pl) => BufferAt(pl) \in HeldBy(k)
    BY ZenonT(30), <2>1, <2>2, <2>3
  <2>5. \A p \in HeldBy(k) : \E pl : PlaceIn(k, pl) /\ BufferAt(pl) = p
    BY Zenon, <2>1, <2>2, <2>3
  <2>6. \A pl, q : PlaceIn(k, pl) /\ PlaceIn(k, q) /\ BufferAt(pl) = BufferAt(q) => pl = q
    BY <2>1, <2>2
  <2> QED
    BY Zenon, <2>4, <2>5, <2>6
<1>3. CASE k = "recv"
  <2>1. \A pl : PlaceIn(k, pl) <=> \E j \in 1 .. Len(net_recv) : pl = <<"recv", j, 0>>
    BY Zenon, <1>3 DEF PlaceIn
  <2>2. \A j \in 1 .. Len(net_recv) : BufferAt(<<"recv", j, 0>>) = net_recv[j].mbuf
    BY Zenon DEF BufferAt
  <2>3. HeldBy(k) = {p \in Mbuf : \E j \in 1 .. Len(net_recv) : net_recv[j].mbuf = p}
    BY Zenon, <1>3 DEF HeldBy
  <2>4. \A j \in 1 .. Len(net_recv) : net_recv[j].mbuf \in Mbuf
    <3>1. net_recv \in Seq([mbuf : Mbuf, type : Types])
      BY Zenon DEF IInv, PointersInv
    <3>2. \A j \in 1 .. Len(net_recv) : net_recv[j] \in [mbuf : Mbuf, type : Types]
      BY Zenon, <3>1, ElementType
    <3> QED
      BY Zenon, <3>2
  <2>5. \A i, j \in 1 .. Len(net_recv) : net_recv[i].mbuf = net_recv[j].mbuf => i = j
    BY Zenon, <1>1, <1>3 DEF HeldOnce
  <2>6. \A pl : PlaceIn(k, pl) => BufferAt(pl) \in HeldBy(k)
    BY SMTT(30), <2>1, <2>2, <2>3, <2>4
  <2>7. \A p \in HeldBy(k) : \E pl : PlaceIn(k, pl) /\ BufferAt(pl) = p
    BY Zenon, <2>1, <2>2, <2>3
  <2>8. \A pl, q : PlaceIn(k, pl) /\ PlaceIn(k, q) /\ BufferAt(pl) = BufferAt(q) => pl = q
    BY <2>1, <2>2, <2>5
  <2> QED
    BY Zenon, <2>6, <2>7, <2>8
<1>4. CASE k = "batch"
  <2>1. \A pl : PlaceIn(k, pl) <=> \E i \in Slots : Unqueued(i) /\ pl = <<"pkts", i, 0>>
    BY Zenon, <1>4 DEF PlaceIn
  <2>2. \A i \in Slots : BufferAt(<<"pkts", i, 0>>) = pkts[i]
    BY Zenon DEF BufferAt
  <2>3. HeldBy(k) = {p \in Mbuf : \E i \in Slots : Unqueued(i) /\ pkts[i] = p}
    BY Zenon, <1>4 DEF HeldBy
  <2>4. \A i \in Slots : Unqueued(i) => pkts[i] \in Mbuf
    BY Zenon DEF IInv, TasksInv, Unqueued
  <2>5. \A i, j \in Slots : Unqueued(i) /\ Unqueued(j) /\ pkts[i] = pkts[j] => i = j
    BY Zenon, <1>1, <1>4 DEF HeldOnce
  <2>6. \A pl : PlaceIn(k, pl) => BufferAt(pl) \in HeldBy(k)
    BY SMTT(30), <2>1, <2>2, <2>3, <2>4
  <2>7. \A p \in HeldBy(k) : \E pl : PlaceIn(k, pl) /\ BufferAt(pl) = p
    BY ZenonT(60), <2>1, <2>2, <2>3
  <2>8. \A pl, q : PlaceIn(k, pl) /\ PlaceIn(k, q) /\ BufferAt(pl) = BufferAt(q) => pl = q
    BY <2>1, <2>2, <2>5
  <2> QED
    BY Zenon, <2>6, <2>7, <2>8
<1>5. CASE k = "back"
  <2>1. \A pl : PlaceIn(k, pl) <=> \E i \in Slots : GivenBack(i) /\ pl = <<"pkts", i, 0>>
    BY Zenon, <1>5 DEF PlaceIn
  <2>2. \A i \in Slots : BufferAt(<<"pkts", i, 0>>) = pkts[i]
    BY Zenon DEF BufferAt
  <2>3. HeldBy(k) = {p \in Mbuf : \E i \in Slots : GivenBack(i) /\ pkts[i] = p}
    BY Zenon, <1>5 DEF HeldBy
  <2>4. \A i \in Slots : GivenBack(i) => pkts[i] \in Mbuf
    BY Zenon DEF CopyInv, GivenBack
  <2>5. \A i, j \in Slots : GivenBack(i) /\ GivenBack(j) /\ pkts[i] = pkts[j] => i = j
    BY Zenon, <1>1, <1>5 DEF HeldOnce
  <2>6. \A pl : PlaceIn(k, pl) => BufferAt(pl) \in HeldBy(k)
    BY ZenonT(60), <2>1, <2>2, <2>3, <2>4
  <2>7. \A p \in HeldBy(k) : \E pl : PlaceIn(k, pl) /\ BufferAt(pl) = p
    BY ZenonT(60), <2>1, <2>2, <2>3
  <2>8. \A pl, q : PlaceIn(k, pl) /\ PlaceIn(k, q) /\ BufferAt(pl) = BufferAt(q) => pl = q
    BY <2>1, <2>2, <2>5
  <2> QED
    BY Zenon, <2>6, <2>7, <2>8
<1>6. CASE k = "mqueue"
  <2>1. \A pl : PlaceIn(k, pl) <=> \E j \in 1 .. Len(mqueue) : pl = <<"mqueue", j, 0>>
    BY Zenon, <1>6 DEF PlaceIn
  <2>2. \A j \in 1 .. Len(mqueue) : BufferAt(<<"mqueue", j, 0>>) = mqueue[j]
    BY Zenon DEF BufferAt
  <2>3. HeldBy(k) = {p \in Mbuf : \E j \in 1 .. Len(mqueue) : mqueue[j] = p}
    BY ZenonT(60), <1>6 DEF HeldBy
  <2>4. \A j \in 1 .. Len(mqueue) : mqueue[j] \in Mbuf
    BY Zenon, ElementType DEF IInv, DataInv
  <2>5. \A i, j \in 1 .. Len(mqueue) : mqueue[i] = mqueue[j] => i = j
    BY ZenonT(60), <1>1, <1>6 DEF HeldOnce
  <2>6. \A pl : PlaceIn(k, pl) => BufferAt(pl) \in HeldBy(k)
    BY SMTT(30), <2>1, <2>2, <2>3, <2>4
  <2>7. \A p \in HeldBy(k) : \E pl : PlaceIn(k, pl) /\ BufferAt(pl) = p
    BY Zenon, <2>1, <2>2, <2>3
  <2>8. \A pl, q : PlaceIn(k, pl) /\ PlaceIn(k, q) /\ BufferAt(pl) = BufferAt(q) => pl = q
    BY <2>1, <2>2, <2>5
  <2> QED
    BY Zenon, <2>6, <2>7, <2>8
<1>7. CASE k = "queued"
  <2>1. \A pl : PlaceIn(k, pl) <=>
          \E t \in Types : \E j \in DOMAIN tskq[t] : pl = <<"tskq", t, j>>
    BY Zenon, <1>7 DEF PlaceIn
  <2>2. \A t \in Types : \A j \in DOMAIN tskq[t] :
          BufferAt(<<"tskq", t, j>>) = tskq[t][j].mbuf
    BY Zenon DEF BufferAt, TaskAt
  <2>3. HeldBy(k) = {p \in Mbuf : \E t \in Types :
                       \E j \in 1 .. Len(tskq[t]) : tskq[t][j].mbuf = p}
    BY Zenon, <1>7 DEF HeldBy
  <2>4. \A t \in Types : DOMAIN tskq[t] = 1 .. Len(tskq[t])
    BY DEF IInv, TasksInv
  <2>5. \A t \in Types : \A j \in 1 .. Len(tskq[t]) : tskq[t][j].mbuf \in Mbuf
    <3>1. \A t \in Types : tskq[t] \in Seq(OwnedTask)
      BY Zenon DEF IInv, TasksInv
    <3>2. \A t \in Types : \A j \in 1 .. Len(tskq[t]) : tskq[t][j] \in OwnedTask
      BY ZenonT(60), <3>1, ElementType
    <3> QED
      BY Zenon, <3>2 DEF OwnedTask
  <2>6. \A t, u \in Types : \A i \in 1 .. Len(tskq[t]), j \in 1 .. Len(tskq[u]) :
          tskq[t][i].mbuf = tskq[u][j].mbuf => t = u /\ i = j
    BY ZenonT(30), <1>1, <1>7 DEF HeldOnce
  <2>7. \A pl : PlaceIn(k, pl) => BufferAt(pl) \in HeldBy(k)
    BY SMTT(30), <2>1, <2>2, <2>3, <2>4, <2>5
  <2>8. \A p \in HeldBy(k) : \E pl : PlaceIn(k, pl) /\ BufferAt(pl) = p
    BY ZenonT(60), <2>1, <2>2, <2>3, <2>4
  <2>9. ASSUME NEW pl, NEW q, PlaceIn(k, pl), PlaceIn(k, q), BufferAt(pl) = BufferAt(q)
        PROVE  pl = q
    <3>1. PICK t \in Types : \E i \in DOMAIN tskq[t] : pl = <<"tskq", t, i>>
      BY Zenon, <2>1, <2>9
    <3>2. PICK i \in DOMAIN tskq[t] : pl = <<"tskq", t, i>>
      BY Zenon, <3>1
    <3>3. PICK u \in Types : \E j \in DOMAIN tskq[u] : q = <<"tskq", u, j>>
      BY Zenon, <2>1, <2>9
    <3>4. PICK j \in DOMAIN tskq[u] : q = <<"tskq", u, j>>
      BY Zenon, <3>3
    <3>5. tskq[t][i].mbuf = tskq[u][j].mbuf
      BY ZenonT(30), <2>2, <2>9, <3>2, <3>4
    <3>6. i \in 1 .. Len(tskq[t]) /\ j \in 1 .. Len(tskq[u])
      BY Zenon, <2>4
    <3>7. t = u /\ i = j
      BY ZenonT(60), <2>6, <3>5, <3>6
    <3> QED
      BY Zenon, <3>2, <3>4, <3>7
  <2> QED
    BY Zenon, <2>7, <2>8, <2>9
<1>8. CASE k = "given"
  <2>1. \A pl : PlaceIn(k, pl) <=> \E w \in Workers : HasTask(w) /\ pl = WorkerPlace(w)
    BY Zenon, <1>8 DEF PlaceIn
  <2>2. \A w \in Workers : BufferAt(WorkerPlace(w)) = TaskOf(w).mbuf
    BY ZenonT(30) DEF BufferAt, TaskAt, WorkerPlace, TaskOf
  <2>3. HeldBy(k) = {p \in Mbuf : \E w \in Workers : HasTask(w) /\ TaskOf(w).mbuf = p}
    BY ZenonT(60), <1>8 DEF HeldBy
  <2>4. \A w \in Workers : HasTask(w) => TaskOf(w).mbuf \in Mbuf
    BY Zenon DEF IInv, TasksInv, OwnedTask
  <2>5. \A v, w \in Workers :
          HasTask(v) /\ HasTask(w) /\ TaskOf(v).mbuf = TaskOf(w).mbuf => v = w
    BY ZenonT(60), <1>1, <1>8 DEF HeldOnce
  <2>6. \A pl : PlaceIn(k, pl) => BufferAt(pl) \in HeldBy(k)
    BY ZenonT(30), <2>1, <2>2, <2>3, <2>4
  <2>7. \A p \in HeldBy(k) : \E pl : PlaceIn(k, pl) /\ BufferAt(pl) = p
    BY Zenon, <2>1, <2>2, <2>3
  <2>8. \A pl, q : PlaceIn(k, pl) /\ PlaceIn(k, q) /\ BufferAt(pl) = BufferAt(q) => pl = q
    BY SMTT(30), <2>1, <2>2, <2>5
  <2> QED
    BY Zenon, <2>6, <2>7, <2>8
<1> QED
  BY ZenonT(60), <1>2, <1>3, <1>4, <1>5, <1>6, <1>7, <1>8 DEF Holders

(* A buffer's place is a place of its holder.                                 *)
LEMMA PlaceOfBuffer ==
  ASSUME IInv, CopyInv, BufferInv, NEW k \in Holders, NEW p \in HeldBy(k)
  PROVE  \E pl \in BufferPlaces :
           PlaceIn(k, pl) /\ \A q \in BufferPlaces : BufferAt(q) = p <=> q = pl
<1>1. PICK pl : PlaceIn(k, pl) /\ BufferAt(pl) = p
  BY Zenon, BuffersAtPlaces
<1>2. pl \in BufferPlaces
  BY ZenonT(60), <1>1, PlacesOfBuffers
<1>3. p \in Mbuf
  BY Zenon DEF HeldBy, Holders
<1>4. ASSUME NEW q \in BufferPlaces, BufferAt(q) = p PROVE q = pl
  <2>1. PICK l \in Holders : PlaceIn(l, q)
    BY Zenon, <1>4, PlacesOfBuffers
  <2>2. p \in HeldBy(l)
    BY ZenonT(60), <2>1, <1>4, BuffersAtPlaces
  <2>3. l = k
    BY Zenon, <2>2, <1>3 DEF BufferInv
  <2> QED
    BY ZenonT(60), <1>1, <1>4, <2>1, <2>3, BuffersAtPlaces
<1> QED
  BY ZenonT(60), <1>1, <1>2, <1>4

(* Every packet buffer is in exactly one place on its way from the pool through
   do_networking, the queues, a worker and mqueue back to the pool.           *)
THEOREM BuffersOwned == Spec => []BufferOwnership
<1>1. IInv /\ CopyInv /\ BufferInv => BufferOwnership
  <2> SUFFICES ASSUME IInv, CopyInv, BufferInv PROVE BufferOwnership
    OBVIOUS
  <2>1. ASSUME NEW pl \in BufferPlaces PROVE BufferAt(pl) \in Mbuf
    <3>1. PICK k \in Holders : PlaceIn(k, pl)
      BY ZenonT(60), <2>1, PlacesOfBuffers
    <3>2. BufferAt(pl) \in HeldBy(k)
      BY ZenonT(60), <3>1, BuffersAtPlaces
    <3> QED
      BY Zenon, <3>2 DEF HeldBy, Holders
  <2>2. ASSUME NEW p \in Mbuf
        PROVE  \E pl \in BufferPlaces : \A q \in BufferPlaces : BufferAt(q) = p <=> q = pl
    <3>1. PICK k \in Holders : p \in HeldBy(k)
      BY Zenon DEF BufferInv
    <3> QED
      BY ZenonT(60), <3>1, PlaceOfBuffer
  <2> QED
    BY ZenonT(60), <2>1, <2>2 DEF BufferOwnership
<1> QED
  BY <1>1, InductiveInvariant, BufferInvariant, PTL

-----------------------------------------------------------------------------
(* A worker that has answered goes straight on to report the end of its request:
   interrupts are off from send_reply to finish_flag.                         *)
LEMMA EndingKept ==
  ASSUME IInv, NEW w \in Workers, WorkerStep(w), Ending(w)
  PROVE  Ending(w)'
<1>n. WorkerNext(w)
  BY Zenon DEF WorkerStep
<1>t. /\ work_pc \in [Workers -> WorkerPC] /\ finished \in [Workers -> BOOLEAN]
      /\ response_flag \in [Workers -> ResponseFlag]
  BY Zenon DEF IInv, HandshakeInv, DataInv
<1>1. CASE work_pc[w] = "sent"
  <2>1. end_work(w)
    BY ZenonT(60), <1>n, <1>1 DEF WorkerNext, Goto, init_worker, poll_request, take_request,
       handle_new_packet, handle_context, test_handler, work_done, send_reply,
       finish_request, finish_flag
  <2>2. work_pc'[w] = "report" /\ finished'[w] = TRUE
    BY Zenon, <2>1, <1>t DEF end_work, Goto
  <2> QED
    BY Zenon, <2>2 DEF Ending
<1>2. CASE work_pc[w] = "report" /\ finished[w]
  <2>1. finish_request(w)
    BY ZenonT(60), <1>n, <1>2 DEF WorkerNext, Goto, init_worker, poll_request, take_request,
       handle_new_packet, handle_context, test_handler, work_done, send_reply,
       end_work, finish_flag
  <2>2. work_pc'[w] = "flag" /\ finished' = finished
    BY Zenon, <2>1, <1>t DEF finish_request, Goto
  <2> QED
    BY ZenonT(30), <1>2, <2>2 DEF Ending
<1>3. CASE work_pc[w] = "flag" /\ finished[w]
  <2>1. finish_flag(w)
    BY ZenonT(60), <1>n, <1>3 DEF WorkerNext, Goto, init_worker, poll_request, take_request,
       handle_new_packet, handle_context, test_handler, work_done, send_reply,
       end_work, finish_request
  <2>2. response_flag'[w] = "FINISHED"
    BY ZenonT(30), <1>3, <2>1, <1>t DEF finish_flag
  <2> QED
    BY Zenon, <2>2 DEF Ending
<1>4. CASE response_flag[w] = "FINISHED"
  <2>1. work_pc[w] \notin {"init", "take", "enter", "run", "reply", "sent", "report", "flag"}
    BY ZenonT(30), <1>4 DEF IInv, HandshakeInv
  <2>2. poll_request(w)
    BY ZenonT(60), <1>n, <2>1 DEF WorkerNext, Goto, init_worker, take_request,
       handle_new_packet, handle_context, test_handler, work_done, send_reply,
       end_work, finish_request, finish_flag
  <2>3. request_flag[w] = "ACTIVE"
    BY ZenonT(30), <2>2 DEF poll_request, IInv, HandshakeInv, RequestFlag
  <2> QED
    BY ZenonT(30), <1>4, <2>3 DEF IInv, HandshakeInv
<1> QED
  BY ZenonT(60), <1>1, <1>2, <1>3, <1>4 DEF Ending

(* Buffers whose requests have not run yet, or wait to run again.             *)
Unanswered(k) == HeldBy(k) \cap replied = {}

(* A move leaves unanswered requests before send_reply unanswered, if what it
   moves there is.                                                            *)
LEMMA MovesUnanswered ==
  ASSUME AnswerInv, BufferInv, UNCHANGED replied, NEW p, NEW from, NEW to, Moves(p, from, to),
         to \in {"recv", "batch", "queued"} => p \notin replied
  PROVE  \A k \in {"recv", "batch", "queued"} : Unanswered(k)'
<1> SUFFICES ASSUME NEW k \in {"recv", "batch", "queued"} PROVE Unanswered(k)'
  OBVIOUS
<1>1. k \in Holders /\ HeldBy(k) \cap replied = {}
  BY Zenon DEF Holders, AnswerInv
<1>2. HeldBy(k)' \subseteq HeldBy(k) \cup (IF k = to THEN {p} ELSE {})
  <2>1. CASE k = from
    BY Zenon, <2>1 DEF Moves, Loses, BufferInv
  <2>2. CASE k = to
    BY Zenon, <2>2 DEF Moves, Gains
  <2>3. CASE k # from /\ k # to
    BY Zenon, <1>1, <2>3 DEF Moves, Same
  <2> QED
    BY ZenonT(60), <2>1, <2>2, <2>3
<1> QED
  BY ZenonT(30), <1>1, <1>2 DEF Unanswered

(* Nor does a step that moves nothing and answers nothing change that.        *)
LEMMA StillUnanswered ==
  ASSUME AnswerInv, UNCHANGED replied, Still
  PROVE  \A k \in {"recv", "batch", "queued"} : Unanswered(k)'
BY Zenon DEF AnswerInv, Unanswered, Still, Same, Holders

(* Workers whose tasks the dispatcher does not touch are as far as they were.  *)
LEMMA TasksUnanswered ==
  ASSUME AnswerInv, UNCHANGED <<replied, work_pc, finished>>,
         \A w \in Workers : HasTask(w)' => SameTask(w) /\ response_flag'[w] = response_flag[w]
  PROVE  \A w \in Workers : HasTask(w)' /\ TaskOf(w)'.mbuf \in replied' => Ending(w)'
<1> SUFFICES ASSUME NEW w \in Workers, HasTask(w)', TaskOf(w)'.mbuf \in replied'
             PROVE  Ending(w)'
  OBVIOUS
<1>1. SameTask(w) /\ response_flag'[w] = response_flag[w]
  BY Zenon
<1>2. HasTask(w) /\ TaskOf(w).mbuf \in replied
  BY Zenon, <1>1 DEF SameTask
<1>3. Ending(w)
  BY Zenon, <1>2 DEF AnswerInv
<1> QED
  BY Zenon, <1>1, <1>3 DEF Ending

(* AnswerInv, put together.                                                   *)
LEMMA AnswerParts ==
  ASSUME \A k \in {"recv", "batch", "queued"} : Unanswered(k)',
         \A w \in Workers : HasTask(w)' /\ TaskOf(w)'.mbuf \in replied' => Ending(w)'
  PROVE  AnswerInv'
BY Zenon DEF AnswerInv, Unanswered

-----------------------------------------------------------------------------
(* A request that handle_preempted queues again has not been answered, since its
   worker reported it preempted.                                              *)
LEMMA PreemptedUnanswered ==
  ASSUME IInv, AnswerInv, NEW i \in Workers, i = disp_w, handle_preempted
  PROVE  response[i].mbuf \notin replied
<1>1. response_flag[i] = "PREEMPTED" /\ disp_pc = "worker"
  BY Zenon DEF handle_preempted
<1>2. work_pc[i] \notin {"init", "sent", "report", "flag"}
  BY ZenonT(30), <1>1 DEF IInv, HandshakeInv
<1>3. HasTask(i) /\ TaskOf(i) = response[i]
  BY ZenonT(30), <1>1, <1>2 DEF HasTask, TaskOf
<1>4. ~Ending(i)
  BY Zenon, <1>1, <1>2 DEF Ending
<1> QED
  BY Zenon, <1>3, <1>4 DEF AnswerInv

(* The dispatcher's steps keep answered requests from being queued or run.    *)
LEMMA DispatcherAnswers ==
  ASSUME IInv, CopyInv, BufferInv, AnswerInv, DispatcherStep
  PROVE  AnswerInv'
<1>u. /\ UNCHANGED <<frameVars, workVars, netVars>>
      /\ UNCHANGED <<replied, work_pc, finished>>
  BY Zenon DEF DispatcherStep
<1>i. PICK i \in Workers : i = disp_w
  BY Zenon DEF IInv, HandshakeInv
<1>h. HandshakeInv /\ response_flag \in [Workers -> ResponseFlag]
  BY Zenon DEF IInv, HandshakeInv
<1>1. CASE handle_finished \/ handle_preempted
  <2>1. \A k \in {"recv", "batch", "queued"} : Unanswered(k)'
    <3>1. CASE handle_finished
      <4>1. Moves(response[i].mbuf, "given", "mqueue")
        BY ZenonT(60), <1>u, <1>i, <3>1, FinishedMoves
      <4> QED
        BY ZenonT(30), <1>u, <4>1, MovesUnanswered
    <3>2. CASE handle_preempted
      <4>1. Moves(response[i].mbuf, "given", "queued")
        BY ZenonT(60), <1>u, <1>i, <3>2, PreemptedMoves
      <4>2. response[i].mbuf \notin replied
        BY ZenonT(60), <1>i, <3>2, PreemptedUnanswered
      <4> QED
        BY ZenonT(60), <1>u, <4>1, <4>2, MovesUnanswered
    <3> QED
      BY ZenonT(30), <1>1, <3>1, <3>2
  <2>2. ~HasTask(i)' /\ \A w \in Workers : w # i => SameTask(w)
    BY ZenonT(60), <1>1, <1>u, <1>i, <1>h, TaskHandled
  <2>3. response_flag' = [response_flag EXCEPT ![i] = "PROCESSED"]
    BY ZenonT(30), <1>1, <1>i DEF handle_finished, handle_preempted
  <2>4. \A w \in Workers : w # i => response_flag'[w] = response_flag[w]
    BY ZenonT(30), <2>3, <1>h
  <2>5. \A w \in Workers : HasTask(w)' => SameTask(w) /\ response_flag'[w] = response_flag[w]
    BY Zenon, <2>2, <2>4
  <2> QED
    BY ZenonT(60), <1>u, <2>1, <2>5, TasksUnanswered, AnswerParts
<1>2. ASSUME NEW t \in Types, dispatch_take(t) PROVE AnswerInv'
  <2>1. Moves(Head(tskq[t]).mbuf, "queued", "given")
    BY ZenonT(60), <1>2, <1>u, TakeMoves
  <2>2. \A k \in {"recv", "batch", "queued"} : Unanswered(k)'
    BY ZenonT(30), <1>u, <2>1, MovesUnanswered
  <2>3. Head(tskq[t]).mbuf \notin replied
    BY Zenon, <2>1 DEF Moves, Loses, AnswerInv
  <2>4. TaskOf(i)' = Head(tskq[t]) /\ \A w \in Workers : w # i => SameTask(w)
    BY ZenonT(60), <1>2, <1>u, <1>i, <1>h, TaskTaken
  <2>5. response_flag' = [response_flag EXCEPT ![i] = "RUNNING"]
    BY ZenonT(30), <1>2, <1>i DEF dispatch_take
  <2>6. \A w \in Workers : w # i => response_flag'[w] = response_flag[w]
    BY ZenonT(30), <2>5, <1>h
  <2>7. ASSUME NEW w \in Workers, HasTask(w)', TaskOf(w)'.mbuf \in replied' PROVE Ending(w)'
    <3>1. w # i
      BY ZenonT(60), <2>3, <2>4, <2>7, <1>u
    <3>2. HasTask(w) /\ TaskOf(w).mbuf \in replied
      BY ZenonT(60), <1>u, <2>4, <2>7, <3>1 DEF SameTask
    <3>3. Ending(w)
      BY Zenon, <3>2 DEF AnswerInv
    <3> QED
      BY ZenonT(60), <1>u, <2>6, <3>1, <3>3 DEF Ending
  <2> QED
    BY ZenonT(60), <2>2, <2>7, AnswerParts
<1>3. CASE \/ packet_drop \/ give_buffer \/ \E c \in Ctx : packet_queue(c)
  <2>1. \A k \in {"recv", "batch", "queued"} : Unanswered(k)'
    <3>1. CASE packet_drop
      BY ZenonT(60), <1>u, <3>1, PacketDropMoves, MovesUnanswered
    <3>2. CASE give_buffer
      BY ZenonT(60), <1>u, <3>2, GiveMoves, MovesUnanswered
    <3>3. ASSUME NEW c \in Ctx, packet_queue(c)
          PROVE  \A k \in {"recv", "batch", "queued"} : Unanswered(k)'
      <4>1. Moves(pkts[disp_k], "batch", "queued")
        BY ZenonT(60), <1>u, <3>3, PacketQueueMoves
      <4>2. pkts[disp_k] \notin replied
        BY ZenonT(30), <4>1 DEF Moves, Loses, AnswerInv
      <4> QED
        BY ZenonT(60), <1>u, <4>1, <4>2, MovesUnanswered
    <3> QED
      BY ZenonT(60), <1>3, <3>1, <3>2, <3>3
  <2>2. UNCHANGED <<work_pc, response_flag, request, response, disp_pc, disp_w, disp_task>>
    BY Zenon, <1>3, <1>u DEF packet_drop, give_buffer, packet_queue
  <2>3. \A w \in Workers : SameTask(w)
    BY ZenonT(30), <2>2, NetworkerLeavesTasks
  <2> QED
    BY ZenonT(60), <1>u, <2>1, <2>2, <2>3, TasksUnanswered, AnswerParts
<1>4. CASE \/ handle_idle \/ preempt_worker \/ leave_running \/ dispatch_none
           \/ dispatch_fill \/ dispatch_activate \/ networker_check \/ packets_done
           \/ give_done
  <2>1. Still
    BY Zenon, <1>4, <1>u, DispatcherStill
  <2>2. \A k \in {"recv", "batch", "queued"} : Unanswered(k)'
    BY ZenonT(60), <1>u, <2>1, StillUnanswered
  <2>3. UNCHANGED <<response_flag, response, work_pc>>
    BY ZenonT(30), <1>4, <1>u DEF handle_idle, preempt_worker, leave_running, dispatch_none, dispatch_fill,
       dispatch_activate, networker_check, packets_done, give_done
  <2>4. \A w \in Workers : SameTask(w)
    <3>1. CASE dispatch_fill
      BY ZenonT(30), <3>1, <1>u, TaskStored DEF IInv
    <3>2. CASE ~dispatch_fill
      <4>1. UNCHANGED request /\ disp_pc # "fill" /\ disp_pc' # "fill"
        BY ZenonT(30), <1>4, <3>2 DEF handle_idle, preempt_worker, leave_running, dispatch_none,
           NextWorker, dispatch_activate, networker_check, packets_done, give_done
      <4> QED
        BY ZenonT(30), <2>3, <4>1, TasksLeft
    <3> QED
      BY ZenonT(30), <3>1, <3>2
  <2> QED
    BY ZenonT(30), <1>u, <2>2, <2>3, <2>4, TasksUnanswered, AnswerParts
<1> QED
  BY ZenonT(60), <1>1, <1>2, <1>3, <1>4 DEF DispatcherStep, DispatcherNext

(* The request a worker has in its slot between take_request and its report is
   its task.                                                                  *)
LEMMA SlotIsTask ==
  ASSUME IInv, NEW w \in Workers,
         work_pc[w] \in {"take", "enter", "run", "reply", "sent", "report", "flag"}
  PROVE  /\ HasTask(w) /\ TaskOf(w) = request[w] /\ request[w].mbuf \in Mbuf
         /\ response_flag[w] = "RUNNING"
<1>1. /\ response_flag[w] = "RUNNING" /\ ~(disp_pc = "fill" /\ disp_w = w)
      /\ work_pc[w] # "init"
  BY Zenon DEF IInv, HandshakeInv
<1>2. HasTask(w) /\ TaskOf(w) = request[w]
  BY Zenon, <1>1 DEF HasTask, TaskOf
<1> QED
  BY ZenonT(30), <1>1, <1>2 DEF IInv, TasksInv, OwnedTask

(* Only send_reply answers, and only the request of the worker that runs it.   *)
LEMMA WorkerReplies ==
  ASSUME IInv, NEW w \in Workers, WorkerStep(w)
  PROVE  \/ UNCHANGED replied
         \/ /\ work_pc[w] = "reply" /\ work_pc'[w] = "sent"
            /\ replied' = replied \cup {request[w].mbuf}
<1>1. CASE \E ok \in BOOLEAN : send_reply(w, ok)
  <2>1. PICK ok \in BOOLEAN : send_reply(w, ok)
    BY ZenonT(30), <1>1
  <2> QED
    BY ZenonT(30), <2>1 DEF send_reply, Goto, IInv, HandshakeInv
<1>2. CASE ~\E ok \in BOOLEAN : send_reply(w, ok)
  BY ZenonT(60), <1>2 DEF WorkerStep, WorkerNext, init_worker, poll_request, take_request,
     handle_new_packet, handle_context, test_handler, work_done, end_work,
     finish_request, finish_flag
<1> QED
  BY ZenonT(30), <1>1, <1>2

(* A worker's steps: what it answers is its own task, which no queue and no
   other worker has.                                                          *)
LEMMA WorkerAnswers ==
  ASSUME IInv, BufferInv, AnswerInv, NEW w \in Workers, WorkerStep(w)
  PROVE  AnswerInv'
<1>1. Still
  BY Zenon, WorkerStill
<1>2. \A v \in Workers : SameTask(v)
  BY ZenonT(30), WorkerKeepsTask DEF IInv
<1>3. \A v \in Workers : v # w => UNCHANGED <<work_pc[v], response_flag[v], finished[v]>>
  BY ZenonT(30) DEF WorkerStep, WorkerNext, Goto, init_worker, poll_request, take_request,
     handle_new_packet, handle_context, test_handler, work_done, send_reply,
     end_work, finish_request, finish_flag, IInv, HandshakeInv, DataInv
<1>4. \A v \in Workers : Ending(v) => Ending(v)'
  <2>1. \A v \in Workers : v # w /\ Ending(v) => Ending(v)'
    BY Zenon, <1>3 DEF Ending
  <2> QED
    BY Zenon, <2>1, EndingKept
<1>5. CASE UNCHANGED replied
  <2>1. \A v \in Workers : HasTask(v)' /\ TaskOf(v)'.mbuf \in replied' => Ending(v)'
    BY ZenonT(60), <1>2, <1>4, <1>5 DEF SameTask, AnswerInv
  <2> QED
    BY ZenonT(60), <1>1, <1>5, <2>1, StillUnanswered, AnswerParts
<1>6. CASE /\ work_pc[w] = "reply" /\ work_pc'[w] = "sent"
           /\ replied' = replied \cup {request[w].mbuf}
  <2>1. HasTask(w) /\ TaskOf(w) = request[w] /\ request[w].mbuf \in Mbuf
    BY ZenonT(30), <1>6, SlotIsTask
  <2>2. HeldBy("given") = {p \in Mbuf : \E v \in Workers : HasTask(v) /\ TaskOf(v).mbuf = p}
    BY Zenon DEF HeldBy
  <2>3. request[w].mbuf \in HeldBy("given")
    BY ZenonT(60), <2>1, <2>2
  <2>4. \A k \in {"recv", "batch", "queued"} : Unanswered(k)'
    <3> SUFFICES ASSUME NEW k \in {"recv", "batch", "queued"} PROVE Unanswered(k)'
      OBVIOUS
    <3>1. k \in Holders /\ k # "given" /\ "given" \in Holders
      BY Zenon DEF Holders
    <3>2. request[w].mbuf \notin HeldBy(k)
      BY ZenonT(60), <2>1, <2>3, <3>1 DEF BufferInv
    <3>3. HeldBy(k)' = HeldBy(k) /\ HeldBy(k) \cap replied = {}
      BY Zenon, <1>1, <3>1 DEF Still, Same, AnswerInv
    <3> QED
      BY ZenonT(30), <1>6, <3>2, <3>3 DEF Unanswered
  <2>5. HeldOnce("given")
    BY Zenon DEF BufferInv, Holders
  <2>6. \A u, v \in Workers :
          HasTask(u) /\ HasTask(v) /\ TaskOf(u).mbuf = TaskOf(v).mbuf => u = v
    BY Zenon, <2>5 DEF HeldOnce
  <2>7. ASSUME NEW v \in Workers, HasTask(v)', TaskOf(v)'.mbuf \in replied' PROVE Ending(v)'
    <3>1. HasTask(v) /\ TaskOf(v)'.mbuf = TaskOf(v).mbuf
      BY ZenonT(60), <1>2, <2>7 DEF SameTask
    <3>2. CASE v = w
      BY ZenonT(30), <1>6, <3>2 DEF Ending
    <3>3. CASE v # w
      <4>1. TaskOf(v).mbuf # request[w].mbuf
        BY ZenonT(60), <2>1, <2>6, <3>1, <3>3
      <4>2. TaskOf(v).mbuf \in replied
        BY ZenonT(30), <1>6, <2>7, <3>1, <4>1
      <4> QED
        BY ZenonT(60), <1>4, <3>1, <4>2 DEF AnswerInv
    <3> QED
      BY ZenonT(30), <3>2, <3>3
  <2> QED
    BY ZenonT(60), <2>4, <2>7, AnswerParts
<1> QED
  BY ZenonT(60), <1>5, <1>6, WorkerReplies

(* The networker's steps: a received frame is a new request, not yet answered. *)
LEMMA NetworkerAnswers ==
  ASSUME IInv, CopyInv, BufferInv, AnswerInv, NetworkerStep
  PROVE  AnswerInv'
<1>u. UNCHANGED <<dispVars, workVars>>
  BY Zenon DEF NetworkerStep
<1>1. UNCHANGED <<work_pc, response_flag, request, response, disp_pc, disp_w, disp_task, finished>>
  BY Zenon, NetworkerFrame
<1>2. \A w \in Workers : SameTask(w)
  BY ZenonT(30), <1>1, NetworkerLeavesTasks
<1>3. ASSUME replied' \subseteq replied
      PROVE  \A w \in Workers : HasTask(w)' /\ TaskOf(w)'.mbuf \in replied' => Ending(w)'
  <2> SUFFICES ASSUME NEW w \in Workers, HasTask(w)', TaskOf(w)'.mbuf \in replied'
               PROVE  Ending(w)'
    OBVIOUS
  <2>1. HasTask(w) /\ TaskOf(w).mbuf \in replied
    BY Zenon, <1>2, <1>3 DEF SameTask
  <2>2. Ending(w)
    BY Zenon, <2>1 DEF AnswerInv
  <2> QED
    BY Zenon, <1>1, <2>2 DEF Ending
<1>4. ASSUME NEW p \in Mbuf, NEW t \in Types, recv_frame(p, t) PROVE AnswerInv'
  <2>1. Moves(p, "pool", "recv")
    BY ZenonT(60), <1>4, <1>u, RecvMoves
  <2>2. replied' = replied \ {p}
    BY ZenonT(30), <1>4 DEF recv_frame
  <2>3. \A k \in {"recv", "batch", "queued"} : HeldBy(k)' \subseteq HeldBy(k) \cup {p}
    BY Zenon, <2>1 DEF Moves, Gains, Same, Holders
  <2>4. \A k \in {"recv", "batch", "queued"} : Unanswered(k)'
    BY ZenonT(30), <2>2, <2>3 DEF Unanswered, AnswerInv
  <2> QED
    BY ZenonT(60), <1>3, <2>2, <2>4, AnswerParts
<1>5. CASE publish
  <2>1. Published /\ UNCHANGED replied
    BY ZenonT(30), <1>5, <1>u, PublishMoves DEF publish
  <2>2. \A k \in {"recv", "batch", "queued"} : Unanswered(k)'
    BY Zenon, <2>1 DEF Published, Same, Unanswered, AnswerInv, Holders
  <2> QED
    BY ZenonT(60), <1>3, <2>1, <2>2, AnswerParts
<1>6. CASE mbuf_free
  <2>1. Moves(pkts[net_k], "back", "pool") /\ UNCHANGED replied
    BY ZenonT(30), <1>6, <1>u, FreeMoves DEF mbuf_free
  <2>2. \A k \in {"recv", "batch", "queued"} : Unanswered(k)'
    BY ZenonT(30), <2>1, MovesUnanswered
  <2> QED
    BY ZenonT(60), <1>3, <2>1, <2>2, AnswerParts
<1>7. CASE recv_done \/ wait_dispatcher \/ free_done \/ fill_packet
  <2>1. Still /\ UNCHANGED replied
    BY ZenonT(30), <1>7, <1>u, NetworkerStill DEF recv_done, wait_dispatcher, free_done, fill_packet
  <2> QED
    BY ZenonT(60), <1>3, <2>1, StillUnanswered, AnswerParts
<1> QED
  BY ZenonT(60), <1>4, <1>5, <1>6, <1>7 DEF NetworkerStep, NetworkerNext, NetworkerLoop

(* An answered request is at most on its way to the end of its report.        *)
THEOREM AnswerInvariant == Spec => []AnswerInv
<1>1. Init => AnswerInv
  BY Zenon DEF Init, DispatchInit, AnswerInv
<1>2. IInv /\ CopyInv /\ BufferInv /\ AnswerInv /\ [Next]_vars => AnswerInv'
  <2> SUFFICES ASSUME IInv, CopyInv, BufferInv, AnswerInv, [Next]_vars PROVE AnswerInv'
    OBVIOUS
  <2>1. CASE UNCHANGED vars
    <3>1. UNCHANGED <<replied, work_pc, finished, response_flag, request, response, disp_pc,
                      disp_w, disp_task>>
      BY ZenonT(30), <2>1 DEF vars
    <3>2. Still /\ \A w \in Workers : SameTask(w)
      BY ZenonT(30), <2>1, <3>1, StutterStill, NetworkerLeavesTasks
    <3> QED
      BY ZenonT(60), <3>1, <3>2, StillUnanswered, TasksUnanswered, AnswerParts
  <2> QED
    BY ZenonT(60), <2>1, DispatcherAnswers, WorkerAnswers, NetworkerAnswers DEF Next
<1> QED
  BY <1>1, <1>2, InductiveInvariant, BufferInvariant, PTL DEF Spec

(* A request that was answered is never queued or run again: no preemption hits
   between send_reply and the end of the request.                             *)
THEOREM NeverRunAgain == Spec => []AnsweredOnce
<1>1. IInv /\ AnswerInv => AnsweredOnce
  <2> SUFFICES ASSUME IInv, AnswerInv PROVE AnsweredOnce
    BY Zenon 
  <2>1. ASSUME NEW t \in Types, NEW j \in DOMAIN tskq[t] PROVE tskq[t][j].mbuf \notin replied
    <3>1. tskq[t] \in Seq(OwnedTask) /\ j \in 1 .. Len(tskq[t])
      BY DEF IInv, TasksInv
    <3>2. tskq[t][j] \in OwnedTask
      BY ZenonT(60), <3>1, ElementType
    <3>3. tskq[t][j].mbuf \in Mbuf
      BY Zenon, <3>2 DEF OwnedTask
    <3>4. HeldBy("queued") = {p \in Mbuf : \E u \in Types :
                                \E i \in 1 .. Len(tskq[u]) : tskq[u][i].mbuf = p}
      BY Zenon DEF HeldBy
    <3>5. tskq[t][j].mbuf \in HeldBy("queued")
      BY ZenonT(60), <3>1, <3>3, <3>4
    <3> QED
      BY ZenonT(30), <3>5 DEF AnswerInv
  <2>2. ASSUME NEW w \in Workers, work_pc[w] \in {"enter", "run", "reply"}
        PROVE  request[w].mbuf \notin replied
    <3>1. HasTask(w) /\ TaskOf(w) = request[w] /\ response_flag[w] = "RUNNING"
      BY ZenonT(30), <2>2, SlotIsTask
    <3>2. ~Ending(w)
      BY ZenonT(30), <2>2, <3>1 DEF Ending
    <3> QED
      BY ZenonT(60), <3>1, <3>2 DEF AnswerInv
  <2> QED
    BY Zenon, <2>1, <2>2 DEF AnsweredOnce
<1> QED
  BY <1>1, InductiveInvariant, AnswerInvariant, PTL

-----------------------------------------------------------------------------
(* The stage of a request follows from who holds its buffer.                  *)
Stage(k) ==
  CASE k = "pool" -> "pool"
    [] k = "recv" -> "received"
    [] k = "batch" -> "received"
    [] k = "queued" -> "waiting"
    [] k = "given" -> "running"
    [] k = "mqueue" -> "done"
    [] k = "back" -> "done"

StatusRight == \A k \in Holders : \A p \in HeldBy(k) : StatusOf(p) = Stage(k)

(* The place of holder k tells the stage.                                     *)
StageAt(pl) ==
  CASE pl[1] = "mbuf_pool" -> "pool"
    [] pl[1] = "recv" -> "received"
    [] pl[1] = "pkts" -> IF Unqueued(pl[2]) THEN "received" ELSE "done"
    [] pl[1] = "tskq" -> "waiting"
    [] pl[1] = "mqueue" -> "done"
    [] OTHER -> "running"

(* A slot of networker_pointers is on its way to a queue or back to the pool,
   not both, so every place of a holder has the holder's stage.               *)
LEMMA PlaceStage ==
  ASSUME IInv, NEW k \in Holders, NEW pl, PlaceIn(k, pl)
  PROVE  StageAt(pl) = Stage(k)
<1>1. CASE k = "pool"
  <2>1. PICK p \in Mbuf : pl = <<"mbuf_pool", p, 1>>
    BY Zenon, <1>1 DEF PlaceIn
  <2> QED
    BY ZenonT(30), <1>1, <2>1 DEF StageAt, Stage
<1>2. CASE k = "recv"
  <2>1. PICK j \in 1 .. Len(net_recv) : pl = <<"recv", j, 0>>
    BY Zenon, <1>2 DEF PlaceIn
  <2> QED
    BY ZenonT(30), <1>2, <2>1 DEF StageAt, Stage
<1>3. CASE k = "batch"
  <2>1. PICK i \in Slots : Unqueued(i) /\ pl = <<"pkts", i, 0>>
    BY Zenon, <1>3 DEF PlaceIn
  <2> QED
    BY ZenonT(30), <1>3, <2>1 DEF StageAt, Stage
<1>4. CASE k = "queued"
  <2>1. PICK t \in Types : \E j \in DOMAIN tskq[t] : pl = <<"tskq", t, j>>
    BY Zenon, <1>4 DEF PlaceIn
  <2> QED
    BY SMTT(30), <1>4, <2>1 DEF StageAt, Stage
<1>5. CASE k = "given"
  <2>1. PICK w \in Workers : pl = WorkerPlace(w)
    BY Zenon, <1>5 DEF PlaceIn
  <2> QED
    BY ZenonT(30), <1>5, <2>1 DEF StageAt, Stage, WorkerPlace
<1>6. CASE k = "mqueue"
  <2>1. PICK j \in 1 .. Len(mqueue) : pl = <<"mqueue", j, 0>>
    BY Zenon, <1>6 DEF PlaceIn
  <2> QED
    BY ZenonT(30), <1>6, <2>1 DEF StageAt, Stage
<1>7. CASE k = "back"
  <2>1. PICK i \in Slots : GivenBack(i) /\ pl = <<"pkts", i, 0>>
    BY ZenonT(60), <1>7 DEF PlaceIn
  <2>2. i \in Nat /\ ~Unqueued(i)
    BY SMTT(30), <2>1 DEF Slots, GivenBack, Unqueued, IInv, PointersInv
  <2> QED
    BY ZenonT(30), <1>7, <2>1, <2>2 DEF StageAt, Stage
<1> QED
  BY ZenonT(60), <1>1, <1>2, <1>3, <1>4, <1>5, <1>6, <1>7 DEF Holders

(* StatusOf is the stage of the buffer's holder.                              *)
LEMMA StatusHolds == IInv /\ CopyInv /\ BufferInv => StatusRight
<1> SUFFICES ASSUME IInv, CopyInv, BufferInv, NEW k \in Holders, NEW p \in HeldBy(k)
             PROVE  StatusOf(p) = Stage(k)
  BY Zenon DEF StatusRight
<1> DEFINE at == CHOOSE q \in BufferPlaces : BufferAt(q) = p
<1>1. PICK pl \in BufferPlaces :
        PlaceIn(k, pl) /\ \A q \in BufferPlaces : BufferAt(q) = p <=> q = pl
  BY Zenon, PlaceOfBuffer
<1>2. at = pl
  BY Zenon, <1>1
<1>3. StatusOf(p) = StageAt(at)
  BY Zenon DEF StatusOf, StageAt
<1> HIDE DEF at
<1> QED
  BY ZenonT(30), <1>1, <1>2, <1>3, PlaceStage

(* How the status of the requests changes with the holders.                   *)
statusMap == [p \in Mbuf |-> StatusOf(p)]

Mapped == BufferInv /\ StatusRight

(* A buffer that moves takes its request to the stage of its new holder.      *)
LEMMA StatusMoves ==
  ASSUME Mapped, Mapped', NEW p, NEW from, NEW to, Moves(p, from, to)
  PROVE  /\ p \in Mbuf /\ statusMap[p] = Stage(from)
         /\ statusMap' = [statusMap EXCEPT ![p] = Stage(to)]
<1>1. /\ p \in Mbuf /\ from \in Holders /\ to \in Holders /\ p \in HeldBy(from)
      /\ HeldBy(to)' = HeldBy(to) \cup {p} /\ HeldBy(from)' = HeldBy(from) \ {p}
      /\ \A k \in Holders : k # from /\ k # to => HeldBy(k)' = HeldBy(k)
  BY Zenon DEF Mapped, BufferInv, Moves, Loses, Gains, Same
<1>2. StatusOf(p) = Stage(from)
  BY Zenon, <1>1 DEF Mapped, StatusRight
<1>3. StatusOf(p)' = Stage(to)
  <2>1. p \in HeldBy(to)'
    BY Zenon, <1>1
  <2>2. \A k \in Holders : \A q \in HeldBy(k)' : StatusOf(q)' = Stage(k)
    BY Zenon DEF Mapped, StatusRight, Stage
  <2> QED
    BY Zenon, <1>1, <2>1, <2>2
<1>4. ASSUME NEW q \in Mbuf, q # p PROVE StatusOf(q)' = StatusOf(q)
  <2>1. PICK k \in Holders : q \in HeldBy(k)
    BY Zenon DEF Mapped, BufferInv
  <2>2. q \in HeldBy(k)'
    BY ZenonT(30), <1>1, <1>4, <2>1
  <2>3. \A l \in Holders : \A r \in HeldBy(l)' : StatusOf(r)' = Stage(l)
    BY Zenon DEF Mapped, StatusRight, Stage
  <2>4. StatusOf(q) = Stage(k)
    BY Zenon, <2>1 DEF Mapped, StatusRight
  <2> QED
    BY ZenonT(30), <2>1, <2>2, <2>3, <2>4
<1> QED
  BY Zenon, <1>1, <1>2, <1>3, <1>4 DEF statusMap

(* Requests whose buffers stay with their holders keep their stage.           *)
LEMMA StatusStays ==
  ASSUME Mapped, Mapped', Still
  PROVE  statusMap' = statusMap
<1>1. \A k \in Holders : \A q \in HeldBy(k)' : StatusOf(q)' = Stage(k)
  BY Zenon DEF Mapped, StatusRight, Stage
<1>2. ASSUME NEW q \in Mbuf PROVE StatusOf(q)' = StatusOf(q)
  <2>1. PICK k \in Holders : q \in HeldBy(k)
    BY Zenon DEF Mapped, BufferInv
  <2>2. q \in HeldBy(k)'
    BY ZenonT(30), <2>1 DEF Still, Same
  <2> QED
    BY Zenon, <1>1, <2>1, <2>2 DEF Mapped, StatusRight
<1> QED
  BY Zenon, <1>2 DEF statusMap

(* publish hands over received requests, which are still only received.       *)
LEMMA StatusPublished ==
  ASSUME Mapped, Mapped', Published
  PROVE  statusMap' = statusMap
<1>1. \A k \in Holders : \A q \in HeldBy(k)' : StatusOf(q)' = Stage(k)
  BY Zenon DEF Mapped, StatusRight, Stage
<1>2. ASSUME NEW q \in Mbuf PROVE StatusOf(q)' = StatusOf(q)
  <2>1. PICK k \in Holders : q \in HeldBy(k)
    BY Zenon DEF Mapped, BufferInv
  <2>2. StatusOf(q) = Stage(k)
    BY Zenon, <2>1 DEF Mapped, StatusRight
  <2>3. CASE k = "recv"
    <3>1. q \in HeldBy("batch")' /\ "batch" \in Holders
      BY Zenon, <2>1, <2>3 DEF Published, Holders
    <3>2. Stage("batch") = Stage("recv")
      BY Zenon DEF Stage
    <3> QED
      BY ZenonT(30), <1>1, <2>2, <2>3, <3>1, <3>2
  <2>4. CASE k # "recv"
    <3>1. k # "batch"
      BY Zenon, <2>1 DEF Published
    <3>2. q \in HeldBy(k)'
      BY ZenonT(60), <2>1, <2>4, <3>1 DEF Published, Same
    <3> QED
      BY ZenonT(60), <1>1, <2>1, <2>2, <3>2
  <2> QED
    BY ZenonT(30), <2>3, <2>4
<1> QED
  BY Zenon, <1>2 DEF statusMap

(* While a worker has no request, fewer than NumWorkers requests run: each
   request that runs is at a worker of its own.                               *)
LEMMA RoomToRun ==
  ASSUME Mapped, NEW i \in Workers, ~HasTask(i)
  PROVE  Lifecycle!Cardinality(Lifecycle!Running) < NumWorkers
<1> DEFINE R == HeldBy("given")
           f == [p \in R |-> CHOOSE w \in Workers : HasTask(w) /\ TaskOf(w).mbuf = p]
<1>1. R = {p \in Mbuf : \E w \in Workers : HasTask(w) /\ TaskOf(w).mbuf = p}
  BY Zenon DEF HeldBy
<1>2. \A p \in R : f[p] \in Workers /\ HasTask(f[p]) /\ TaskOf(f[p]).mbuf = p
  BY Zenon, <1>1
<1>3. f \in Injection(R, Workers \ {i})
  <2>1. \A p \in R : f[p] \in Workers \ {i}
    BY <1>2
  <2>2. f \in [R -> Workers \ {i}]
    BY Zenon, <2>1
  <2>3. \A p, q \in R : f[p] = f[q] => p = q
    BY ZenonT(60), <1>2
  <2> HIDE DEF f, R
  <2> QED
    BY ZenonT(30), <2>2, <2>3 DEF Injection, IsInjective
<1>4. IsFiniteSet(Workers) /\ Cardinality(Workers) = NumWorkers
  BY SMTT(30), DispatchAssumption, FS_Interval DEF Workers
<1>5. IsFiniteSet(Workers \ {i}) /\ Cardinality(Workers \ {i}) = NumWorkers - 1
  BY Zenon, <1>4, FS_RemoveElement
<1> HIDE DEF f
<1>6. IsFiniteSet(R) /\ Cardinality(R) <= NumWorkers - 1
  BY SMTT(30), <1>3, <1>5, FS_Injection
<1>7. Lifecycle!Running = R
  <2>1. ASSUME NEW p \in Mbuf PROVE StatusOf(p) = "running" <=> p \in R
    <3>1. PICK k \in Holders : \A l \in Holders : p \in HeldBy(l) <=> l = k
      BY Zenon DEF Mapped, BufferInv
    <3>2. StatusOf(p) = Stage(k)
      BY Zenon, <3>1 DEF Mapped, StatusRight
    <3>3. Stage(k) = "running" <=> k = "given"
      BY Zenon DEF Stage, Holders
    <3> QED
      BY ZenonT(60), <3>1, <3>2, <3>3 DEF Holders
  <2>2. R \subseteq Mbuf
    BY Zenon, <1>1
  <2> HIDE DEF R
  <2> QED
    BY Zenon, <2>1, <2>2 DEF Lifecycle!Running
<1>8. Lifecycle!Cardinality(R) = Cardinality(R)
  BY Zenon DEF Cardinality, Lifecycle!Cardinality
<1> HIDE DEF R
<1> QED
  BY SMTT(30), <1>6, <1>7, <1>8, FS_CardinalityType, DispatchAssumption

(* The dispatcher finishes, requeues, starts, admits and refuses requests; its
   other steps are not steps of the life cycle.                               *)
LEMMA DispatcherImplements ==
  ASSUME IInv, AnswerInv, Mapped, Mapped', DispatcherStep
  PROVE  Lifecycle!Next \/ UNCHANGED <<statusMap, replied>>
<1>u. UNCHANGED <<frameVars, workVars, netVars>> /\ UNCHANGED replied
  BY ZenonT(30) DEF DispatcherStep
<1>i. PICK i \in Workers : i = disp_w
  BY ZenonT(30) DEF IInv, HandshakeInv
<1>1. CASE handle_finished
  <2>1. Moves(response[i].mbuf, "given", "mqueue")
    BY ZenonT(60), <1>u, <1>i, <1>1, FinishedMoves
  <2>2. Stage("given") = "running" /\ Stage("mqueue") = "done"
    BY Zenon DEF Stage
  <2>3. response[i].mbuf \in Mbuf /\ Lifecycle!Finish(response[i].mbuf)
    BY ZenonT(60), <1>u, <2>1, <2>2, StatusMoves DEF Lifecycle!Finish, Lifecycle!Move, statusMap
  <2> QED
    BY Zenon, <2>3 DEF Lifecycle!Next
<1>2. CASE handle_preempted
  <2>1. Moves(response[i].mbuf, "given", "queued")
    BY ZenonT(60), <1>u, <1>i, <1>2, PreemptedMoves
  <2>2. Stage("given") = "running" /\ Stage("queued") = "waiting"
    BY Zenon DEF Stage
  <2>3. response[i].mbuf \notin replied
    BY ZenonT(60), <1>i, <1>2, PreemptedUnanswered
  <2>4. response[i].mbuf \in Mbuf /\ Lifecycle!Preempt(response[i].mbuf)
    BY ZenonT(60), <1>u, <2>1, <2>2, <2>3, StatusMoves
       DEF Lifecycle!Preempt, Lifecycle!Move, statusMap
  <2> QED
    BY Zenon, <2>4 DEF Lifecycle!Next
<1>3. ASSUME NEW t \in Types, dispatch_take(t) PROVE Lifecycle!Next
  <2>1. Moves(Head(tskq[t]).mbuf, "queued", "given")
    BY ZenonT(60), <1>3, <1>u, TakeMoves
  <2>2. Stage("queued") = "waiting" /\ Stage("given") = "running"
    BY ZenonT(30) DEF Stage
  <2>3. ~HasTask(i)
    BY ZenonT(30), <1>3, <1>i DEF dispatch_take, HasTask, IInv, HandshakeInv
  <2>4. Lifecycle!Cardinality(Lifecycle!Running) < NumWorkers
    BY ZenonT(30), <2>3, RoomToRun
  <2>5. Head(tskq[t]).mbuf \in Mbuf /\ Lifecycle!Start(Head(tskq[t]).mbuf)
    BY ZenonT(60), <1>u, <2>1, <2>2, <2>4, StatusMoves DEF Lifecycle!Start, Lifecycle!Move, statusMap
  <2> QED
    BY Zenon, <2>5 DEF Lifecycle!Next
<1>4. ASSUME NEW c \in Ctx, packet_queue(c) PROVE Lifecycle!Next
  <2>1. Moves(pkts[disp_k], "batch", "queued")
    BY ZenonT(60), <1>u, <1>4, PacketQueueMoves
  <2>2. Stage("batch") = "received" /\ Stage("queued") = "waiting"
    BY Zenon DEF Stage
  <2>3. pkts[disp_k] \in Mbuf /\ Lifecycle!Admit(pkts[disp_k])
    BY ZenonT(60), <1>u, <2>1, <2>2, StatusMoves DEF Lifecycle!Admit, Lifecycle!Move, statusMap
  <2> QED
    BY Zenon, <2>3 DEF Lifecycle!Next
<1>5. CASE packet_drop
  <2>1. Moves(pkts[disp_k], "batch", "mqueue")
    BY ZenonT(60), <1>u, <1>5, PacketDropMoves
  <2>2. Stage("batch") = "received" /\ Stage("mqueue") = "done"
    BY Zenon DEF Stage
  <2>3. pkts[disp_k] \in Mbuf /\ Lifecycle!Refuse(pkts[disp_k])
    BY ZenonT(60), <1>u, <2>1, <2>2, StatusMoves DEF Lifecycle!Refuse, Lifecycle!Move, statusMap
  <2> QED
    BY Zenon, <2>3 DEF Lifecycle!Next
<1>6. CASE give_buffer
  <2>1. Moves(Head(mqueue), "mqueue", "back")
    BY ZenonT(60), <1>u, <1>6, GiveMoves
  <2>2. Stage("mqueue") = "done" /\ Stage("back") = "done"
    BY Zenon DEF Stage
  <2>3. /\ Head(mqueue) \in Mbuf /\ statusMap[Head(mqueue)] = "done"
        /\ statusMap' = [statusMap EXCEPT ![Head(mqueue)] = "done"]
    BY ZenonT(60), <2>1, <2>2, StatusMoves
  <2>4. statusMap' = statusMap
    BY ZenonT(60), <2>3 DEF statusMap
  <2> QED
    BY Zenon, <1>u, <2>4
<1>7. CASE \/ handle_idle \/ preempt_worker \/ leave_running \/ dispatch_none
           \/ dispatch_fill \/ dispatch_activate \/ networker_check \/ packets_done
           \/ give_done
  <2>1. Still
    BY Zenon, <1>7, <1>u, DispatcherStill
  <2> QED
    BY Zenon, <1>u, <2>1, StatusStays
<1> QED
  BY ZenonT(60), <1>1, <1>2, <1>3, <1>4, <1>5, <1>6, <1>7 DEF DispatcherStep, DispatcherNext

(* A worker answers its own request, which nobody has answered before.        *)
LEMMA WorkerImplements ==
  ASSUME IInv, AnswerInv, Mapped, Mapped', NEW w \in Workers, WorkerStep(w)
  PROVE  Lifecycle!Next \/ UNCHANGED <<statusMap, replied>>
<1>1. statusMap' = statusMap
  BY Zenon, WorkerStill, StatusStays
<1>2. CASE UNCHANGED replied
  BY Zenon, <1>1, <1>2
<1>3. CASE /\ work_pc[w] = "reply" /\ work_pc'[w] = "sent"
           /\ replied' = replied \cup {request[w].mbuf}
  <2>1. /\ HasTask(w) /\ TaskOf(w) = request[w] /\ request[w].mbuf \in Mbuf
        /\ response_flag[w] = "RUNNING"
    BY ZenonT(30), <1>3, SlotIsTask
  <2>2. request[w].mbuf \notin replied
    <3>1. ~Ending(w)
      BY ZenonT(30), <1>3, <2>1 DEF Ending
    <3> QED
      BY ZenonT(60), <2>1, <3>1 DEF AnswerInv
  <2>3. StatusOf(request[w].mbuf) = "running"
    <3>1. HeldBy("given") = {p \in Mbuf : \E v \in Workers : HasTask(v) /\ TaskOf(v).mbuf = p}
      BY Zenon DEF HeldBy
    <3>2. request[w].mbuf \in HeldBy("given") /\ "given" \in Holders
      BY ZenonT(60), <2>1, <3>1 DEF Holders
    <3>3. Stage("given") = "running"
      BY Zenon DEF Stage
    <3> QED
      BY ZenonT(60), <3>2, <3>3 DEF Mapped, StatusRight
  <2>4. Lifecycle!Answer(request[w].mbuf)
    BY ZenonT(60), <1>1, <1>3, <2>1, <2>2, <2>3 DEF Lifecycle!Answer, statusMap
  <2> QED
    BY ZenonT(60), <2>1, <2>4 DEF Lifecycle!Next
<1> QED
  BY Zenon, <1>2, <1>3, WorkerReplies

(* The networker receives requests and returns buffers to the pool.           *)
LEMMA NetworkerImplements ==
  ASSUME IInv, CopyInv, Mapped, Mapped', NetworkerStep
  PROVE  Lifecycle!Next \/ UNCHANGED <<statusMap, replied>>
<1>u. UNCHANGED <<dispVars, workVars>>
  BY Zenon DEF NetworkerStep
<1>1. ASSUME NEW p \in Mbuf, NEW t \in Types, recv_frame(p, t) PROVE Lifecycle!Next
  <2>1. Moves(p, "pool", "recv") /\ replied' = replied \ {p}
    BY Zenon, <1>1, <1>u, RecvMoves DEF recv_frame
  <2>2. Stage("pool") = "pool" /\ Stage("recv") = "received"
    BY Zenon DEF Stage
  <2>3. Lifecycle!Receive(p)
    BY ZenonT(60), <2>1, <2>2, StatusMoves DEF Lifecycle!Receive, Lifecycle!Move, statusMap
  <2> QED
    BY Zenon, <2>3 DEF Lifecycle!Next
<1>2. CASE mbuf_free
  <2>1. Moves(pkts[net_k], "back", "pool") /\ UNCHANGED replied
    BY ZenonT(60), <1>2, <1>u, FreeMoves DEF mbuf_free
  <2>2. Stage("back") = "done" /\ Stage("pool") = "pool"
    BY Zenon DEF Stage
  <2>3. pkts[net_k] \in Mbuf /\ Lifecycle!Return(pkts[net_k])
    BY ZenonT(60), <2>1, <2>2, StatusMoves DEF Lifecycle!Return, Lifecycle!Move, statusMap
  <2> QED
    BY Zenon, <2>3 DEF Lifecycle!Next
<1>3. CASE publish
  <2>1. Published /\ UNCHANGED replied
    BY ZenonT(30), <1>3, <1>u, PublishMoves DEF publish
  <2> QED
    BY ZenonT(60), <2>1, StatusPublished
<1>4. CASE recv_done \/ wait_dispatcher \/ free_done \/ fill_packet
  <2>1. Still /\ UNCHANGED replied
    BY ZenonT(30), <1>4, <1>u, NetworkerStill DEF recv_done, wait_dispatcher, free_done, fill_packet
  <2> QED
    BY Zenon, <2>1, StatusStays
<1> QED
  BY ZenonT(60), <1>1, <1>2, <1>3, <1>4 DEF NetworkerStep, NetworkerNext, NetworkerLoop

(* Initially all buffers are in the pool.                                     *)
LEMMA InitImplements == Init /\ Mapped => Lifecycle!Init
<1> SUFFICES ASSUME Init, Mapped PROVE Lifecycle!Init
  OBVIOUS
<1>1. mbuf_pool = [p \in Mbuf |-> 1] /\ replied = {}
  BY Zenon DEF Init, DispatchInit, NetworkerInit
<1>2. HeldBy("pool") = {p \in Mbuf : mbuf_pool[p] # 0}
  BY Zenon DEF HeldBy
<1>3. Mbuf \subseteq HeldBy("pool") /\ "pool" \in Holders
  BY SMTT(30), <1>1, <1>2 DEF Holders
<1>4. Stage("pool") = "pool"
  BY Zenon DEF Stage
<1>5. \A p \in Mbuf : StatusOf(p) = "pool"
  BY ZenonT(60), <1>3, <1>4 DEF Mapped, StatusRight
<1> QED
  BY ZenonT(60), <1>1, <1>5 DEF Lifecycle!Init

(* The cores together implement the request's life cycle: whatever the order of
   the dispatcher's, the workers' and the networker's steps, at most NumWorkers
   requests run at once, each is answered at most once and none is queued after
   its answer, and a buffer returns to the pool only when its request is over. *)
THEOREM ImplementsLifecycle == Spec => LifecycleSpec
<1>1. Init /\ Mapped => Lifecycle!Init
  BY ZenonT(30), InitImplements
<1>2. /\ IInv /\ CopyInv /\ AnswerInv /\ Mapped /\ Mapped'
      /\ [Next]_vars
      => [Lifecycle!Next]_<<[p \in Mbuf |-> StatusOf(p)], replied>>
  <2> SUFFICES ASSUME IInv, CopyInv, AnswerInv, Mapped, Mapped', [Next]_vars
               PROVE  Lifecycle!Next \/ UNCHANGED <<statusMap, replied>>
    BY Zenon DEF statusMap
  <2>1. CASE UNCHANGED vars
    <3>1. Still /\ UNCHANGED replied
      BY ZenonT(30), <2>1, StutterStill DEF vars
    <3> QED
      BY ZenonT(60), <3>1, StatusStays
  <2> QED
    BY ZenonT(60), <2>1, DispatcherImplements, WorkerImplements, NetworkerImplements DEF Next
<1>3. IInv /\ CopyInv /\ BufferInv => Mapped
  BY Zenon, StatusHolds DEF Mapped
<1> QED
  BY <1>1, <1>2, <1>3, InductiveInvariant, BufferInvariant, AnswerInvariant, PTL
     DEF Spec, LifecycleSpec, Lifecycle!Spec
=============================================================================
