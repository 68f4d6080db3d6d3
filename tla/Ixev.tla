-------------------------------- MODULE Ixev --------------------------------
(***************************************************************************)
(* The event library of applications, libix: one connection of              *)
(* libix/ixev.c, which copies or references what it sends, batches its      *)
(* calls, retries what the kernel did not take and releases buffers as the  *)
(* peer acknowledges them; and the receive ring.  Data are positions in the *)
(* byte stream of each direction.                                           *)
(***************************************************************************)
EXTENDS Integers, SequencesExt

CONSTANTS
  BufSize,      \* BUF_SIZE
  Bufs,         \* ixev_buf_pool
  WinSize,      \* IXEV_SEND_WIN_SIZE
  SendDepth,    \* IXEV_SEND_DEPTH
  RecvDepth,    \* IXEV_RECV_DEPTH
  MaxLen,       \* max_len of karr
  SndBuf,       \* room in the pcb
  Sizes,        \* lengths the application sends and reads
  MaxSend, MaxRecv, \* bytes in each direction
  ZeroCopy,     \* the application also reads without copying
  Others,       \* calls for other connections in a batch
  WriteFails    \* tcp_write may run out of memory

(* What the constants are.                                                  *)
IxevAssumption ==
  {BufSize, WinSize, SendDepth, RecvDepth, MaxLen, SndBuf, Others, MaxSend, MaxRecv} \subseteq Nat

VARIABLES
  send,       \* ctx->send, up to send_count: [buf, pos, len]
  send_total, sent_total,
  refs,       \* ref_head .. ref_tail: [buf, pos]
  cur_buf,    \* 0: none
  bufs, pool, \* the stream positions in each buffer, the free buffers
  karr, len,  \* the batch: call of each descriptor
  sendv_desc, recv_done_desc, \* descriptors of the connection in this batch, 0: none
  is_dead, released,
  recv, recv_head, recv_tail, \* the receive ring: [pos, len]
  arrived, read, done,        \* stream received, read by the application, acknowledged
  uarr, where,
  pcb         \* the kernel: [alive, taken, acked]

sendv == <<send, send_total, refs, cur_buf, bufs, pool>>
batch == <<karr, len, sendv_desc, recv_done_desc>>
ring == <<recv, recv_head, recv_tail, arrived, read, done>>
vars == <<sendv, sent_total, batch, ring, is_dead, released, uarr, where, pcb>>

NoDesc == [call |-> "none", n |-> 0]

(* ixev_ctx_init.  The ring is not cleared: new memory.                     *)
Init ==
  /\ send = <<>> /\ send_total = 0 /\ sent_total = 0 /\ refs = <<>> /\ cur_buf = 0
  /\ bufs = [b \in Bufs |-> [from |-> 0, to |-> 0]] /\ pool = Bufs
  /\ karr = [i \in 1 .. MaxLen |-> NoDesc] /\ len = 0 /\ sendv_desc = 0 /\ recv_done_desc = 0
  /\ is_dead = FALSE /\ released = FALSE
  /\ recv = [i \in 0 .. RecvDepth - 1 |-> [pos |-> 0, len |-> 0]]
  /\ recv_head = 0 /\ recv_tail = 0 /\ arrived = 0 /\ read = 0 /\ done = 0
  /\ uarr = <<>> /\ where = "user" /\ pcb = [alive |-> TRUE, taken |-> 0, acked |-> 0]

User == where = "user" /\ ~released
Least(a, b) == IF a <= b THEN a ELSE b

-----------------------------------------------------------------------------
(* The batch.                                                               *)

(* __ixev_sendv: one descriptor for a batch, later calls rewrite it; it     *)
(* refers to ctx->send.                                                     *)
__ixev_sendv(count) ==
  IF sendv_desc = 0
  THEN /\ karr' = [karr EXCEPT ![len + 1] = [call |-> "sendv", n |-> count]]
       /\ len' = len + 1 /\ sendv_desc' = len'
  ELSE karr' = [karr EXCEPT ![sendv_desc].n = count] /\ UNCHANGED <<len, sendv_desc>>

(* __ixev_recv_done.                                                        *)
__ixev_recv_done(n) ==
  /\ IF recv_done_desc = 0
     THEN /\ karr' = [karr EXCEPT ![len + 1] = [call |-> "recv_done", n |-> n]]
          /\ len' = len + 1 /\ recv_done_desc' = len'
     ELSE karr' = [karr EXCEPT ![recv_done_desc].n = @ + n] /\ UNCHANGED <<len, recv_done_desc>>
  /\ UNCHANGED sendv_desc

(* ixev_check_hacks ends the program when the batch is full.                *)
ixev_check_hacks(desc) == desc # 0 \/ len + 1 < MaxLen

-----------------------------------------------------------------------------
(* Sending.                                                                 *)

(* ixev_window_len.                                                         *)
ixev_window_len(n) == Least(WinSize - send_total + sent_total, n)

(* ixev_send: first into the current buffer, then into new ones while       *)
(* there are entries and buffers.                                           *)
Hot == send # <<>> /\ cur_buf # 0

(* ixev_buf_store: how much of n fits.                                      *)
ixev_buf_store(n) == Least(n, BufSize - (bufs[cur_buf].to - bufs[cur_buf].from))

(* The buffers ixev_buf_alloc takes, ixev_buf_release of the references R.  *)
ixev_buf_alloc == SetToSortSeq(pool, <)
ixev_buf_release(R) == pool \cup ({refs[i].buf : i \in R} \ {0})

(* __ixev_add_sent_cb.                                                      *)
__ixev_add_sent_cb(rs, b, pos) == Append(rs, [buf |-> b, pos |-> pos])

(* ixev_next_entry.                                                         *)
ixev_next_entry(b, pos, n) == [buf |-> b, pos |-> pos, len |-> n]

Appended(n) ==
  [bufs |-> [bufs EXCEPT ![cur_buf].to = @ + n],
   refs |-> [i \in DOMAIN refs |-> IF refs[i].buf = cur_buf THEN [refs[i] EXCEPT !.pos = send_total + n]
                                   ELSE refs[i]]]

ixev_send(n) ==
  LET actual == ixev_window_len(n)
      store == IF Hot THEN ixev_buf_store(actual) ELSE 0
      hot == IF Hot THEN Appended(store) ELSE [bufs |-> bufs, refs |-> refs]
      rest == actual - store
      need == (rest + BufSize - 1) \div BufSize
      free == ixev_buf_alloc
      news == Least(need, Least(SendDepth - Len(send), Len(free)))
      from(i) == send_total + store + (i - 1) * BufSize
      size(i) == Least(BufSize, rest - (i - 1) * BufSize)
      so_far == IF news = need THEN actual ELSE store + news * BufSize
      send1 == IF store > 0 THEN [send EXCEPT ![Len(send)].len = @ + store] ELSE send
  IN /\ User /\ ~is_dead /\ actual > 0 /\ send_total + so_far <= MaxSend
     /\ news > 0 => ixev_check_hacks(sendv_desc)
     /\ send' = send1 \o [i \in 1 .. news |-> ixev_next_entry(free[i], from(i), size(i))]
     /\ bufs' = [b \in Bufs |-> IF \E i \in 1 .. news : free[i] = b
                                THEN LET i == CHOOSE i \in 1 .. news : free[i] = b
                                     IN [from |-> from(i), to |-> from(i) + size(i)]
                                ELSE hot.bufs[b]]
     /\ refs' = FoldLeft(LAMBDA rs, i : __ixev_add_sent_cb(rs, free[i], from(i) + size(i)),
                         hot.refs, [i \in 1 .. news |-> i])
     /\ pool' = pool \ {free[i] : i \in 1 .. news}
     /\ cur_buf' = CASE news < need /\ Len(send) + news < SendDepth -> 0
                     [] news > 0 -> free[news]
                     [] OTHER -> cur_buf
     /\ send_total' = send_total + so_far
     /\ IF news > 0 THEN __ixev_sendv(Len(send')) ELSE UNCHANGED <<karr, len, sendv_desc>>
     /\ UNCHANGED <<sent_total, recv_done_desc, ring, is_dead, released, uarr, where, pcb>>

(* ixev_send_zc of the application's own memory, and ixev_add_sent_cb.      *)
ixev_send_zc(n) ==
  LET actual == ixev_window_len(n)
  IN /\ User /\ ~is_dead /\ actual > 0 /\ Len(send) < SendDepth /\ send_total + actual <= MaxSend
     /\ ixev_check_hacks(sendv_desc)
     /\ send' = Append(send, ixev_next_entry(0, send_total, actual))
     /\ send_total' = send_total + actual
     /\ refs' = __ixev_add_sent_cb(refs, 0, send_total')
     /\ cur_buf' = 0
     /\ __ixev_sendv(Len(send'))
     /\ UNCHANGED <<bufs, pool, sent_total, recv_done_desc, ring, is_dead, released, uarr, where, pcb>>

(* The entries that a result of n bytes leaves: ixev_handle_sendv_ret and   *)
(* ixev_shift_sends; and the same with a partly taken entry dropped.        *)
ixev_shift_sends_all(s, n) ==
  SelectSeq(s, LAMBDA e : e.pos >= s[1].pos + n)
ixev_shift_sends(s, n) ==
  IF s = <<>> THEN s
  ELSE LET to == s[1].pos + n
           left == SelectSeq(s, LAMBDA e : e.pos + e.len > to)
       IN [i \in DOMAIN left |->
             IF left[i].pos < to
             THEN [left[i] EXCEPT !.pos = to, !.len = left[i].pos + left[i].len - to] ELSE left[i]]

-----------------------------------------------------------------------------
(* Receiving.                                                               *)

Slot(i) == i % RecvDepth

(* ixev_recv.                                                               *)
ixev_recv(n) ==
  LET have == FoldFunctionOnSet(LAMBDA e, t : e.len + t, 0, recv, {Slot(i) : i \in recv_head .. recv_tail - 1})
      got == Least(n, have)
      stop == recv[Slot(recv_head)].pos + got
      full == {i \in recv_head .. recv_tail - 1 : recv[Slot(i)].pos + recv[Slot(i)].len <= stop}
      head == recv_head + Cardinality(full)
  IN /\ User /\ ~is_dead /\ got > 0 /\ ixev_check_hacks(recv_done_desc)
     /\ recv' = IF head = recv_tail \/ recv[Slot(head)].pos >= stop THEN recv
                ELSE [recv EXCEPT ![Slot(head)] =
                        [pos |-> stop, len |-> @.pos + @.len - stop]]
     /\ recv_head' = head /\ read' = read + got
     /\ __ixev_recv_done(got)
     /\ UNCHANGED <<sendv, sent_total, recv_tail, arrived, done, is_dead, released, uarr, where, pcb>>

(* ixev_recv_zc: the entry at the head, which it does not know to be one.   *)
ixev_recv_zc(n) ==
  LET e == recv[Slot(recv_head)]
  IN /\ ZeroCopy /\ User /\ ~is_dead /\ n <= e.len /\ ixev_check_hacks(recv_done_desc)
     /\ recv' = [recv EXCEPT ![Slot(recv_head)] = [pos |-> e.pos + n, len |-> e.len - n]]
     /\ recv_head' = IF e.len = n THEN recv_head + 1 ELSE recv_head
     /\ read' = read + n
     /\ __ixev_recv_done(n)
     /\ UNCHANGED <<sendv, sent_total, recv_tail, arrived, done, is_dead, released, uarr, where, pcb>>

-----------------------------------------------------------------------------
(* The batch is run.                                                        *)

(* bsys_tcp_sendv: the entries up to the room in the pcb, or none when      *)
(* tcp_write fails at once; -1: the connection is closed.                   *)
bsys_tcp_sendv(count) ==
  LET room == SndBuf - (pcb.taken - pcb.acked)
      all == FoldSeq(LAMBDA e, t : e.len + t, 0, SubSeq(send, 1, Least(count, Len(send))))
  IN IF ~pcb.alive THEN {-1}
     ELSE {Least(room, all)} \cup (IF WriteFails THEN {0} ELSE {})

Calls(c) == {i \in 1 .. len : karr[i].call = c}
Acked == FoldFunctionOnSet(LAMBDA d, t : d.n + t, 0, karr, Calls("recv_done"))

(* ixev_handle_close_ret runs every callback.                               *)
ixev_handle_close_ret == ixev_buf_release(DOMAIN refs)

(* ix_poll, bsys_dispatch and, in ixev_wait, the results in the order of    *)
(* the batch.                                                               *)
ixev_wait ==
  /\ User /\ uarr = <<>>
  /\ \E ret \in IF Calls("sendv") = {} THEN {0} ELSE bsys_tcp_sendv(karr[sendv_desc].n) :
       /\ pcb' = [pcb EXCEPT !.taken = IF ret > 0 THEN @ + ret ELSE @,
                             !.alive = @ /\ Calls("close") = {}]
       /\ is_dead' = (is_dead \/ ret < 0)
       /\ send' = IF Calls("sendv") = {} \/ ret < 0 THEN send ELSE ixev_shift_sends(send, ret)
  /\ done' = done + Acked
  /\ released' = (Calls("close") # {})
  /\ pool' = IF released' THEN ixev_handle_close_ret ELSE pool
  /\ karr' = [i \in 1 .. MaxLen |-> NoDesc] /\ len' = 0 /\ sendv_desc' = 0 /\ recv_done_desc' = 0
  /\ where' = IF released' THEN "user" ELSE "kernel"
  /\ UNCHANGED <<send_total, sent_total, refs, cur_buf, bufs, recv, recv_head, recv_tail, arrived, read, uarr>>

(* ix_flush: the results are not looked at, and the descriptors not         *)
(* forgotten.                                                               *)
ix_flush ==
  /\ pcb' = IF Calls("sendv") = {} THEN pcb
            ELSE [pcb EXCEPT !.taken = @ + CHOOSE n \in bsys_tcp_sendv(karr[sendv_desc].n) : TRUE]
  /\ done' = done + Acked

(* A call of another connection, which flushes a full batch.                *)
ix_tcp_accept ==
  /\ User /\ Cardinality(Calls("other")) < Others
  /\ IF len < MaxLen
     THEN /\ karr' = [karr EXCEPT ![len + 1] = [call |-> "other", n |-> 0]] /\ len' = len + 1
          /\ UNCHANGED <<pcb, done>>
     ELSE karr' = [karr EXCEPT ![1] = [call |-> "other", n |-> 0]] /\ len' = 1 /\ ix_flush
  /\ UNCHANGED <<sendv, sent_total, sendv_desc, recv_done_desc, recv, recv_head, recv_tail, arrived,
                 read, is_dead, released, uarr, where>>

ixev_close ==
  /\ User /\ uarr = <<>> /\ Calls("close") = {} /\ ixev_check_hacks(0)
  /\ karr' = [karr EXCEPT ![len + 1] = [call |-> "close", n |-> 0]] /\ len' = len + 1
  /\ UNCHANGED <<sendv, sent_total, sendv_desc, recv_done_desc, ring, is_dead, released, uarr, where, pcb>>

(* The network while the kernel polls: data, acknowledgements, a reset; and *)
(* the return to the application.                                           *)
Network ==
  /\ where = "kernel"
  /\ \/ \E n \in Sizes : /\ pcb.alive /\ arrived + n <= MaxRecv
                         /\ arrived' = arrived + n
                         /\ uarr' = Append(uarr, [ev |-> "recv", pos |-> arrived, len |-> n])
                         /\ UNCHANGED <<where, pcb>>
     \/ \E n \in 1 .. pcb.taken - pcb.acked :
                         /\ pcb.alive /\ pcb' = [pcb EXCEPT !.acked = @ + n]
                         /\ uarr' = Append(uarr, [ev |-> "sent", pos |-> 0, len |-> n])
                         /\ UNCHANGED <<where, arrived>>
     \/ /\ pcb.alive /\ pcb' = [pcb EXCEPT !.alive = FALSE]
        /\ uarr' = Append(uarr, [ev |-> "dead", pos |-> 0, len |-> 0])
        /\ UNCHANGED <<where, arrived>>
     \/ where' = "user" /\ UNCHANGED <<uarr, pcb, arrived>>
  /\ UNCHANGED <<sendv, sent_total, batch, recv, recv_head, recv_tail, read, done, is_dead, released>>

(* ixev_tcp_recv, when the ring has room: else the program ends.            *)
ixev_tcp_recv(e) ==
  /\ recv_tail - recv_head + 1 < RecvDepth
  /\ recv' = [recv EXCEPT ![Slot(recv_tail)] = [pos |-> e.pos, len |-> e.len]]
  /\ recv_tail' = recv_tail + 1
  /\ UNCHANGED <<sendv, sent_total, batch, recv_head, arrived, read, done, is_dead>>

(* The references ixev_tcp_sent releases.                                   *)
Gone(n) == {i \in DOMAIN refs : \A j \in 1 .. i : refs[j].pos <= sent_total + n}

(* ixev_tcp_sent, with another attempt to send.                             *)
ixev_tcp_sent(e) ==
  /\ sent_total' = sent_total + e.len
  /\ refs' = SubSeq(refs, Cardinality(Gone(e.len)) + 1, Len(refs))
  /\ pool' = ixev_buf_release(Gone(e.len))
  /\ cur_buf' = IF refs' = <<>> THEN 0 ELSE cur_buf
  /\ IF send = <<>> THEN UNCHANGED <<karr, len, sendv_desc>>
     ELSE ixev_check_hacks(sendv_desc) /\ __ixev_sendv(Len(send))
  /\ UNCHANGED <<recv_done_desc, send, send_total, bufs, ring, is_dead>>

ixev_tcp_dead ==
  /\ is_dead' = TRUE
  /\ UNCHANGED <<sendv, sent_total, batch, ring>>

(* ix_handle_events, one event.                                             *)
ix_handle_events ==
  /\ User /\ uarr # <<>>
  /\ LET e == Head(uarr)
     IN \/ e.ev = "recv" /\ ixev_tcp_recv(e)
        \/ e.ev = "sent" /\ ixev_tcp_sent(e)
        \/ e.ev = "dead" /\ ixev_tcp_dead
  /\ uarr' = Tail(uarr)
  /\ UNCHANGED <<released, where, pcb>>

Next ==
  \/ \E n \in Sizes : ixev_send(n) \/ ixev_send_zc(n) \/ ixev_recv(n) \/ ixev_recv_zc(n)
  \/ ixev_wait \/ ix_tcp_accept \/ ixev_close \/ Network \/ ix_handle_events

Spec == Init /\ [][Next]_vars

-----------------------------------------------------------------------------

(* What the library still has to send begins where the kernel stopped and   *)
(* is everything the application has sent since, in order: no byte is lost  *)
(* or sent twice, whatever part of a batch the kernel takes.                *)
SentInOrder ==
  pcb.alive /\ ~is_dead =>
    /\ \A i \in DOMAIN send : send[i].pos = IF i = 1 THEN pcb.taken ELSE send[i - 1].pos + send[i - 1].len
    /\ send_total = IF send = <<>> THEN pcb.taken ELSE Last(send).pos + Last(send).len

(* A buffer is released only when the peer has acknowledged all its bytes,  *)
(* as long as the connection lives.                                         *)
HeldUntilSent ==
  ~released => \A b \in pool : bufs[b].to <= pcb.acked

(* ... and it is released then, or when the connection is closed.           *)
AllReleased ==
  released \/ (uarr = <<>> /\ where = "user" /\ sent_total = send_total) => pool = Bufs

(* "if there is pending data, make sure we try again to send it": data the  *)
(* kernel did not take has a call in the batch, or something in flight      *)
(* whose acknowledgement will make one, unless tcp_write runs out of memory *)
(* with nothing in flight (WriteFails).                                     *)
TriesAgain ==
  where = "user" /\ pcb.alive /\ send # <<>> /\ ~released =>
    Calls("sendv") # {} \/ pcb.taken > sent_total

(* The application reads the bytes of the stream that have arrived, and     *)
(* acknowledges what it has read: recv_zc "Returns a pointer if the         *)
(* requested amount of data is available".  It does not look at recv_tail   *)
(* (ixev.c:335), so this is about rings that have not been used once around *)
(* where it is called, and about all rings where ixev_recv alone is.        *)
ReadArrived ==
  /\ read = done + Acked
  /\ recv_head <= recv_tail
  /\ \A i \in recv_head .. recv_tail - 1 :
       recv[Slot(i)].pos = IF i = recv_head THEN read ELSE recv[Slot(i - 1)].pos + recv[Slot(i - 1)].len

=============================================================================
