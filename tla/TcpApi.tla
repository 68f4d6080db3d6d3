------------------------------- MODULE TcpApi -------------------------------
(***************************************************************************)
(* The interface between TCP and the application (dp/net/tcp_api.c): the    *)
(* handles, kept in a memory pool, the callbacks of the stack, which become *)
(* events, and the batched calls of the application (libix/ixev.c,          *)
(* dp/core/syscall.c), which is served in turn: it fills a batch and polls; *)
(* the kernel runs the batch and then the network; the application handles  *)
(* the results of its calls and then the events.                            *)
(***************************************************************************)
EXTENDS Integers, SequencesExt

CONSTANTS
  Handles,       \* the pool of struct tcpapi_pcb
  Lens, MaxPbufs,\* lengths of a pbuf, pbufs of a chain
  Outcomes,      \* how the connects of the application end: "ok", "no pcb", "late"
  Refuses,       \* it closes a connection it was offered instead of accepting it
  Partial,       \* it acknowledges less than it was given
  CloseAtOnce,   \* it closes a connection in the batch that accepts it
  CloseTwice,    \* it closes a handle it has closed
  MaxConns,      \* connections in all
  MaxChains      \* chains that arrive on a connection

(* What the constants are.                                                  *)
TcpApiAssumption == {MaxConns, MaxChains, MaxPbufs} \subseteq Nat /\ Handles # {}

VARIABLES
  api,        \* of each handle
  free,       \* free list of the pool, the last freed first
  ids,        \* free list of id_mempool
  karr, uarr, \* calls of the application, events for it
  closed,     \* handles whose close has just succeeded
  ctx,        \* of each handle: the application's context
  conns,      \* connections so far
  where,      \* "user" or "kernel"
  invalid,    \* a close of a closed handle was taken for one of a connection
  hasty,      \* connections with an event of the batch that has closed them, or failed to connect
  again       \* a close has freed an id that was freed before

kernel == <<api, free, ids, conns>>
odd == <<invalid, hasty, again>>
vars == <<kernel, karr, uarr, closed, ctx, where, odd>>

Chains == UNION {[1 .. n -> Lens] : n \in 1 .. MaxPbufs}
Ids == Handles
NoId == 0
NoCookie == 0
NoCtx == [st |-> "none", conn |-> NoCookie, given |-> 0, done |-> 0, dead |-> FALSE]

(* struct tcpapi_pcb, and what has happened to the connection: its number,  *)
(* by which the application's cookie is known, the bytes acknowledged and   *)
(* freed, the chains so far, the offsets at which a pbuf ends, whether a    *)
(* chain of several has come, an acknowledgement has ended inside a pbuf,   *)
(* the end has come without a cookie, and whether the id was given to this  *)
(* connection or is left of an earlier one.                                 *)
Api == [alive |-> FALSE, pcb |-> FALSE, id |-> NoId, recvd |-> <<>>, accepted |-> FALSE,
        cookie |-> NoCookie, conn |-> 0, acked |-> 0, freed |-> 0, chains |-> 0, ends |-> {0},
        several |-> FALSE, ragged |-> FALSE, unseen |-> FALSE, own |-> FALSE]

Init ==
  /\ api = [h \in Handles |-> Api]
  /\ free = SetToSeq(Handles) /\ ids = SetToSeq(Ids)
  /\ karr = <<>> /\ uarr = <<>> /\ closed = {}
  /\ ctx = [h \in Handles |-> NoCtx]
  /\ conns = 0 /\ where = "user" /\ invalid = FALSE /\ hasty = {} /\ again = FALSE

Sum(s) == FoldSeq(LAMBDA a, b : a + b, 0, s)
Event(ev, h, cookie, n) == [ev |-> ev, h |-> h, cookie |-> cookie, len |-> n]

-----------------------------------------------------------------------------
(* Callbacks of the stack.                                                  *)

(* on_accept: without a handle or an id the connection is aborted.          *)
on_accept ==
  /\ where = "kernel" /\ conns < MaxConns /\ free # <<>> /\ ids # <<>>
  /\ LET h == Head(free)
     IN /\ free' = Tail(free) /\ ids' = Tail(ids)
        /\ api' = [api EXCEPT ![h] = [Api EXCEPT !.alive = TRUE, !.pcb = TRUE,
                                                  !.id = Head(ids), !.own = TRUE,
                                                  !.conn = conns + 1]]
        /\ uarr' = Append(uarr, Event("knock", h, NoCookie, 0))
  /\ conns' = conns + 1
  /\ UNCHANGED <<karr, closed, ctx, where, odd>>

(* recv_a_pbuf: an event for each pbuf of a chain.                          *)
recv_a_pbuf(h, a, chain) == [i \in 1 .. Len(chain) |-> Event("recv", h, a.cookie, chain[i])]

(* Everything that has arrived on a connection.                             *)
Total(a) == Max(a.ends)
Queue(a, chain) ==
  [a EXCEPT !.recvd = Append(@, chain), !.chains = @ + 1, !.several = @ \/ Len(chain) > 1,
            !.ends = @ \cup {Total(a) + Sum(SubSeq(chain, 1, i)) : i \in DOMAIN chain}]

(* on_recv that tells of data at once.                                      *)
on_recv_early(h, chain) ==
  /\ where = "kernel" /\ api[h].pcb /\ api[h].alive /\ api[h].chains < MaxChains
  /\ api' = [api EXCEPT ![h] = Queue(@, chain)]
  /\ uarr' = uarr \o recv_a_pbuf(h, [api[h] EXCEPT !.cookie = api[h].conn], chain)
  /\ UNCHANGED <<free, ids, conns, karr, closed, ctx, where, odd>>

(* on_recv of data: queued, and told once the connection is accepted.       *)
on_recv(h, chain) ==
  /\ where = "kernel" /\ api[h].pcb /\ api[h].alive /\ api[h].chains < MaxChains
  /\ api' = [api EXCEPT ![h] = Queue(@, chain)]
  /\ uarr' = IF api[h].accepted THEN uarr \o recv_a_pbuf(h, api[h], chain) ELSE uarr
  /\ UNCHANGED <<free, ids, conns, karr, closed, ctx, where, odd>>

(* mark_dead.                                                               *)
mark_dead(a) == [a EXCEPT !.alive = FALSE, !.unseen = a.cookie = NoCookie]
TellDead(h) == uarr' = Append(uarr, Event("dead", h, api[h].cookie, 0))

(* on_recv at the end of the data, on_err.                                  *)
on_fin(h) ==
  /\ where = "kernel" /\ api[h].pcb /\ api[h].alive
  /\ api' = [api EXCEPT ![h] = mark_dead(@)] /\ TellDead(h)
  /\ UNCHANGED <<free, ids, conns, karr, closed, ctx, where, odd>>
on_err(h) ==
  /\ where = "kernel" /\ api[h].pcb
  /\ api' = [api EXCEPT ![h] = [mark_dead(@) EXCEPT !.pcb = FALSE]] /\ TellDead(h)
  /\ UNCHANGED <<free, ids, conns, karr, closed, ctx, where, odd>>

-----------------------------------------------------------------------------
(* The calls: each maps the state of the kernel, k, to what it is after.    *)

(* handle_to_tcpapi refuses an element whose first word, alive, is more     *)
(* than one.  That word of a free element is its link.                      *)
InUse(k, h) == ~Contains(k.free, h)
handle_to_tcpapi(k, h) == InUse(k, h) \/ Last(k.free) = h

(* mempool_free of the id, if there is one.                                 *)
FreeId(k, h) == IF k.api[h].id = NoId THEN k.ids ELSE <<k.api[h].id>> \o k.ids

bsys_tcp_accept(k, h) ==
  LET a == [k.api[h] EXCEPT !.id = NoId, !.own = FALSE, !.cookie = k.api[h].conn, !.accepted = TRUE]
  IN [k EXCEPT !.api[h] = a,
               !.ids = FreeId(k, h),
               !.uarr = @ \o FlattenSeq([i \in DOMAIN a.recvd |-> recv_a_pbuf(h, a, a.recvd[i])])]

(* The loop of bsys_tcp_recv_done: chains are freed while the length of     *)
(* the first pbuf is covered.                                               *)
Freed(recvd, len) ==
  {n \in 0 .. Len(recvd) :
     /\ Sum([i \in 1 .. n |-> recvd[i][1]]) <= len
     /\ n < Len(recvd) => Sum([i \in 1 .. n + 1 |-> recvd[i][1]]) > len}

bsys_tcp_recv_done(k, h, len) ==
  LET r == k.api[h].recvd
      n == CHOOSE n \in Freed(r, len) : \A m \in Freed(r, len) : n <= m
  IN [k EXCEPT !.api[h].recvd = SubSeq(r, n + 1, Len(r)), !.api[h].acked = @ + len,
               !.api[h].ragged = @ \/ k.api[h].acked + len \notin k.api[h].ends,
               !.api[h].freed = @ + Sum([i \in 1 .. n |-> Sum(r[i])])]

(* bsys_tcp_close: the id stays in the freed element.                       *)
bsys_tcp_close(k, h) ==
  [k EXCEPT !.api[h].pcb = FALSE, !.api[h].recvd = <<>>,
            !.ids = FreeId(k, h),
            !.again = @ \/ (k.api[h].id # NoId /\ ~k.api[h].own), !.api[h].own = FALSE,
            !.hasty = @ \cup {k.uarr[i].cookie : i \in {j \in DOMAIN k.uarr : k.uarr[j].h = h}},
            !.free = <<h>> \o @, !.closed = @ \cup {h}]

(* bsys_tcp_connect sets every field but id.  When the bind or the connect  *)
(* fails, tcp_abort reports the connection dead and the handle stays taken. *)
bsys_tcp_connect(k, outcome) ==
  IF k.free = <<>> \/ outcome = "no pcb" THEN k
  ELSE LET h == Head(k.free)
           c == k.conns + 1
           ok == outcome = "ok"
       IN [k EXCEPT !.free = Tail(@), !.conns = c, !.closed = IF ok THEN @ \ {h} ELSE @,
                    !.api[h] = [Api EXCEPT !.alive = ok, !.pcb = ok, !.id = k.api[h].id,
                                           !.accepted = TRUE, !.cookie = c, !.conn = c],
                    !.dialed = IF ok THEN @ \cup {h} ELSE @ \ {h},
                    !.hasty = IF ok THEN @ ELSE @ \cup {c},
                    !.uarr = IF ok THEN @ ELSE Append(@, Event("dead", h, c, 0))]

(* bsys_dispatch_one.                                                       *)
bsys_dispatch_one(k, d) ==
  IF d.call = "connect" THEN bsys_tcp_connect(k, d.len)
  ELSE IF ~handle_to_tcpapi(k, d.h) THEN k
  ELSE LET q == [k EXCEPT !.invalid = @ \/ d.call = "close again"]
       IN CASE d.call = "accept" -> bsys_tcp_accept(q, d.h)
            [] d.call = "recv_done" -> bsys_tcp_recv_done(q, d.h, d.len)
            [] d.call \in {"close", "close again"} -> bsys_tcp_close(q, d.h)

Open(c) == [NoCtx EXCEPT !.st = "open", !.conn = c]

(* sys_bpoll up to the network: the batch.                                  *)
bsys_dispatch ==
  FoldLeft(bsys_dispatch_one,
           [api |-> api, free |-> free, ids |-> ids, conns |-> conns, uarr |-> <<>>,
            closed |-> {}, dialed |-> {}, invalid |-> invalid, hasty |-> {}, again |-> again], karr)
sys_bpoll ==
  /\ where = "user" /\ uarr = <<>> /\ ~invalid /\ ~again
  /\ LET k == bsys_dispatch
     IN /\ api' = k.api /\ free' = k.free /\ ids' = k.ids /\ conns' = k.conns
        /\ uarr' = k.uarr /\ closed' = k.closed /\ invalid' = k.invalid
        /\ hasty' = k.hasty /\ again' = k.again
        /\ ctx' = [h \in Handles |-> IF h \in k.dialed THEN Open(k.api[h].conn) ELSE ctx[h]]
  /\ karr' = <<>> /\ where' = "kernel"

(* sys_bpoll returns; ixev_wait handles the results: a closed connection's  *)
(* context is released.                                                     *)
ixev_wait ==
  /\ where = "kernel" /\ where' = "user"
  /\ ctx' = [h \in Handles |-> IF h \in closed THEN [NoCtx EXCEPT !.st = "released"] ELSE ctx[h]]
  /\ closed' = {}
  /\ UNCHANGED <<kernel, karr, uarr, odd>>

-----------------------------------------------------------------------------
(* The application: the next event, and calls it adds to its batch.         *)

Call(d) == karr' = Append(karr, d)
Queued(h, call) == \E i \in DOMAIN karr : karr[i].h = h /\ karr[i].call = call

(* ix_handle_events: ixev_tcp_knock, ixev_tcp_recv, ixev_tcp_dead.  The     *)
(* cookie of an event is the context it is for.                             *)
For(e) == ctx[e.h].conn = e.cookie
ix_handle_events ==
  /\ where = "user" /\ uarr # <<>>
  /\ LET e == Head(uarr)
     IN CASE e.ev = "knock" ->
               /\ ctx' = [ctx EXCEPT ![e.h] = Open(api[e.h].conn)]
               /\ \/ Call([call |-> "accept", h |-> e.h, len |-> 0])
                  \/ Refuses /\ Call([call |-> "close", h |-> e.h, len |-> 0])
          [] e.ev = "recv" -> ctx' = [ctx EXCEPT ![e.h].given = IF For(e) THEN @ + e.len ELSE @] /\ UNCHANGED karr
          [] e.ev = "dead" -> ctx' = [ctx EXCEPT ![e.h].dead = @ \/ For(e)] /\ UNCHANGED karr
  /\ uarr' = Tail(uarr)
  /\ UNCHANGED <<kernel, closed, where, odd>>

(* __ixev_recv_done, one for a context in a batch.                          *)
ixev_recv(h) ==
  /\ where = "user" /\ ctx[h].st = "open" /\ ~Queued(h, "recv_done")
  /\ \E n \in 1 .. ctx[h].given - ctx[h].done :
       /\ Partial \/ n = ctx[h].given - ctx[h].done
       /\ ctx' = [ctx EXCEPT ![h].done = @ + n]
       /\ Call([call |-> "recv_done", h |-> h, len |-> n])
  /\ UNCHANGED <<kernel, uarr, closed, where, odd>>

ixev_close(h) ==
  /\ where = "user" /\ ~Queued(h, "close") /\ ~Queued(h, "close again")
  /\ ctx[h].st = "open" \/ (CloseTwice /\ ctx[h].st = "released")
  /\ CloseAtOnce \/ ~Queued(h, "accept")
  /\ ctx' = [ctx EXCEPT ![h].st = IF @ = "open" THEN "closing" ELSE @]
  /\ Call([call |-> IF ctx[h].st = "open" THEN "close" ELSE "close again", h |-> h, len |-> 0])
  /\ UNCHANGED <<kernel, uarr, closed, where, odd>>

ixev_dial ==
  /\ where = "user" /\ conns < MaxConns
  /\ \A i \in DOMAIN karr : karr[i].call # "connect"
  /\ \E o \in Outcomes : Call([call |-> "connect", h |-> NoId, len |-> o])
  /\ UNCHANGED <<kernel, uarr, closed, ctx, where, odd>>

Next ==
  \/ on_accept \/ ixev_dial \/ sys_bpoll \/ ixev_wait \/ ix_handle_events
  \/ \E h \in Handles : \/ \E c \in Chains : on_recv(h, c)
                        \/ on_fin(h) \/ on_err(h) \/ ixev_recv(h) \/ ixev_close(h)

Spec == Init /\ [][Next]_vars

-----------------------------------------------------------------------------

Idle(h) == where = "user" /\ uarr = <<>> /\ karr = <<>> /\ ctx[h].st = "open"

(* A close that is repeated is refused, or it takes the free element for a  *)
(* connection (handle_to_tcpapi knows a free element by its link, and the   *)
(* last of the list has none; another connection may have the handle by     *)
(* now).  And bsys_tcp_close leaves api->id, which bsys_tcp_connect does    *)
(* not reset: the element of a refused connection, taken for one that the   *)
(* application opens, releases the id again when that one is closed.        *)
Unsound == invalid \/ again

(* Until then no element is on the free list of its pool twice, and the id  *)
(* of an offered connection (on_accept) belongs to that connection alone    *)
(* until the application has answered.                                      *)
Offered(h) == ~Contains(free, h) /\ ~api[h].accepted
IdsExclusive ==
  \/ Unsound
  \/ /\ IsInjective(free) /\ IsInjective(ids)
     /\ \A h \in Handles : Offered(h) =>
          /\ ~Contains(ids, api[h].id)
          /\ \A g \in Handles \ {h} : Offered(g) => api[g].id # api[h].id

(* bsys_tcp_recv_done frees no buffer the application has not acknowledged, *)
(* unless several came as one chain, which goes with its first.             *)
NotFreedEarly ==
  \A h \in Handles : api[h].freed <= api[h].acked \/ api[h].several

(* ... and it "is used to free memory": when everything the application was *)
(* given is acknowledged, and no acknowledgement ended inside a buffer, no  *)
(* buffer is kept, however they were chained.                               *)
FreedWhenDone ==
  \A h \in Handles :
    Idle(h) /\ api[h].accepted /\ ctx[h].done = ctx[h].given /\ ~api[h].ragged => api[h].recvd = <<>>

(* Everything that has arrived on an accepted connection is given to the    *)
(* application, once, whether it came before or after the accept.           *)
GivenOnce == \A h \in Handles : Idle(h) /\ api[h].accepted => ctx[h].given = Total(api[h])

(* No event is for a context that has been released or was never opened,    *)
(* but for those of the batch itself: data given by the accept of a         *)
(* connection that is closed further on, the end of one that could not be   *)
(* opened.                                                                  *)
NoLateEvent ==
  where = "user" /\ ~Unsound =>
    \A i \in DOMAIN uarr :
      uarr[i].cookie = NoCookie \/ uarr[i].cookie \in hasty
        \/ (For(uarr[i]) /\ ctx[uarr[i].h].st \in {"open", "closing"})

(* The dead event "indicates that the remote host has closed the            *)
(* connection": an application that has a context for it learns that,       *)
(* unless it ended before the accept, when there was no cookie to tell.     *)
DeadNoticed == \A h \in Handles : Idle(h) /\ ~Unsound => ctx[h].dead \/ api[h].alive \/ api[h].unseen

=============================================================================
