------------------------------ MODULE FlowGroup ------------------------------
(***************************************************************************)
(* Moving flow groups between CPUs (dp/core/ethfg.c) while the CPUs run the *)
(* loop of sys_bpoll (dp/core/syscall.c) and call each other through their  *)
(* run lists (dp/core/cpu.c).  The network card spreads packets by reta;    *)
(* the control plane gives one command at a time and waits for its status.  *)
(***************************************************************************)
EXTENDS Integers, SequencesExt

CONSTANTS
  Cpus,       \* CFG.cpu
  Fgs,        \* flow groups of the card
  MaxPkts,    \* packets of each flow group
  MaxCmds,    \* commands of the control plane
  MaxMove,    \* flow groups in one command
  Batch,      \* ETH_RX_MAX_BATCH
  Delay       \* a packet may be on its way to a ring when reta changes

(* What the constants are.                                                  *)
FlowGroupAssumption == {MaxPkts, MaxCmds, MaxMove, Batch} \subseteq Nat /\ 0 \notin Cpus

VARIABLES
  fg,         \* struct eth_fg: [in_transition, cur_cpu, target_cpu, prev_cpu]
  out,        \* owner of the outbound flow group of each CPU
  conn,       \* connection opened by each CPU: [fg, filter], its outbound group and queue
  reta, wire, ring,        \* the card: table, packets on their way, rings
  rxq, remote, local,      \* packets polled, and remote_, local_mbuf_queue
  info,       \* migration_info: [prev_cpu, target_cpu, fgs]
  timeout,    \* transition_timeout is pending
  runlist,    \* calls to run, the last one first
  timers, collected,       \* flow groups with timers on each wheel, in remote_timers_list
  cmd,        \* cp_cmd: [id, status, fgs, cpu]
  cmds,       \* commands given
  sent, got,  \* packets of each flow group that came and that eth_input saw
  events, pc, \* events for the application, and where each CPU is
  together    \* flow groups that one command moved with others

card == <<reta, wire, ring, sent>>
move == <<fg, out, conn, info, timeout, runlist, timers, collected, together>>
queues == <<rxq, remote, local, got, events>>
vars == <<card, move, queues, cmd, cmds, pc>>

None == 0   \* -1
First == Min(Cpus)
NoMove == [prev_cpu |-> None, target_cpu |-> None, fgs |-> {}]
Nop == [id |-> "NOP", status |-> "READY", fgs |-> {}, cpu |-> None]

Init ==
  /\ fg = [f \in Fgs |-> [in_transition |-> FALSE, cur_cpu |-> First, target_cpu |-> None, prev_cpu |-> None]]
  /\ out = [c \in Cpus |-> c] /\ conn = [c \in Cpus |-> [fg |-> c, filter |-> c]]
  /\ reta = [f \in Fgs |-> First] /\ wire = <<>> /\ ring = [c \in Cpus |-> <<>>]
  /\ rxq = ring /\ remote = ring /\ local = ring /\ runlist = ring
  /\ info = [c \in Cpus |-> NoMove] /\ timeout = [c \in Cpus |-> FALSE]
  /\ timers = [c \in Cpus |-> IF c = First THEN Fgs ELSE {}] /\ collected = [c \in Cpus |-> {}]
  /\ cmd = [c \in Cpus |-> Nop] /\ cmds = 0
  /\ sent = [f \in Fgs |-> 0] /\ got = [f \in Fgs |-> <<>>]
  /\ events = [c \in Cpus |-> FALSE] /\ pc = [c \in Cpus |-> "user"]
  /\ together = {}

-----------------------------------------------------------------------------
(* The card: a packet goes to the ring reta names when it comes.            *)

Arrive(f) ==
  /\ sent[f] < MaxPkts
  /\ sent' = [sent EXCEPT ![f] = @ + 1]
  /\ LET p == [fg |-> f, n |-> sent[f] + 1]
     IN IF Delay THEN wire' = Append(wire, [pkt |-> p, cpu |-> reta[f]]) /\ UNCHANGED ring
        ELSE ring' = [ring EXCEPT ![reta[f]] = Append(@, p)] /\ UNCHANGED wire
  /\ UNCHANGED <<reta, move, queues, cmd, cmds, pc>>

Land ==
  /\ wire # <<>>
  /\ wire' = Tail(wire)
  /\ ring' = [ring EXCEPT ![Head(wire).cpu] = Append(@, Head(wire).pkt)]
  /\ UNCHANGED <<reta, sent, move, queues, cmd, cmds, pc>>

(* The control plane: a command when the last one is done, to a CPU for     *)
(* flow groups it owns, or to a CPU without any to be idle.                 *)
Give(c, id, set, to) ==
  /\ cmds < MaxCmds /\ \A d \in Cpus : cmd[d].status = "READY" /\ pc[d] # "idle"
  /\ cmd' = [cmd EXCEPT ![c] = [id |-> id, status |-> "RUNNING", fgs |-> set, cpu |-> to]]
  /\ cmds' = cmds + 1
  /\ UNCHANGED <<card, move, queues, pc>>
Migrate(c, d) ==
  \E set \in SUBSET {f \in Fgs : fg[f].cur_cpu = c} :
    /\ Cardinality(set) \in 1 .. MaxMove
    /\ Give(c, "MIGRATE", set, d)
BeIdle(c) == (\A f \in Fgs : fg[f].cur_cpu # c) /\ Give(c, "IDLE", {}, None)

-----------------------------------------------------------------------------
(* Parts of a flow group's move, on the state as a record.                  *)

State ==
  [fg |-> fg, out |-> out, conn |-> conn, reta |-> reta, rxq |-> rxq, remote |-> remote, local |-> local,
   info |-> info, timeout |-> timeout, runlist |-> runlist, timers |-> timers, collected |-> collected,
   cmd |-> cmd, got |-> got, events |-> events, ring |-> ring, together |-> together]
Becomes(s) ==
  /\ fg' = s.fg /\ out' = s.out /\ conn' = s.conn /\ reta' = s.reta /\ rxq' = s.rxq /\ remote' = s.remote
  /\ local' = s.local /\ info' = s.info /\ timeout' = s.timeout /\ runlist' = s.runlist
  /\ timers' = s.timers /\ collected' = s.collected /\ cmd' = s.cmd /\ got' = s.got
  /\ events' = s.events /\ ring' = s.ring /\ together' = s.together

cpu_run_on_one(s, func, data, c) == [s EXCEPT !.runlist[c] = <<[func |-> func, data |-> data]>> \o @]

(* The packets of a flow group that wait here go to the target's queue ...  *)
migrate_pkts_to_remote(s, c, f, to) ==
  [s EXCEPT !.remote[to] = @ \o SelectSeq(s.rxq[c], LAMBDA p : p.fg = f),
            !.rxq[c] = SelectSeq(@, LAMBDA p : p.fg # f)]

(* ... and its timers to a list that is emptied first; the target inserts   *)
(* them.                                                                    *)
timer_collect_fgs(s, c, f, to) ==
  [s EXCEPT !.collected[to] = @ \cup ({f} \cap s.timers[c]), !.timers[c] = @ \ {f}]
migrate_timers_to_remote(s, c, f, to) == timer_collect_fgs([s EXCEPT !.collected[to] = {}], c, f, to)
timer_reinject_fgs(s, c) == [s EXCEPT !.timers[c] = @ \cup s.collected[c], !.collected[c] = {}]

eth_fg_assign_single_to_cpu(s, c, f, to) ==
  IF s.fg[f].cur_cpu = to THEN s
  ELSE LET t == [s EXCEPT !.fg[f] = [in_transition |-> TRUE, cur_cpu |-> None, target_cpu |-> to,
                                     prev_cpu |-> s.fg[f].cur_cpu],
                          !.reta[f] = to, !.info[c].fgs = @ \cup {f}]
       IN migrate_timers_to_remote(migrate_pkts_to_remote(t, c, f, to), c, f, to)

(* The connections this CPU opened, once it has no flow group of the        *)
(* card.                                                                    *)
migrate_fdir(s, c, to) ==
  [s EXCEPT !.conn = [d \in Cpus |-> IF s.out[s.conn[d].fg] = c THEN [fg |-> to, filter |-> to] ELSE @[d]],
            !.out = [d \in Cpus |-> IF @[d] = c THEN to ELSE @[d]]]

eth_fg_assign_to_cpu(c, set, to) ==
  LET s == [State EXCEPT !.info[c].fgs = {}]
      t == FoldSeq(LAMBDA f, r : eth_fg_assign_single_to_cpu(r, c, f, to), s, SetToSeq(set))
      n == IF Cardinality(t.info[c].fgs) > 1 THEN t.info[c].fgs ELSE {}
      u == IF t.info[c].fgs = {} THEN [t EXCEPT !.cmd[c].status = "READY"]
           ELSE LET m == [prev_cpu |-> c, target_cpu |-> to, fgs |-> t.info[c].fgs]
                IN [t EXCEPT !.timeout[c] = TRUE, !.info[c] = m, !.info[to] = m, !.together = @ \cup n]
  IN IF \E f \in Fgs : u.fg[f].cur_cpu = c THEN u ELSE migrate_fdir(u, c, to)

(* eth_recv_handle_fg_transition for a packet that CPU c polled.            *)
eth_recv_at_prev(s, c, p) == [s EXCEPT !.remote[s.fg[p.fg].target_cpu] = Append(@, p)]
eth_recv_at_target(s, c, p) ==
  LET t == IF s.local[c] = <<>>
           THEN cpu_run_on_one(s, "early_transition_handler_prev", None, s.info[c].prev_cpu) ELSE s
  IN [t EXCEPT !.local[c] = Append(@, p)]
eth_recv_handle_fg_transition(s, c, p) ==
  LET f == s.fg[p.fg]
  IN IF ~f.in_transition /\ f.cur_cpu = c THEN [s EXCEPT !.rxq[c] = Append(@, p)]
     ELSE IF f.in_transition /\ f.prev_cpu = c THEN eth_recv_at_prev(s, c, p)
     ELSE IF f.in_transition /\ f.target_cpu = c THEN eth_recv_at_target(s, c, p)
     ELSE s
eth_process_poll(s, c) ==
  [FoldLeft(LAMBDA r, p : eth_recv_handle_fg_transition(r, c, p), s, s.ring[c]) EXCEPT !.ring[c] = <<>>]

eth_input(s, c, p) == [s EXCEPT !.got[p.fg] = Append(@, p.n), !.events[c] = TRUE]
Input(s, c, q) == FoldLeft(LAMBDA r, p : eth_input(r, c, p), s, q)

(* The calls of the run lists; one that forgets to go on to the target.     *)
transition_handler_prev(s, c) ==
  cpu_run_on_one([s EXCEPT !.timeout[c] = FALSE], "transition_handler_target", c, s.info[c].target_cpu)
early_transition_handler_prev_stop(s, c) ==
  IF ~s.timeout[c] THEN s ELSE eth_process_poll([s EXCEPT !.timeout[c] = FALSE], c)
early_transition_handler_prev(s, c) ==
  IF ~s.timeout[c] THEN s ELSE transition_handler_prev(eth_process_poll([s EXCEPT !.timeout[c] = FALSE], c), c)

(* The target takes over the packets the previous CPU passed on and then    *)
(* its own; and the other way round.                                        *)
Deliver_swap(s, c) == [Input(Input(s, c, s.local[c]), c, s.remote[c]) EXCEPT !.remote[c] = <<>>, !.local[c] = <<>>]
Deliver(s, c) == [Input(Input(s, c, s.remote[c]), c, s.local[c]) EXCEPT !.remote[c] = <<>>, !.local[c] = <<>>]
TakeOver(s, set) ==
  [s EXCEPT !.fg = [f \in Fgs |->
     IF f \notin set THEN @[f]
     ELSE [in_transition |-> FALSE, cur_cpu |-> @[f].target_cpu, target_cpu |-> None, prev_cpu |-> None]]]

(* Its end.                                                                 *)
Finish(s, c, from) ==
  [s EXCEPT !.info[c].prev_cpu = None, !.info[from].prev_cpu = None, !.cmd[s.info[from].prev_cpu].status = "READY"]
transition_handler_target(s, c, from) ==
  Finish(timer_reinject_fgs(Deliver(TakeOver(s, s.info[from].fgs), c), c), c, from)

Run(s, c, call) ==
  IF call.func = "transition_handler_target" THEN transition_handler_target(s, c, call.data)
  ELSE early_transition_handler_prev(s, c)

-----------------------------------------------------------------------------
(* The loop of sys_bpoll, step by step.                                     *)

At(c, from, to) == pc[c] = from /\ pc' = [pc EXCEPT ![c] = to] /\ UNCHANGED <<wire, sent, cmds>>

(* usys_reset, eth_process_reclaim and bsys_dispatch.                       *)
Enter(c) == At(c, "user", "cmd") /\ Becomes([State EXCEPT !.events[c] = FALSE])

Command(c) ==
  LET m == cmd[c]
  IN \/ At(c, "cmd", "book") /\ m.id = "NOP" /\ Becomes(State)
     \/ At(c, "cmd", "user") /\ m.id # "NOP" /\ events[c] /\ Becomes(State)
     \/ At(c, "cmd", "book") /\ m.id = "MIGRATE" /\ ~events[c]
          /\ Becomes([eth_fg_assign_to_cpu(c, m.fgs, m.cpu) EXCEPT !.cmd[c].id = "NOP"])
     \/ At(c, "cmd", "idle") /\ m.id = "IDLE" /\ ~events[c] /\ Becomes([State EXCEPT !.cmd[c] = Nop])

(* cp_idle: until the control plane writes to the fifo.  timer_init_cpu     *)
(* then moves the position of the wheel, and with IdleQuiet no timer of     *)
(* this module is on it.                                                    *)
cp_idle(c) == At(c, "idle", "book") /\ Becomes(State)

(* cpu_do_bookkeeping, the last call first.                                 *)
cpu_do_bookkeeping(c) ==
  At(c, "book", "timer")
    /\ Becomes(FoldLeft(LAMBDA s, r : Run(s, c, r), [State EXCEPT !.runlist[c] = <<>>], runlist[c]))

(* timer_run: the timeout is longer than a packet is on its way and than    *)
(* this CPU takes to poll it.                                               *)
Behind(c) ==
  \/ \E i \in DOMAIN wire : wire[i].cpu = c /\ wire[i].pkt.fg \in info[c].fgs
  \/ \E i \in DOMAIN ring[c] : ring[c][i].fg \in info[c].fgs
timer_run(c) ==
  \/ At(c, "timer", "poll") /\ Becomes(State)
  \/ At(c, "timer", "poll") /\ timeout[c] /\ ~Behind(c) /\ Becomes(transition_handler_prev(State, c))

Poll(c) == At(c, "poll", "recv") /\ Becomes(eth_process_poll(State, c))

(* eth_process_recv takes a batch; eth_process_send; and whether to go      *)
(* round again.                                                             *)
Recv(c) ==
  LET n == Min({Len(rxq[c]), Batch})
      s == [Input(State, c, SubSeq(rxq[c], 1, n)) EXCEPT !.rxq[c] = SubSeq(@, n + 1, Len(@))]
  IN \/ At(c, "recv", "user") /\ Becomes(s)
     \/ At(c, "recv", "cmd") /\ ~s.events[c] /\ Becomes(s)

Fires(c) == timeout[c] /\ timer_run(c) /\ ~timeout'[c]
Cpu(c) == Enter(c) \/ Command(c) \/ cpu_do_bookkeeping(c) \/ timer_run(c) \/ Poll(c) \/ Recv(c)

Next ==
  \/ Land \/ \E f \in Fgs : Arrive(f)
  \/ \E c \in Cpus : Cpu(c) \/ cp_idle(c) \/ BeIdle(c) \/ \E d \in Cpus \ {c} : Migrate(c, d)

Spec == Init /\ [][Next]_vars

(* Every CPU goes on with its loop, the card delivers, time passes.         *)
FairSpec ==
  Spec /\ WF_vars(Land) /\ \A c \in Cpus : WF_vars(Cpu(c)) /\ SF_vars(Fires(c))

-----------------------------------------------------------------------------

(* eth_input sees the packets of a flow group in the order they came and    *)
(* none is dropped, although two CPUs poll them while the group moves.      *)
InOrder == \A f \in Fgs : got[f] = [i \in 1 .. Len(got[f]) |-> i]

(* The timers of a flow group are on a wheel or in the list for its target: *)
(* timer_collect_fgs takes "all pending timer events" and the target        *)
(* inserts them.  When one command moves several groups only the timers of  *)
(* the last one are kept, for migrate_timers_to_remote empties the list for *)
(* each (ethfg.c:523).                                                      *)
TimersKept ==
  \A f \in Fgs \ together : \E c \in Cpus : f \in timers[c] \cup collected[c]

(* A timer of a flow group is never on the wheel of a CPU that does not own *)
(* the group: timer_run_bucket would set it current on the wrong CPU.       *)
TimerOwner == \A c \in Cpus : \A f \in timers[c] : fg[f].cur_cpu = c

(* When cp_idle wakes up, the wheel whose position timer_init_cpu resets    *)
(* has neither a timer of a flow group nor the timeout of a move on it,     *)
(* which the reset would leave behind.                                      *)
IdleQuiet == \A c \in Cpus : pc[c] = "idle" => timers[c] = {} /\ ~timeout[c]

(* What eth_fg_assign_to_cpu asserts: a CPU takes part in one move.         *)
OneMove ==
  \A c \in Cpus : pc[c] = "cmd" /\ cmd[c].id = "MIGRATE" =>
    /\ info[c].prev_cpu = None /\ info[cmd[c].cpu].prev_cpu = None
    /\ \A f \in cmd[c].fgs : ~fg[f].in_transition

(* The filter of a connection sends its packets to the CPU that owns the    *)
(* outbound group it is registered with.                                    *)
FilterOwner == \A c \in Cpus : out[conn[c].fg] = conn[c].filter

(* A command of the control plane is done at last.                          *)
Ready(c) == cmd[c].status = "READY"
CommandDone == \A c \in Cpus : []<>Ready(c)

=============================================================================
