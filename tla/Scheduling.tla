----------------------------- MODULE Scheduling -----------------------------
(***************************************************************************)
(* Which request the dispatcher serves next, with the time that Dispatcher  *)
(* leaves out: the queue whose head has waited longest for its objective    *)
(* (smart_tskq_dequeue), and preemption after a quantum.                    *)
(*                                                                          *)
(* A task is [age, need, left]: the time since its time stamp, the work it  *)
(* came with and the work it still needs.  One iteration of do_dispatching  *)
(* takes one unit of time, in which a running worker does one unit of work. *)
(***************************************************************************)
EXTENDS Integers, FiniteSets, SequencesExt

CONSTANTS
  NumWorkers,   \* CFG.num_cpus - 2
  Slo1, Slo2,   \* CFG.slos, 0 for one that is not given
  Work,         \* units of work a request may need
  Quantum,      \* PREEMPTION_DELAY
  QueueBound,   \* requests of one type in the system
  WaitBound,    \* the longest a request is in the system
  ShortBound    \* ... if it needs one unit of work

(* What the constants are.                                                  *)
SchedulingAssumption == NumWorkers \in Nat \ {0} /\ Slo1 \in Nat /\ Slo2 \in Nat /\ Quantum \in Nat

slos == <<Slo1, Slo2>>
Types == DOMAIN slos
Workers == 1 .. NumWorkers

VARIABLES
  tskq,     \* the queue of each type
  worker,   \* of each worker its flag, task, time since dispatch, preempt_check and interrupt
  pc        \* whether the dispatcher or time is next

vars == <<tskq, worker, pc>>

Idle == [flag |-> "PROCESSED", type |-> 1, task |-> [age |-> 0, need |-> 0, left |-> 0], since |-> 0,
         check |-> FALSE, ipi |-> FALSE]

Init ==
  /\ tskq = [t \in Types |-> <<>>]
  /\ worker = [w \in Workers |-> Idle]
  /\ pc = "dispatch"

-----------------------------------------------------------------------------
(* Queue i of q is more urgent than queue j: age / slo is greater, and it   *)
(* is infinite without an objective.                                        *)
Urgent(q, i, j) == slos[j] # 0 /\ (slos[i] = 0 \/ q[i][1].age * slos[j] > q[j][1].age * slos[i])

(* The queue smart_tskq_dequeue serves, if any: the first of the most       *)
(* urgent, but no head that came at this very instant. The first form       *)
(* takes the first queue (naive_tskq_dequeue).                              *)
Heads(q) == {t \in Types : q[t] # <<>> /\ q[t][1].age > 0}
smart_tskq_dequeue_naive(q) == {t \in Heads(q) : \A u \in Heads(q) : t <= u}
smart_tskq_dequeue(q) ==
  {t \in Heads(q) : \A u \in Heads(q) : ~Urgent(q, u, t) /\ (u < t => Urgent(q, t, u))}

(* A preempted task goes to the tail of its queue with its time stamp.      *)
handle_preempted(q, r) == [q EXCEPT ![r.type] = Append(@, r.task)]

dispatch_request(s, w) ==
  LET served == smart_tskq_dequeue(s.tskq)
  IN IF served = {} THEN [s EXCEPT !.worker[w] = Idle]
     ELSE LET t == CHOOSE t \in served : TRUE
          IN [tskq |-> [s.tskq EXCEPT ![t] = Tail(@)],
              worker |-> [s.worker EXCEPT ![w] = [Idle EXCEPT !.flag = "RUNNING", !.type = t, !.task = Head(s.tskq[t]),
                                                              !.check = TRUE]]]

preempt_worker(r) == IF r.check /\ r.since > Quantum THEN [r EXCEPT !.check = FALSE, !.ipi = TRUE] ELSE r

handle_worker(s, w) ==
  LET r == s.worker[w]
  IN CASE r.flag = "RUNNING" -> [s EXCEPT !.worker[w] = preempt_worker(r)]
       [] r.flag = "PREEMPTED" -> dispatch_request([s EXCEPT !.tskq = handle_preempted(@, r)], w)
       [] OTHER -> dispatch_request(s, w)

(* One iteration: the workers in turn, then the packets of the networker,   *)
(* at most one of each type, which get the time the iteration began at.     *)
InSystem(s, t) == Len(s.tskq[t]) + Cardinality({w \in Workers : s.worker[w].flag # "PROCESSED" /\ s.worker[w].type = t})
do_dispatching ==
  /\ pc = "dispatch" /\ pc' = "time"
  /\ LET s == FoldLeft(handle_worker, [tskq |-> tskq, worker |-> worker], [w \in Workers |-> w])
     IN \E new \in [Types -> Work \cup {0}] :
          /\ \A t \in Types : new[t] # 0 => InSystem(s, t) < QueueBound
          /\ worker' = s.worker
          /\ tskq' = [t \in Types |-> IF new[t] = 0 THEN s.tskq[t]
                                      ELSE Append(s.tskq[t], [age |-> 0, need |-> new[t], left |-> new[t]])]

(* A unit of time: running workers finish, or meet the interrupt.           *)
Older(task) == [task EXCEPT !.age = @ + 1]
Run(r) ==
  IF r.flag # "RUNNING" THEN r
  ELSE [r EXCEPT !.task = [Older(@) EXCEPT !.left = @ - 1], !.since = @ + 1,
                 !.flag = IF r.task.left = 1 THEN "FINISHED" ELSE IF r.ipi THEN "PREEMPTED" ELSE "RUNNING"]
Elapse ==
  /\ pc = "time" /\ pc' = "dispatch"
  /\ tskq' = [t \in Types |-> [i \in DOMAIN tskq[t] |-> Older(tskq[t][i])]]
  /\ worker' = [w \in Workers |-> Run(worker[w])]

Next == do_dispatching \/ Elapse

Spec == Init /\ [][Next]_vars

-----------------------------------------------------------------------------

Tasks == UNION ({ToSet(tskq[t]) : t \in Types} \cup {{worker[w].task} : w \in Workers})

(* No request type is starved: with an objective for every type a request   *)
(* leaves within a fixed time however requests arrive, and a short one      *)
(* sooner, since longer ones of its type are preempted.                     *)
NoStarvation == \A k \in Tasks : k.age <= IF k.need <= 1 THEN ShortBound ELSE WaitBound

(* No worker is left idle while a request waits, late or not.               *)
Conserving == pc = "time" => (\A w \in Workers : worker[w].flag # "PROCESSED") \/ Heads(tskq) = {}

=============================================================================
