--------------------------- MODULE RequestLifecycle ---------------------------
(***************************************************************************)
(* What the server promises for one request, whatever core holds it: the    *)
(* packet is received, admitted to a queue (or refused when no context is   *)
(* left), run by one worker at a time with any number of preemptions,       *)
(* answered at most once, and its buffer returned to the pool.              *)
(***************************************************************************)
EXTENDS Naturals, FiniteSets

CONSTANTS Mbuf, NumWorkers

VARIABLES status, answered

Status == {"pool", "received", "waiting", "running", "done"}

Running == {p \in Mbuf : status[p] = "running"}

Move(p, from, to) ==
  /\ status[p] = from
  /\ status' = [status EXCEPT ![p] = to]

Init ==
  /\ status = [p \in Mbuf |-> "pool"]
  /\ answered = {}

Receive(p) == Move(p, "pool", "received") /\ answered' = answered \ {p}

Admit(p) == Move(p, "received", "waiting") /\ UNCHANGED answered

Refuse(p) == Move(p, "received", "done") /\ UNCHANGED answered

Start(p) ==
  /\ Cardinality(Running) < NumWorkers
  /\ Move(p, "waiting", "running")
  /\ UNCHANGED answered

Preempt(p) ==
  /\ p \notin answered
  /\ Move(p, "running", "waiting")
  /\ UNCHANGED answered

Answer(p) ==
  /\ status[p] = "running" /\ p \notin answered
  /\ answered' = answered \cup {p}
  /\ UNCHANGED status

Finish(p) == Move(p, "running", "done") /\ UNCHANGED answered

Return(p) == Move(p, "done", "pool") /\ UNCHANGED answered

Next ==
  \E p \in Mbuf :
    \/ Receive(p) \/ Admit(p) \/ Refuse(p) \/ Start(p) \/ Preempt(p)
    \/ Answer(p) \/ Finish(p) \/ Return(p)

Spec == Init /\ [][Next]_<<status, answered>>
=============================================================================
