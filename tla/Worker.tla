-------------------------------- MODULE Worker --------------------------------
(***************************************************************************)
(* The worker cores (dp/core/worker.c).  do_work spins on its request slot, *)
(* runs the request in the request's own context, and reports it finished   *)
(* or preempted.                                                            *)
(*                                                                          *)
(* work_pc[w] is the point worker w is at:                                  *)
(*   init    before init_worker                                             *)
(*   poll    spinning on dispatcher_requests[w].flag                        *)
(*   take    the flag was seen ACTIVE                                       *)
(*   enter   the flag was reset, the request not yet looked at              *)
(*   run     in the request's context with interrupts enabled               *)
(*   reply   past the cli of generic_work                                   *)
(*   sent    the response, if there is one, was handed to udp_send          *)
(*   report  back on the control stack, about to write worker_responses[w]  *)
(*   flag    about to set worker_responses[w].flag                          *)
(* Interrupts are masked everywhere but at run.                             *)
(***************************************************************************)
EXTENDS Dispatch

VARIABLES
  work_pc,
  cont,        \* [Workers -> Ctx \cup {NULL}]: the context last run
  finished     \* [Workers -> BOOLEAN]

workVars == <<work_pc, cont, finished>>

WorkerPC == {"init", "poll", "take", "enter", "run", "reply", "sent", "report",
             "flag"}

WorkerInit ==
  /\ work_pc = [w \in Workers |-> "init"]
  /\ cont = [w \in Workers |-> NULL]
  /\ finished = [w \in Workers |-> FALSE]

Goto(w, from, to) ==
  /\ work_pc[w] = from
  /\ work_pc' = [work_pc EXCEPT ![w] = to]

(* What a worker never touches.                                              *)
dispatcherOnly == <<tskq, mqueue, poolVars, preempt_check, pointerVars>>

-----------------------------------------------------------------------------
init_worker(w) ==
  /\ Goto(w, "init", "poll")
  /\ response_flag' = [response_flag EXCEPT ![w] = "PROCESSED"]
  /\ UNCHANGED <<dispatcherOnly, requestVars, response, ipi, cont, finished,
                 frameVars>>

(* handle_request: leave the spin loop, then reset the flag.                 *)
poll_request(w) ==
  /\ Goto(w, "poll", "take")
  /\ request_flag[w] # "WAITING"
  /\ UNCHANGED <<dispatcherOnly, requestVars, responseVars, ipi, cont,
                 finished, frameVars>>

(* Mutant: the request flag is not reset.                                    *)
take_request_noreset(w) ==
  /\ Goto(w, "take", "enter")
  /\ UNCHANGED <<dispatcherOnly, requestVars, responseVars, ipi, cont, finished,
                 frameVars>>

take_request(w) ==
  /\ Goto(w, "take", "enter")
  /\ request_flag' = [request_flag EXCEPT ![w] = "WAITING"]
  /\ UNCHANGED <<dispatcherOnly, request, responseVars, ipi, cont, finished,
                 frameVars>>

(* handle_new_packet: parse_packet gives no data for a short frame, and the   *)
(* request is then over without cont having been set.                        *)
handle_new_packet(w) ==
  /\ request[w].category = "PACKET"
  /\ IF request[w].mbuf \notin short
     THEN /\ Goto(w, "enter", "run")
          /\ cont' = [cont EXCEPT ![w] = request[w].rnbl]
          /\ finished' = [finished EXCEPT ![w] = FALSE]
     ELSE /\ Goto(w, "enter", "report")
          /\ finished' = [finished EXCEPT ![w] = TRUE]
          /\ UNCHANGED cont
  /\ UNCHANGED <<dispatcherOnly, requestVars, responseVars, ipi, frameVars>>

(* Mutant: cont is not set when a request is resumed.                        *)
handle_context_stale(w) ==
  /\ request[w].category # "PACKET"
  /\ Goto(w, "enter", "run")
  /\ finished' = [finished EXCEPT ![w] = FALSE]
  /\ UNCHANGED <<dispatcherOnly, requestVars, responseVars, ipi, cont, frameVars>>

(* handle_context: resume a preempted request.                               *)
handle_context(w) ==
  /\ request[w].category # "PACKET"
  /\ Goto(w, "enter", "run")
  /\ finished' = [finished EXCEPT ![w] = FALSE]
  /\ cont' = [cont EXCEPT ![w] = request[w].rnbl]
  /\ UNCHANGED <<dispatcherOnly, requestVars, responseVars, ipi, frameVars>>

-----------------------------------------------------------------------------
(* Mutant: generic_work sends its response with interrupts enabled.          *)
test_handler_nocli(w) ==
  /\ ipi[w]
  /\ work_pc[w] \in {"run", "reply", "sent"}
  /\ work_pc' = [work_pc EXCEPT ![w] = "report"]
  /\ ipi' = [ipi EXCEPT ![w] = FALSE]
  /\ UNCHANGED <<dispatcherOnly, requestVars, responseVars, cont, finished,
                 frameVars>>

(* test_handler: the posted interrupt is taken where interrupts are enabled,  *)
(* and the request's context is left for the control stack.                  *)
test_handler(w) ==
  /\ ipi[w]
  /\ Goto(w, "run", "report")
  /\ ipi' = [ipi EXCEPT ![w] = FALSE]
  /\ UNCHANGED <<dispatcherOnly, requestVars, responseVars, cont, finished,
                 frameVars>>

(* generic_work: the work is done and interrupts are disabled.               *)
work_done(w) ==
  /\ Goto(w, "run", "reply")
  /\ UNCHANGED <<dispatcherOnly, requestVars, responseVars, ipi, cont,
                 finished, frameVars>>

(* generic_work sends a response, unless response_pool is empty or udp_send   *)
(* fails; in every case it goes on to end the request.                       *)
send_reply(w, ok) ==
  /\ Goto(w, "reply", "sent")
  /\ replied' = IF ok THEN replied \cup {request[w].mbuf} ELSE replied
  /\ UNCHANGED <<dispatcherOnly, requestVars, responseVars, ipi, cont,
                 finished, short>>

end_work(w) ==
  /\ Goto(w, "sent", "report")
  /\ finished' = [finished EXCEPT ![w] = TRUE]
  /\ UNCHANGED <<dispatcherOnly, requestVars, responseVars, ipi, cont,
                 frameVars>>

-----------------------------------------------------------------------------
(* finish_request: the response is copied from the request slot, which the    *)
(* dispatcher must not have reused, and the flag is set last.                *)
finish_request(w) ==
  /\ Goto(w, "report", "flag")
  /\ response' = [response EXCEPT ![w] =
                    [rnbl |-> cont[w], mbuf |-> request[w].mbuf,
                     type |-> request[w].type, category |-> "CONTEXT"]]
  /\ UNCHANGED <<dispatcherOnly, requestVars, response_flag, ipi, cont,
                 finished, frameVars>>

finish_flag(w) ==
  /\ Goto(w, "flag", "poll")
  /\ response_flag' =
       [response_flag EXCEPT ![w] = IF finished[w] THEN "FINISHED" ELSE "PREEMPTED"]
  /\ UNCHANGED <<dispatcherOnly, requestVars, response, ipi, cont, finished,
                 frameVars>>

WorkerNext(w) ==
  \/ init_worker(w)
  \/ poll_request(w)
  \/ take_request(w)
  \/ handle_new_packet(w)
  \/ handle_context(w)
  \/ test_handler(w)
  \/ work_done(w)
  \/ \E ok \in BOOLEAN : send_reply(w, ok)
  \/ end_work(w)
  \/ finish_request(w)
  \/ finish_flag(w)
=============================================================================
