----------------------------- MODULE ClientSetup -----------------------------
(***************************************************************************)
(* How the load generator (client/) spreads its threads over the queues of  *)
(* the card: the two main functions, the port of DpdkPortManager and the    *)
(* source ports that are to bring the responses to the right queue.         *)
(***************************************************************************)
EXTENDS Integers, SequencesExt

CONSTANTS
  Programs,   \* "single" is dpdk_main.cpp, "bimodal" is dpdk_bimodal_main.cpp
  Sends,      \* values of the argument send_threads
  Recvs,      \* values of the argument recv_threads
  DevQueues,  \* values of dev_info.max_rx_queues
  RetaSize,   \* entries of the redirection table
  Ports,      \* source ports that are tried: 1024 to 65535
  FallBack,   \* the first one for queues with no such port: 10000
  HighPort    \* ports above are not used: 60000

VARIABLES
  arg,        \* [program, send, recv, drain, queues, mul, add]: arguments, card and hash
  port,       \* the port manager: "none", "ready" or "failed"
  threads,    \* the threads in the order they were started: [kind, clients]
  joined,     \* indices of the threads that were joined
  pc

vars == <<arg, port, threads, joined, pc>>

Init ==
  /\ arg \in [program : Programs, send : Sends, recv : Recvs, drain : BOOLEAN, queues : DevQueues,
              mul : {1, 3, 5}, add : 0 .. RetaSize]
  /\ port = "none" /\ threads = <<>> /\ joined = {} /\ pc = "port"

Larger(a, b) == IF a > b THEN a ELSE b
Smaller(a, b) == IF a < b THEN a ELSE b

(* The numbers of threads, of queues and of clients that send.              *)
num_send == Larger(arg.send, 1)
num_recv ==
  LET r == Larger(arg.recv, 1)
  IN IF r <= num_send THEN r
     ELSE IF arg.program = "bimodal" THEN num_send ELSE num_send * (r \div num_send)
num_send_clients == IF arg.program = "bimodal" THEN num_send ELSE Larger(num_recv, num_send)
num_queues == Smaller(num_send_clients, arg.queues)

(* The hash of the card, any function of the port that spreads ports.       *)
Hash(p) == arg.mul * p + arg.add

compute_rss_port_for_queue(q, n) ==
  LET hits == {p \in Ports : Hash(p) % n = q}
  IN IF hits = {} THEN FallBack + q ELSE Min(hits)

(* A client of either kind: the constructor and its queue ids.              *)
Client(i) ==
  LET p == compute_rss_port_for_queue(i, num_queues)
  IN [id |-> i, port |-> IF p > HighPort THEN Min(Ports) + i ELSE p, queue |-> i % num_queues]

(* The queue the card puts a response in, by the table initialize writes.   *)
Steer(p) == (Hash(p) % RetaSize) % num_queues

(* DpdkPortManager::initialize: any of its steps may fail.                  *)
initialize ==
  /\ pc = "port"
  /\ \/ port' = "ready" /\ pc' = "threads"
     \/ port' = "failed" /\ pc' = "end"
  /\ UNCHANGED <<arg, threads, joined>>

(* The clients of send thread i.                                            *)
clients_per_send == num_send_clients \div num_send
SendClients(i) == {Client(j) : j \in i * clients_per_send .. (i + 1) * clients_per_send - 1}
SendThread(i) == <<[kind |-> "send", clients |-> SendClients(i)]>>
RecvThread(i) == <<[kind |-> "recv", clients |-> {Client(i)}]>>
Concat(n, op(_)) == FlattenSeq([i \in 1 .. n |-> op(i - 1)])

StartThreads ==
  /\ pc = "threads"
  /\ threads' = IF arg.program = "single" THEN Concat(num_send, SendThread) \o Concat(num_recv, RecvThread)
                ELSE Concat(num_send, LAMBDA i : SendThread(i) \o (IF i < num_recv THEN RecvThread(i) ELSE <<>>))
  /\ pc' = "join"
  /\ UNCHANGED <<arg, port, joined>>

(* The threads that are joined, senders first when draining; the indices    *)
(* may be past the last thread, and what follows is undefined.              *)
Joined ==
  IF ~arg.drain THEN DOMAIN threads
  ELSE IF arg.program = "single" THEN 1 .. num_send + num_recv
  ELSE {2 * i + 1 : i \in 0 .. num_send - 1} \cup {2 * i + 2 : i \in 0 .. num_recv - 1}

Join ==
  /\ pc = "join"
  /\ joined' = Joined
  /\ pc' = IF Joined \subseteq DOMAIN threads THEN "end" ELSE "broken"
  /\ UNCHANGED <<arg, port, threads>>

Next == initialize \/ StartThreads \/ Join

Spec == Init /\ [][Next]_vars

-----------------------------------------------------------------------------

Of(kind) == {t \in ToSet(threads) : t.kind = kind}
Sending == UNION {t.clients : t \in Of("send")}
Receiving == UNION {t.clients : t \in Of("recv")}

(* The responses to a sender come to a queue that is polled by a receiver   *)
(* whose client_port_ parsePacket accepts, for each sender that has a       *)
(* receiver and a queue of the card, if the number of queues divides the    *)
(* redirection table: the port is looked for with the hash modulo the       *)
(* number of queues (dpdk_client.cpp:42), the card takes it modulo the      *)
(* table first.  With fewer receivers than senders, the default, the        *)
(* queues of the other senders are polled by nobody.                        *)
Received ==
  RetaSize % num_queues = 0 =>
    \A s \in Sending : s.id < Smaller(num_recv, num_queues) =>
      \E r \in Receiving : r.port = s.port /\ r.queue = Steer(s.port)

(* No two threads send on one queue or poll one queue, unless the card has  *)
(* fewer queues than there are clients: the bursts of a queue are not for   *)
(* several threads.                                                         *)
QueueAlone ==
  arg.queues >= num_send_clients => \A i, j \in DOMAIN threads : i # j /\ threads[i].kind = threads[j].kind =>
    {c.queue : c \in threads[i].clients} \cap {c.queue : c \in threads[j].clients} = {}

(* Every thread is joined before its client is deleted, with and without    *)
(* draining, and nothing else is, unless dpdk_bimodal_main.cpp drains with  *)
(* at least two more senders than receivers: its threads[i * 2] then goes   *)
(* past the last thread (264-266).                                          *)
JoinAll ==
  /\ pc = "end" /\ port = "ready" => joined = DOMAIN threads
  /\ pc = "broken" => /\ arg.program = "bimodal" /\ arg.drain
                      /\ num_recv + 1 < num_send

=============================================================================
