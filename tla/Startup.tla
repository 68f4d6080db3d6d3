------------------------------- MODULE Startup -------------------------------
(***************************************************************************)
(* How the cores come up: main and init_hw on CPU 0, start_cpu on the       *)
(* others (dp/core/init.c), and the queues they take from the devices       *)
(* (dp/core/ethdev.c).  A failing step ends the process.                    *)
(*                                                                          *)
(* pc of CPU 0: "ethdev" (init_ethdev), "percpu" (init_create_cpu),         *)
(* "create" (pthread_create), "wait" and "sleep" (the loop on               *)
(* started_cpus), then "barrier", "arrived", "loop" (do_dispatching).       *)
(* pc of the others: "none", "born" (cpu_init_one), "percpu", "rx"          *)
(* (init_rx_queue), "load" and "store" (started_cpus++), "await" (the       *)
(* networker's spin), "start" (init_network_cpu), then as CPU 0.            *)
(***************************************************************************)
EXTENDS Integers, FiniteSets

CONSTANTS
  NumCpus,      \* CFG.num_cpus
  NumEthdev,    \* CFG.num_ethdev
  TxLimits,     \* what a device may report as max_tx_queues
  RxLimits      \* ... and as max_rx_queues

ASSUME StartupAssumption ==
  /\ NumCpus \in Nat /\ NumCpus >= 2
  /\ NumEthdev \in Nat \ {0}
  /\ TxLimits \subseteq Nat /\ RxLimits \subseteq Nat

ETH_RSS_RETA_MAX_QUEUE == 16

Cpus == 0 .. NumCpus - 1
Threads == Cpus \ {0}
Devs == 0 .. NumEthdev - 1
None == -1

VARIABLES
  pc,             \* where each CPU is
  i,              \* init_hw's loop variable
  dev,            \* each CPU's index in its loop over the devices
  tmp,            \* the value a thread loaded for started_cpus++
  started_cpus,
  max_tx_queues, max_rx_queues, nb_tx_queues, nb_rx_queues,
  eth_txqs,       \* eth_txqs[c][d]: the index of CPU c's TX queue of d
  eth_rxqs,       \* the index of the RX queue of each device
  dev_started,    \* the devices that eth_dev_start has started
  halted          \* the process has exited

queues == <<nb_tx_queues, nb_rx_queues, eth_txqs, eth_rxqs>>
limits == <<max_tx_queues, max_rx_queues>>
vars == <<pc, i, dev, tmp, started_cpus, limits, queues, dev_started, halted>>

Init ==
  /\ pc = [c \in Cpus |-> IF c = 0 THEN "ethdev" ELSE "none"]
  /\ i = 1
  /\ dev = [c \in Cpus |-> 0]
  /\ tmp = [c \in Threads |-> 0]
  /\ started_cpus = 0
  /\ max_tx_queues = [d \in Devs |-> 0] /\ max_rx_queues = [d \in Devs |-> 0]
  /\ nb_tx_queues = [d \in Devs |-> 0] /\ nb_rx_queues = [d \in Devs |-> 0]
  /\ eth_txqs = [c \in Cpus |-> [d \in Devs |-> None]]
  /\ eth_rxqs = [d \in Devs |-> None]
  /\ dev_started = {}
  /\ halted = FALSE

Goto(c, from, to) ==
  ~halted /\ pc[c] = from /\ pc' = [pc EXCEPT ![c] = to]

(* The step of a loop over the devices that CPU c runs at from.             *)
NextDev(c, from, to) ==
  IF dev[c] + 1 < NumEthdev
  THEN Goto(c, from, from) /\ dev' = [dev EXCEPT ![c] = @ + 1]
  ELSE Goto(c, from, to) /\ dev' = [dev EXCEPT ![c] = 0]

(* panic and exit.                                                          *)
Exit ==
  /\ ~halted /\ halted' = TRUE
  /\ UNCHANGED <<pc, i, dev, tmp, started_cpus, limits, queues, dev_started>>

(* eth_dev_add: the limits a device reports.                                *)
eth_dev_add(d) ==
  \E t \in TxLimits, r \in RxLimits :
    /\ max_tx_queues' = [max_tx_queues EXCEPT ![d] = t]
    /\ max_rx_queues' = [max_rx_queues EXCEPT ![d] =
         IF r < ETH_RSS_RETA_MAX_QUEUE THEN r ELSE ETH_RSS_RETA_MAX_QUEUE]

(* One device of init_ethdev.                                               *)
init_ethdev ==
  /\ NextDev(0, "ethdev", "percpu")
  /\ eth_dev_add(dev[0])
  /\ UNCHANGED <<i, tmp, started_cpus, queues, dev_started, halted>>

(* The tests of the limits of a device; the code has > in one, >= in the    *)
(* other.                                                                   *)
TxRefused(d) == nb_tx_queues[d] > max_tx_queues[d]
RxRefused(d) == nb_rx_queues[d] >= max_rx_queues[d]

(* eth_dev_get_tx_queue without nb_tx_queues++.                             *)
eth_dev_get_tx_queue_nocount(c, d) ==
  /\ ~TxRefused(d)
  /\ eth_txqs' = [eth_txqs EXCEPT ![c][d] = nb_tx_queues[d]]
  /\ UNCHANGED nb_tx_queues

(* eth_dev_get_tx_queue, under eth_dev_lock, when it succeeds.              *)
eth_dev_get_tx_queue(c, d) ==
  /\ ~TxRefused(d)
  /\ nb_tx_queues' = [nb_tx_queues EXCEPT ![d] = @ + 1]
  /\ eth_txqs' = [eth_txqs EXCEPT ![c][d] = nb_tx_queues[d]]

(* eth_dev_get_rx_queue, under eth_dev_lock, when it succeeds.              *)
eth_dev_get_rx_queue(d) ==
  /\ ~RxRefused(d)
  /\ nb_rx_queues' = [nb_rx_queues EXCEPT ![d] = @ + 1]
  /\ eth_rxqs' = [eth_rxqs EXCEPT ![d] = nb_rx_queues[d]]

(* One device of init_tx_queues, the part of init_create_cpu that is        *)
(* shared.                                                                  *)
init_tx_queues(c) ==
  /\ NextDev(c, "percpu", CASE c = 0 -> "create" [] c = 1 -> "rx"
                            [] OTHER -> "load")
  /\ eth_dev_get_tx_queue(c, dev[c])
  /\ UNCHANGED <<i, tmp, started_cpus, limits, nb_rx_queues, eth_rxqs,
                 dev_started, halted>>

pthread_create ==
  /\ ~halted /\ pc[0] = "create"
  /\ pc' = [pc EXCEPT ![0] = "wait", ![i] = "born"]
  /\ UNCHANGED <<i, dev, tmp, started_cpus, limits, queues, dev_started,
                 halted>>

(* The wait without its loop.                                               *)
wait_started_once ==
  /\ Goto(0, "wait", IF i + 1 < NumCpus THEN "create" ELSE "barrier")
  /\ i' = i + 1
  /\ UNCHANGED <<dev, tmp, started_cpus, limits, queues, dev_started, halted>>

(* The wait without its usleep.                                             *)
wait_started_spin ==
  /\ Goto(0, "wait", IF started_cpus # i THEN "wait"
                     ELSE IF i + 1 < NumCpus THEN "create" ELSE "barrier")
  /\ i' = IF started_cpus # i THEN i ELSE i + 1
  /\ UNCHANGED <<dev, tmp, started_cpus, limits, queues, dev_started, halted>>

(* The test of the loop on started_cpus, and the for loop around it.        *)
wait_started ==
  /\ IF started_cpus # i
     THEN Goto(0, "wait", "sleep") /\ UNCHANGED i
     ELSE /\ Goto(0, "wait", IF i + 1 < NumCpus THEN "create" ELSE "barrier")
          /\ i' = i + 1
  /\ UNCHANGED <<dev, tmp, started_cpus, limits, queues, dev_started, halted>>

usleep ==
  /\ Goto(0, "sleep", "wait")
  /\ UNCHANGED <<i, dev, tmp, started_cpus, limits, queues, dev_started,
                 halted>>

(* A new thread inherits CPU 0 and moves to its own core.                   *)
cpu_init_one(c) ==
  /\ Goto(c, "born", "percpu")
  /\ UNCHANGED <<i, dev, tmp, started_cpus, limits, queues, dev_started,
                 halted>>

(* One device of init_rx_queue.                                             *)
init_rx_queue ==
  /\ NextDev(1, "rx", "load")
  /\ eth_dev_get_rx_queue(dev[1])
  /\ UNCHANGED <<i, tmp, started_cpus, limits, nb_tx_queues, eth_txqs,
                 dev_started, halted>>

(* started_cpus++ is a load and a store: it is volatile, not atomic.        *)
load_started(c) ==
  /\ Goto(c, "load", "store")
  /\ tmp' = [tmp EXCEPT ![c] = started_cpus]
  /\ UNCHANGED <<i, dev, started_cpus, limits, queues, dev_started, halted>>

store_started(c) ==
  /\ Goto(c, "store", IF c = 1 THEN "await" ELSE "barrier")
  /\ started_cpus' = tmp[c] + 1
  /\ UNCHANGED <<i, dev, tmp, limits, queues, dev_started, halted>>

(* The networker's spin without its condition.                              *)
await_started_none ==
  /\ Goto(1, "await", "start")
  /\ UNCHANGED <<i, dev, tmp, started_cpus, limits, queues, dev_started,
                 halted>>

(* The networker's spin: the TX queues of all CPUs are set up.              *)
await_started ==
  /\ started_cpus = NumCpus - 1
  /\ Goto(1, "await", "start")
  /\ UNCHANGED <<i, dev, tmp, started_cpus, limits, queues, dev_started,
                 halted>>

(* One device of init_network_cpu; a device without RX queues is skipped.   *)
init_network_cpu ==
  /\ NextDev(1, "start", "barrier")
  /\ dev_started' = dev_started \cup
       {d \in {dev[1]} : nb_rx_queues[d] # 0}
  /\ UNCHANGED <<i, tmp, started_cpus, limits, queues, halted>>

barrier_arrive(c) ==
  /\ Goto(c, "barrier", "arrived")
  /\ UNCHANGED <<i, dev, tmp, started_cpus, limits, queues, dev_started,
                 halted>>

Arrived == {c \in Cpus : pc[c] \in {"arrived", "loop"}}

(* The barrier initialised without the networker.                           *)
barrier_leave_early(c) ==
  /\ Cardinality(Arrived) >= NumCpus - 1
  /\ Goto(c, "arrived", "loop")
  /\ UNCHANGED <<i, dev, tmp, started_cpus, limits, queues, dev_started,
                 halted>>

(* The barrier was initialised with num_cpus: the last one frees them all.  *)
barrier_leave(c) ==
  /\ Cardinality(Arrived) = NumCpus
  /\ Goto(c, "arrived", "loop")
  /\ UNCHANGED <<i, dev, tmp, started_cpus, limits, queues, dev_started,
                 halted>>

(* A device with no queue left refuses, and that ends the process.          *)
Refused(c) ==
  IF pc[c] = "rx" THEN RxRefused(dev[c])
  ELSE pc[c] = "percpu" /\ TxRefused(dev[c])

(* Where a step may fail for another reason: the devices, the per-CPU       *)
(* tables, pthread_create, the core, the queues.                            *)
Fallible == {"ethdev", "percpu", "create", "born", "rx", "start"}

refuse(c) == Refused(c) /\ Exit

fail(c) == pc[c] \in Fallible /\ Exit

main_step ==
  init_ethdev \/ init_tx_queues(0) \/ pthread_create \/ wait_started \/ usleep

networker_step == init_rx_queue \/ await_started \/ init_network_cpu

thread_step(c) == init_tx_queues(c) \/ load_started(c) \/ store_started(c)

cpu_step(c) == barrier_arrive(c) \/ barrier_leave(c) \/ refuse(c)

(* The cores run their loops, or the process is over.                       *)
Over == halted \/ \A c \in Cpus : pc[c] = "loop"

Next ==
  \/ main_step
  \/ networker_step
  \/ \E c \in Threads : cpu_init_one(c) \/ thread_step(c)
  \/ \E c \in Cpus : cpu_step(c) \/ fail(c)
  \/ Over /\ UNCHANGED vars

Spec == Init /\ [][Next]_vars

(***************************************************************************)
(* Every thread that has a core of its own runs.  A new thread still has    *)
(* the affinity and the FIFO priority of CPU 0, which main occupies: it is  *)
(* sure to run only while main sleeps.                                      *)
(***************************************************************************)
FairSpec ==
  /\ Spec
  /\ WF_vars(main_step)
  /\ WF_vars(networker_step)
  /\ \A c \in Threads :
       /\ SF_vars(pc[0] = "sleep" /\ cpu_init_one(c))
       /\ WF_vars(thread_step(c))
  /\ \A c \in Cpus : WF_vars(cpu_step(c))

-----------------------------------------------------------------------------
MainPC == {"ethdev", "percpu", "create", "wait", "sleep", "barrier",
           "arrived", "loop"}
ThreadPC == {"none", "born", "percpu", "rx", "load", "store", "await",
             "start", "barrier", "arrived", "loop"}

(* The state has its type; the loops of the CPUs over the devices stay in   *)
(* range.                                                                   *)
TypeOK ==
  /\ pc \in [Cpus -> MainPC \cup ThreadPC]
  /\ pc[0] \in MainPC
  /\ i \in Nat \ {0}
  /\ dev \in [Cpus -> Devs]
  /\ tmp \in [Threads -> Nat]
  /\ started_cpus \in Nat
  /\ max_tx_queues \in [Devs -> Nat]
  /\ max_rx_queues \in [Devs -> 0 .. ETH_RSS_RETA_MAX_QUEUE]
  /\ nb_tx_queues \in [Devs -> Nat]
  /\ nb_rx_queues \in [Devs -> Nat]
  /\ eth_txqs \in [Cpus -> [Devs -> Nat \cup {None}]]
  /\ eth_rxqs \in [Devs -> Nat \cup {None}]
  /\ dev_started \subseteq Devs
  /\ halted \in BOOLEAN

(* A thread's increment of started_cpus is in memory.                       *)
CountedPC == {"await", "start", "barrier", "arrived", "loop"}
Counted(c) == pc[c] \in CountedPC

(* started_cpus is the number of threads whose started_cpus++ is done,      *)
(* although the increments are not atomic: init_hw creates a thread only    *)
(* when it has seen the increment of the one before.                        *)
NoLostIncrement == started_cpus = Cardinality({c \in Threads : Counted(c)})

(* init_network_cpu starts a device only when every CPU has its TX queue of *)
(* that device and the networker its RX queue (the comment in start_cpu).   *)
DeviceAfterQueues ==
  \A d \in dev_started :
    /\ eth_rxqs[d] # None
    /\ \A c \in Cpus : eth_txqs[c][d] # None

(* eth_dev_get_tx_queue gives no two CPUs the same TX queue of a device:    *)
(* the transmit path takes no lock.                                         *)
TxQueuesDistinct ==
  \A c, e \in Cpus, d \in Devs :
    c # e /\ eth_txqs[c][d] # None => eth_txqs[c][d] # eth_txqs[e][d]

(* No CPU enters do_dispatching, do_networking or do_work before all the    *)
(* devices have been started and all CPUs have reached the barrier.         *)
LoopsAfterStart ==
  (\E c \in Cpus : pc[c] = "loop") => dev_started = Devs /\ Arrived = Cpus

-----------------------------------------------------------------------------
(* The inductive invariant.                                                  *)

(* init_hw brings the threads up one at a time.                              *)
SerialInv ==
  /\ i \in 1 .. NumCpus
  /\ pc[0] \in {"ethdev", "percpu"} => i = 1
  /\ pc[0] \in {"create", "wait", "sleep"} => i < NumCpus
  /\ pc[0] \in {"barrier", "arrived", "loop"} => i = NumCpus
  /\ \A c \in Threads : c < i => Counted(c)
  /\ \A c \in Threads : c > i => pc[c] = "none"
  /\ i \in Threads => (pc[i] = "none" <=> pc[0] \notin {"wait", "sleep"})
  /\ started_cpus = IF i \in Threads /\ Counted(i) THEN i ELSE i - 1
  /\ \A c \in Threads : pc[c] = "store" => tmp[c] = started_cpus

(* CPU c has taken its TX queue of device d; the networker its RX queue.     *)
TxDone(c, d) ==
  \/ pc[c] \notin {"ethdev", "percpu", "none", "born"}
  \/ pc[c] = "percpu" /\ d < dev[c]
RxDone(d) ==
  \/ pc[1] \notin {"none", "born", "percpu", "rx"}
  \/ pc[1] = "rx" /\ d < dev[1]

(* Queues are taken in order, each CPU's from every device.                  *)
QueueInv ==
  /\ \A c \in Cpus : pc[c] \notin {"ethdev", "percpu", "rx", "start"} => dev[c] = 0
  /\ \A c \in Cpus, d \in Devs : TxDone(c, d) => eth_txqs[c][d] # None
  /\ \A c \in Cpus, d \in Devs : eth_txqs[c][d] < nb_tx_queues[d]
  /\ \A d \in Devs : RxDone(d) => eth_rxqs[d] # None /\ nb_rx_queues[d] > 0
  /\ TxQueuesDistinct

(* The networker starts the devices between its spin and the barrier.        *)
StartInv ==
  /\ pc[1] \in {"start", "barrier", "arrived", "loop"} => started_cpus = NumCpus - 1
  /\ pc[1] \notin {"start", "barrier", "arrived", "loop"} => dev_started = {}
  /\ pc[1] = "start" => \A d \in Devs : d < dev[1] => d \in dev_started
  /\ pc[1] \in {"barrier", "arrived", "loop"} => dev_started = Devs
  /\ (\E c \in Cpus : pc[c] = "loop") => Arrived = Cpus

(* The start-up is serial up to the barrier, queues are complete when the    *)
(* devices start, and devices are started before the barrier opens: the      *)
(* invariant behind the properties of init_hw and start_cpu.                 *)
StartupInv == SerialInv /\ QueueInv /\ StartInv

(* Unless a step of the start-up fails and the process exits, every CPU     *)
(* reaches its loop: neither wait on started_cpus nor the barrier blocks    *)
(* forever.                                                                 *)
AllReachLoop == <>Over

(* eth_dev_get_tx_queue sets up at most max_tx_queues queues of a device,   *)
(* the "Maximum number of TX queues" of inc/ix/ethdev.h.                     *)
TxQueuesBounded == \A d \in Devs : nb_tx_queues[d] <= max_tx_queues[d]
=============================================================================
