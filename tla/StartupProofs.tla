---------------------------- MODULE StartupProofs ----------------------------
(***************************************************************************)
(* The safety properties of Startup for any number of CPUs and devices.     *)
(***************************************************************************)
EXTENDS Startup, FiniteSetTheorems, TLAPS

(* CPU 0 runs init_hw, CPU 1 the networker, the others are threads too; a   *)
(* loop over the devices starts at device 0.                                *)
LEMMA CpuFacts ==
  /\ 0 \in Cpus /\ 1 \in Cpus /\ 1 \in Threads /\ 0 \notin Threads
  /\ Threads \subseteq Cpus
  /\ \A c \in Cpus : c # 0 => c \in Threads
  /\ 0 \in Devs
  /\ \A d \in Devs : d \in Nat /\ (d + 1 < NumEthdev => d + 1 \in Devs)
BY StartupAssumption DEF Cpus, Threads, Devs

(* A CPU that moves keeps the type of the program counters of init_hw and   *)
(* start_cpu.                                                               *)
LEMMA GotoType ==
  ASSUME TypeOK, NEW c \in Cpus, NEW to \in MainPC \cup ThreadPC,
         c = 0 => to \in MainPC, pc' = [pc EXCEPT ![c] = to]
  PROVE  pc' \in [Cpus -> MainPC \cup ThreadPC] /\ pc'[0] \in MainPC
BY CpuFacts, Zenon DEF TypeOK

(* The loop over the devices keeps its index in range.                      *)
LEMMA NextDevType ==
  ASSUME TypeOK, NEW c \in Cpus, NEW from, NEW to, NextDev(c, from, to)
  PROVE  dev' \in [Cpus -> Devs]
<1>1. dev \in [Cpus -> Devs] /\ dev[c] \in Devs
  BY Zenon DEF TypeOK
<1>2. CASE dev[c] + 1 < NumEthdev
  <2>1. dev' = [dev EXCEPT ![c] = dev[c] + 1]
    BY Zenon, <1>2 DEF NextDev
  <2>2. dev[c] + 1 \in Devs
    BY Zenon, <1>1, <1>2, CpuFacts
  <2> QED
    BY Zenon, <1>1, <2>1, <2>2
<1>3. CASE ~(dev[c] + 1 < NumEthdev)
  <2>1. dev' = [dev EXCEPT ![c] = 0]
    BY Zenon, <1>3 DEF NextDev
  <2> QED
    BY Zenon, <1>1, <2>1, CpuFacts
<1> QED
  BY Zenon, <1>2, <1>3

(* What NextDev does to a program counter: it stays or moves on.            *)
LEMMA NextDevMove ==
  ASSUME NEW c, NEW from, NEW to, NextDev(c, from, to)
  PROVE  /\ pc[c] = from
         /\ pc' = [pc EXCEPT ![c] = from] \/ pc' = [pc EXCEPT ![c] = to]
BY Zenon DEF NextDev, Goto

(* Every variable of init_hw, start_cpu and the devices keeps its type.     *)
THEOREM StartupType == Spec => []TypeOK
<1> DEFINE PcOK == pc \in [Cpus -> MainPC \cup ThreadPC] /\ pc[0] \in MainPC
<1>1. Init => TypeOK
  <2> SUFFICES ASSUME Init PROVE TypeOK
    OBVIOUS
  <2>1. PcOK
    BY Zenon, CpuFacts DEF Init, MainPC, ThreadPC
  <2>2. max_rx_queues \in [Devs -> 0 .. ETH_RSS_RETA_MAX_QUEUE]
    BY DEF Init, ETH_RSS_RETA_MAX_QUEUE
  <2> QED BY Zenon, <2>1, <2>2, CpuFacts DEF Init, TypeOK
<1>2. TypeOK /\ [Next]_vars => TypeOK'
  <2> SUFFICES ASSUME TypeOK, [Next]_vars PROVE TypeOK'
    OBVIOUS
  <2> USE CpuFacts DEF limits, queues
  <2>1. CASE init_ethdev
    <3>1. PcOK'
      BY ZenonT(60), <2>1, NextDevMove, GotoType DEF init_ethdev, MainPC
    <3>2. dev' \in [Cpus -> Devs]
      BY Zenon, <2>1, NextDevType DEF init_ethdev
    <3>3. max_tx_queues' \in [Devs -> Nat]
      BY <2>1, StartupAssumption DEF init_ethdev, eth_dev_add, TypeOK
    <3>4. max_rx_queues' \in [Devs -> 0 .. ETH_RSS_RETA_MAX_QUEUE]
      BY <2>1, StartupAssumption DEF init_ethdev, eth_dev_add, TypeOK, ETH_RSS_RETA_MAX_QUEUE
    <3> QED BY Zenon, <2>1, <3>1, <3>2, <3>3, <3>4 DEF init_ethdev, TypeOK
  <2>2. ASSUME NEW c \in Cpus, init_tx_queues(c) PROVE TypeOK'
    <3>1. PcOK'
      BY <2>2, NextDevMove, GotoType DEF init_tx_queues, MainPC, ThreadPC
    <3>2. dev' \in [Cpus -> Devs]
      BY Zenon, <2>2, NextDevType DEF init_tx_queues
    <3>3. nb_tx_queues' \in [Devs -> Nat]
      BY <2>2 DEF init_tx_queues, eth_dev_get_tx_queue, TypeOK
    <3>4. eth_txqs' \in [Cpus -> [Devs -> Nat \cup {None}]]
      <4>1. /\ dev[c] \in Devs /\ nb_tx_queues[dev[c]] \in Nat
            /\ eth_txqs' = [eth_txqs EXCEPT ![c][dev[c]] = nb_tx_queues[dev[c]]]
        BY Zenon, <2>2 DEF init_tx_queues, eth_dev_get_tx_queue, TypeOK
      <4>2. [eth_txqs[c] EXCEPT ![dev[c]] = nb_tx_queues[dev[c]]]
              \in [Devs -> Nat \cup {None}]
        BY Zenon, <2>2, <4>1 DEF TypeOK
      <4> QED BY Zenon, <2>2, <4>1, <4>2 DEF TypeOK
    <3> QED BY Zenon, <2>2, <3>1, <3>2, <3>3, <3>4 DEF init_tx_queues, TypeOK
  <2>3. CASE pthread_create
    <3>1. PcOK'
      BY Zenon, <2>3 DEF pthread_create, TypeOK, MainPC, ThreadPC
    <3> QED BY Zenon, <2>3, <3>1 DEF pthread_create, TypeOK
  <2>4. CASE wait_started
    <3>1. PcOK'
      BY Zenon, <2>4, GotoType DEF wait_started, Goto, MainPC
    <3> QED BY <2>4, <3>1 DEF wait_started, TypeOK
  <2>5. CASE usleep
    <3>1. PcOK'
      BY Zenon, <2>5, GotoType DEF usleep, Goto, MainPC
    <3> QED BY Zenon, <2>5, <3>1 DEF usleep, TypeOK
  <2>6. ASSUME NEW c \in Threads, cpu_init_one(c) PROVE TypeOK'
    <3>1. PcOK'
      BY Zenon, <2>6, GotoType DEF cpu_init_one, Goto, ThreadPC
    <3> QED BY Zenon, <2>6, <3>1 DEF cpu_init_one, TypeOK
  <2>7. CASE init_rx_queue
    <3>1. PcOK'
      BY ZenonT(60), <2>7, NextDevMove, GotoType DEF init_rx_queue, ThreadPC
    <3>2. dev' \in [Cpus -> Devs]
      BY Zenon, <2>7, NextDevType DEF init_rx_queue
    <3>3. /\ nb_rx_queues' \in [Devs -> Nat]
          /\ eth_rxqs' \in [Devs -> Nat \cup {None}]
      BY <2>7 DEF init_rx_queue, eth_dev_get_rx_queue, TypeOK
    <3> QED BY Zenon, <2>7, <3>1, <3>2, <3>3 DEF init_rx_queue, TypeOK
  <2>8. ASSUME NEW c \in Threads, load_started(c) PROVE TypeOK'
    <3>1. PcOK'
      BY Zenon, <2>8, GotoType DEF load_started, Goto, ThreadPC
    <3> QED BY Zenon, <2>8, <3>1 DEF load_started, TypeOK
  <2>9. ASSUME NEW c \in Threads, store_started(c) PROVE TypeOK'
    <3>1. PcOK'
      BY Zenon, <2>9, GotoType DEF store_started, Goto, ThreadPC
    <3> QED BY <2>9, <3>1 DEF store_started, TypeOK
  <2>10. CASE await_started
    <3>1. PcOK'
      BY Zenon, <2>10, GotoType DEF await_started, Goto, ThreadPC
    <3> QED BY Zenon, <2>10, <3>1 DEF await_started, TypeOK
  <2>11. CASE init_network_cpu
    <3>1. PcOK'
      BY <2>11, NextDevMove, GotoType DEF init_network_cpu, ThreadPC
    <3>2. dev' \in [Cpus -> Devs]
      BY Zenon, <2>11, NextDevType DEF init_network_cpu
    <3>3. dev_started' \subseteq Devs
      BY Zenon, <2>11 DEF init_network_cpu, TypeOK
    <3> QED BY Zenon, <2>11, <3>1, <3>2, <3>3 DEF init_network_cpu, TypeOK
  <2>12. ASSUME NEW c \in Cpus, barrier_arrive(c) \/ barrier_leave(c)
         PROVE  TypeOK'
    <3>1. PcOK'
      BY Zenon, <2>12, GotoType DEF barrier_arrive, barrier_leave, Goto, MainPC, ThreadPC
    <3> QED BY Zenon, <2>12, <3>1 DEF barrier_arrive, barrier_leave, TypeOK
  <2>13. CASE Exit
    BY Zenon, <2>13 DEF Exit, TypeOK
  <2>14. CASE UNCHANGED vars
    BY Zenon, <2>14 DEF vars, TypeOK
  <2> QED
    BY Zenon, <2>1, <2>2, <2>3, <2>4, <2>5, <2>6, <2>7, <2>8, <2>9, <2>10, <2>11,
       <2>12, <2>13, <2>14
    DEF Next, main_step, networker_step, thread_step, cpu_step, refuse, fail
<1> QED BY <1>1, <1>2, PTL DEF Spec

-----------------------------------------------------------------------------
(* A thread that moves without touching started_cpus, outside started_cpus++, *)
(* leaves the order in which init_hw creates threads as it is.              *)
LEMMA ThreadKeepsSerial ==
  ASSUME TypeOK, SerialInv, NEW c \in Threads, NEW to,
         pc' = [pc EXCEPT ![c] = to], pc[c] # "none", to \notin {"none", "store"},
         Counted(c) <=> to \in CountedPC,
         UNCHANGED <<i, tmp, started_cpus>>
  PROVE  SerialInv'
<1>1. /\ pc'[0] = pc[0] /\ pc'[c] = to
      /\ \A e \in Cpus : e # c => pc'[e] = pc[e]
  BY Zenon, CpuFacts DEF TypeOK
<1>2. \A e \in Threads : Counted(e)' <=> Counted(e)
  BY Zenon, <1>1, CpuFacts DEF Counted
<1>3. \A e \in Threads : pc'[e] = "none" <=> pc[e] = "none"
  BY Zenon, <1>1, CpuFacts
<1>4. \A e \in Threads : pc'[e] = "store" => pc[e] = "store"
  BY Zenon, <1>1, CpuFacts
<1> QED BY Zenon, <1>1, <1>2, <1>3, <1>4 DEF SerialInv

(* CPU 0 moving within a phase of init_hw leaves that order as it is.       *)
LEMMA MainKeepsSerial ==
  ASSUME TypeOK, SerialInv, NEW to, pc' = [pc EXCEPT ![0] = to],
         \/ pc[0] \in {"ethdev", "percpu"} /\ to \in {"ethdev", "percpu", "create"}
         \/ pc[0] \in {"wait", "sleep"} /\ to \in {"wait", "sleep"}
         \/ pc[0] \in {"barrier", "arrived"} /\ to \in {"arrived", "loop"},
         UNCHANGED <<i, tmp, started_cpus>>
  PROVE  SerialInv'
<1>1. pc'[0] = to /\ \A e \in Threads : pc'[e] = pc[e]
  BY Zenon, CpuFacts DEF TypeOK
<1>2. \A e \in Threads : Counted(e)' <=> Counted(e)
  BY Zenon, <1>1 DEF Counted
<1> QED BY <1>1, <1>2, StartupAssumption DEF SerialInv

(* The threads come up one at a time, and started_cpus counts them: the     *)
(* first layer of the invariant of init_hw and start_cpu.                   *)
THEOREM SerialInvariant == Spec => []SerialInv
<1>1. Init => SerialInv
  BY CpuFacts, StartupAssumption DEF Init, SerialInv, Counted, CountedPC, Cpus, Threads
<1>2. TypeOK /\ SerialInv /\ [Next]_vars => SerialInv'
  <2> SUFFICES ASSUME TypeOK, SerialInv, [Next]_vars PROVE SerialInv'
    OBVIOUS
  <2> USE CpuFacts DEF limits, queues
  <2>1. CASE init_ethdev
    BY Zenon, <2>1, NextDevMove, MainKeepsSerial DEF init_ethdev
  <2>2. CASE init_tx_queues(0)
    BY Zenon, <2>2, NextDevMove, MainKeepsSerial DEF init_tx_queues
  <2>3. ASSUME NEW c \in Threads, init_tx_queues(c) PROVE SerialInv'
    BY <2>3, NextDevMove, ThreadKeepsSerial DEF init_tx_queues, Counted, CountedPC
  <2>4. CASE pthread_create
    <3>1. i \in Threads /\ i # 0
      BY <2>4, StartupAssumption DEF pthread_create, SerialInv, Cpus, Threads
    <3>2. /\ pc'[0] = "wait" /\ pc'[i] = "born" /\ pc[i] = "none" /\ pc[0] = "create"
          /\ \A e \in Threads : e # i => pc'[e] = pc[e]
      BY Zenon, <2>4, <3>1 DEF pthread_create, TypeOK, SerialInv
    <3>3. \A e \in Threads : Counted(e)' <=> Counted(e)
      BY Zenon, <3>2 DEF Counted, CountedPC
    <3>4. UNCHANGED <<i, tmp, started_cpus>>
      BY Zenon, <2>4 DEF pthread_create
    <3>5. \A e \in Threads : pc'[e] = "none" <=> (pc[e] = "none" /\ e # i)
      BY Zenon, <3>1, <3>2
    <3>6. \A e \in Threads : pc'[e] = "store" => pc[e] = "store"
      BY Zenon, <3>2
    <3>7. \A e \in Threads : e > i => e # i
      BY StartupAssumption DEF Threads, Cpus
    <3> QED BY Zenon, <3>1, <3>2, <3>3, <3>4, <3>5, <3>6, <3>7 DEF SerialInv
  <2>5. CASE wait_started
    <3>1. CASE started_cpus # i
      BY Zenon, <2>5, <3>1, MainKeepsSerial DEF wait_started, Goto
    <3>2. CASE started_cpus = i
      <4>1. /\ pc[0] = "wait" /\ i' = i + 1 /\ UNCHANGED <<tmp, started_cpus>>
            /\ pc'[0] = IF i + 1 < NumCpus THEN "create" ELSE "barrier"
            /\ \A e \in Threads : pc'[e] = pc[e]
        BY Zenon, <2>5, <3>2 DEF wait_started, Goto, TypeOK
      <4>2. \A e \in Threads : Counted(e)' <=> Counted(e)
        BY Zenon, <4>1 DEF Counted
      <4>3. i \in Threads /\ Counted(i) /\ i \in 1 .. NumCpus - 1
        BY <4>1, <3>2, StartupAssumption DEF SerialInv, Threads, Cpus
      <4>4. \A e \in Threads : e \in 1 .. NumCpus - 1
        BY StartupAssumption DEF Threads, Cpus
      <4>5. i + 1 \in Threads => pc[i + 1] = "none" /\ ~Counted(i + 1)
        BY <4>3 DEF SerialInv, Counted, CountedPC
      <4>6. i + 1 \in Threads <=> i + 1 < NumCpus
        BY <4>3, StartupAssumption DEF Threads, Cpus
      <4> QED BY <3>2, <4>1, <4>2, <4>3, <4>4, <4>5, <4>6, StartupAssumption
              DEF SerialInv
    <3> QED BY Zenon, <3>1, <3>2
  <2>6. CASE usleep
    BY Zenon, <2>6, MainKeepsSerial DEF usleep, Goto
  <2>7. ASSUME NEW c \in Threads, cpu_init_one(c) PROVE SerialInv'
    <3>1. /\ pc' = [pc EXCEPT ![c] = "percpu"] /\ pc[c] = "born"
          /\ UNCHANGED <<i, tmp, started_cpus>>
      BY Zenon, <2>7 DEF cpu_init_one, Goto
    <3>2. ~Counted(c) /\ "percpu" \notin CountedPC
      BY Zenon, <3>1 DEF Counted, CountedPC
    <3> QED BY Zenon, <3>1, <3>2, ThreadKeepsSerial
  <2>8. CASE init_rx_queue
    BY <2>8, NextDevMove, ThreadKeepsSerial DEF init_rx_queue, Counted, CountedPC
  <2>9. ASSUME NEW c \in Threads, load_started(c) PROVE SerialInv'
    <3>1. /\ pc[c] = "load" /\ pc'[0] = pc[0] /\ pc'[c] = "store"
          /\ tmp'[c] = started_cpus /\ UNCHANGED <<i, started_cpus>>
          /\ \A e \in Threads : e # c => pc'[e] = pc[e] /\ tmp'[e] = tmp[e]
      BY Zenon, <2>9 DEF load_started, Goto, TypeOK
    <3>2. \A e \in Threads : Counted(e)' <=> Counted(e)
      BY Zenon, <3>1 DEF Counted, CountedPC
    <3> QED BY ZenonT(30), <3>1, <3>2 DEF SerialInv
  <2>10. ASSUME NEW c \in Threads, store_started(c) PROVE SerialInv'
    <3>1. /\ pc[c] = "store" /\ pc'[0] = pc[0] /\ pc'[c] \in {"await", "barrier"}
          /\ started_cpus' = tmp[c] + 1 /\ UNCHANGED <<i, tmp>>
          /\ \A e \in Threads : e # c => pc'[e] = pc[e]
      BY Zenon, <2>10 DEF store_started, Goto, TypeOK
    <3>2. c = i /\ ~Counted(c) /\ tmp[c] = i - 1
      BY <3>1, StartupAssumption DEF SerialInv, Counted, CountedPC, Threads, Cpus
    <3>3. Counted(c)' /\ \A e \in Threads : e # c => (Counted(e)' <=> Counted(e))
      BY Zenon, <3>1 DEF Counted, CountedPC
    <3>4. \A e \in Threads : e # c => pc[e] # "store"
      BY <3>2, StartupAssumption DEF SerialInv, Counted, CountedPC, Threads, Cpus
    <3> QED BY <3>1, <3>2, <3>3, <3>4 DEF SerialInv
  <2>11. CASE await_started
    <3>1. /\ pc' = [pc EXCEPT ![1] = "start"] /\ pc[1] = "await"
          /\ UNCHANGED <<i, tmp, started_cpus>>
      BY Zenon, <2>11 DEF await_started, Goto
    <3>2. Counted(1) /\ "start" \in CountedPC
      BY Zenon, <3>1 DEF Counted, CountedPC
    <3>3. pc[1] # "none" /\ "start" \notin {"none", "store"} /\ 1 \in Threads
      BY Zenon, <3>1
    <3>4. Counted(1) <=> "start" \in CountedPC
      BY Zenon, <3>2
    <3> QED BY <3>1, <3>3, <3>4, ThreadKeepsSerial, Zenon
  <2>12. CASE init_network_cpu
    BY <2>12, NextDevMove, ThreadKeepsSerial DEF init_network_cpu, Counted, CountedPC
  <2>13. ASSUME NEW c \in Cpus, barrier_arrive(c) \/ barrier_leave(c)
         PROVE  SerialInv'
    <3>1. CASE c = 0
      BY Zenon, <2>13, <3>1, MainKeepsSerial DEF barrier_arrive, barrier_leave, Goto
    <3>2. CASE c \in Threads
      BY <2>13, <3>2, ThreadKeepsSerial
      DEF barrier_arrive, barrier_leave, Goto, Counted, CountedPC
    <3> QED BY Zenon, <3>1, <3>2
  <2>14. CASE Exit
    BY Zenon, <2>14 DEF Exit, SerialInv, Counted
  <2>15. CASE UNCHANGED vars
    BY Zenon, <2>15 DEF vars, SerialInv, Counted
  <2> QED
    BY Zenon, <2>1, <2>2, <2>3, <2>4, <2>5, <2>6, <2>7, <2>8, <2>9, <2>10, <2>11,
       <2>12, <2>13, <2>14, <2>15
    DEF Next, main_step, networker_step, thread_step, cpu_step, refuse, fail
<1> QED BY <1>1, <1>2, StartupType, PTL DEF Spec

-----------------------------------------------------------------------------
(* A CPU that moves, taking no queue and outside the loops over the devices *)
(* of init_tx_queues and init_rx_queue, keeps the queues in order.          *)
LEMMA MoveKeepsQueues ==
  ASSUME TypeOK, QueueInv, NEW c \in Cpus, NEW to,
         pc' = [pc EXCEPT ![c] = to], UNCHANGED <<queues, dev>>,
         \/ pc[c] \in {"none", "born"} /\ to \in {"born", "percpu"}
         \/ /\ pc[c] \notin {"none", "born", "ethdev", "percpu", "rx", "start"}
            /\ to \notin {"none", "born", "ethdev", "percpu", "rx"}
  PROVE  QueueInv'
<1>1. pc'[c] = to /\ \A e \in Cpus : e # c => pc'[e] = pc[e]
  BY Zenon DEF TypeOK
<1>2. dev[c] = 0
  BY Zenon DEF QueueInv
<1>3. \A d \in Devs : ~(d < dev[c])
  BY <1>2, CpuFacts
<1>4. \A e \in Cpus, d \in Devs : TxDone(e, d)' => TxDone(e, d)
  BY Zenon, <1>1, <1>3 DEF TxDone
<1>5. \A d \in Devs : RxDone(d)' => RxDone(d)
  BY Zenon, <1>1, <1>3, CpuFacts DEF RxDone
<1>6. \A e \in Cpus : pc'[e] \notin {"ethdev", "percpu", "rx", "start"} => dev'[e] = 0
  BY Zenon, <1>1, <1>2 DEF QueueInv
<1> QED BY Zenon, <1>4, <1>5, <1>6 DEF QueueInv, TxQueuesDistinct, queues

(* The loop over the devices: either the index advances and the CPU stays,  *)
(* or all devices are done, the index is reset and the CPU moves on.        *)
LEMMA NextDevCases ==
  ASSUME TypeOK, NEW c \in Cpus, NEW from, NEW to, NextDev(c, from, to)
  PROVE  /\ pc[c] = from
         /\ \A e \in Cpus : e # c => pc'[e] = pc[e] /\ dev'[e] = dev[e]
         /\ \/ pc'[c] = from /\ dev'[c] = dev[c] + 1
            \/ pc'[c] = to /\ dev'[c] = 0 /\ \A d \in Devs : d <= dev[c]
<1>1. /\ pc \in [Cpus -> MainPC \cup ThreadPC] /\ dev \in [Cpus -> Devs]
      /\ dev[c] \in Devs
  BY Zenon DEF TypeOK
<1>2. CASE dev[c] + 1 < NumEthdev
  BY Zenon, <1>1, <1>2 DEF NextDev, Goto
<1>3. CASE ~(dev[c] + 1 < NumEthdev)
  <2>1. \A d \in Devs : d <= dev[c]
    BY <1>1, <1>3, StartupAssumption DEF Devs
  <2> QED BY Zenon, <1>1, <1>3, <2>1 DEF NextDev, Goto
<1> QED BY Zenon, <1>2, <1>3

(* Every CPU takes its TX queue of every device in init_tx_queues and no    *)
(* other CPU has that queue; the networker has an RX queue of every device. *)
THEOREM QueueInvariant == Spec => []QueueInv
<1>1. Init => QueueInv
  <2> SUFFICES ASSUME Init PROVE QueueInv
    OBVIOUS
  <2>1. /\ \A c \in Cpus : dev[c] = 0 /\ pc[c] \in {"ethdev", "none"}
        /\ \A c \in Cpus, d \in Devs : eth_txqs[c][d] = None
        /\ \A d \in Devs : nb_tx_queues[d] = 0
    BY Zenon DEF Init
  <2>2. pc[1] = "none"
    BY Zenon, CpuFacts DEF Init
  <2> QED BY <2>1, <2>2 DEF QueueInv, TxDone, RxDone, TxQueuesDistinct, None
<1>2. TypeOK /\ SerialInv /\ QueueInv /\ [Next]_vars => QueueInv'
  <2> SUFFICES ASSUME TypeOK, SerialInv, QueueInv, [Next]_vars PROVE QueueInv'
    OBVIOUS
  <2> USE CpuFacts
  <2>1. CASE init_ethdev
    <3>1. /\ NextDev(0, "ethdev", "percpu") /\ UNCHANGED queues
      BY Zenon, <2>1 DEF init_ethdev
    <3>2. /\ pc[0] = "ethdev"
          /\ \A e \in Cpus : e # 0 => pc'[e] = pc[e] /\ dev'[e] = dev[e]
          /\ pc'[0] = "ethdev" \/ (pc'[0] = "percpu" /\ dev'[0] = 0)
      BY Zenon, <3>1, NextDevCases
    <3>3. \A e \in Cpus, d \in Devs : TxDone(e, d)' => TxDone(e, d)
      BY <3>2 DEF TxDone
    <3>4. \A d \in Devs : RxDone(d)' => RxDone(d)
      BY Zenon, <3>2 DEF RxDone
    <3>5. \A e \in Cpus : pc'[e] \notin {"ethdev", "percpu", "rx", "start"} => dev'[e] = 0
      BY Zenon, <3>2 DEF QueueInv
    <3> QED BY Zenon, <3>1, <3>3, <3>4, <3>5 DEF QueueInv, TxQueuesDistinct, queues
  <2>2. ASSUME NEW c \in Cpus, init_tx_queues(c) PROVE QueueInv'
    <3> DEFINE to == CASE c = 0 -> "create" [] c = 1 -> "rx" [] OTHER -> "load"
               k == dev[c]
    <3>1. /\ NextDev(c, "percpu", to) /\ UNCHANGED <<nb_rx_queues, eth_rxqs>>
          /\ nb_tx_queues' = [nb_tx_queues EXCEPT ![k] = @ + 1]
          /\ eth_txqs' = [eth_txqs EXCEPT ![c][k] = nb_tx_queues[k]]
      BY Zenon, <2>2 DEF init_tx_queues, eth_dev_get_tx_queue
    <3>2. to \in {"create", "rx", "load"}
      OBVIOUS
    <3>3. k \in Devs /\ k \in Nat /\ nb_tx_queues[k] \in Nat
      BY Zenon DEF TypeOK
    <3> HIDE DEF to, k
    <3>4. /\ pc[c] = "percpu"
          /\ \A e \in Cpus : e # c => pc'[e] = pc[e] /\ dev'[e] = dev[e]
          /\ \/ pc'[c] = "percpu" /\ dev'[c] = k + 1
             \/ pc'[c] = to /\ dev'[c] = 0 /\ \A d \in Devs : d <= k
      BY Zenon, <3>1, NextDevCases DEF k
    <3>5. /\ eth_txqs'[c][k] = nb_tx_queues[k]
          /\ \A e \in Cpus, d \in Devs : (e # c \/ d # k) => eth_txqs'[e][d] = eth_txqs[e][d]
          /\ nb_tx_queues'[k] = nb_tx_queues[k] + 1
          /\ \A d \in Devs : d # k => nb_tx_queues'[d] = nb_tx_queues[d]
      BY Zenon, <3>1, <3>3 DEF TypeOK
    <3>6. \A e \in Cpus, d \in Devs : TxDone(e, d)' => TxDone(e, d) \/ (e = c /\ d <= k)
      BY <3>2, <3>3, <3>4 DEF TxDone
    <3>7. \A d \in Devs : d <= k /\ d # k => TxDone(c, d)
      BY <3>3, <3>4 DEF TxDone, k
    <3>8. \A e \in Cpus, d \in Devs : TxDone(e, d)' => eth_txqs'[e][d] # None
      BY <3>3, <3>5, <3>6, <3>7 DEF QueueInv, None
    <3>9. \A e \in Cpus, d \in Devs : eth_txqs'[e][d] < nb_tx_queues'[d]
      <4> SUFFICES ASSUME NEW e \in Cpus, NEW d \in Devs
                   PROVE  eth_txqs'[e][d] < nb_tx_queues'[d]
        OBVIOUS
      <4>1. /\ eth_txqs[e][d] \in Int /\ nb_tx_queues[d] \in Nat
            /\ eth_txqs[e][d] < nb_tx_queues[d]
        BY DEF TypeOK, QueueInv, None
      <4>2. CASE e = c /\ d = k
        BY <3>3, <3>5, <4>2
      <4>3. CASE ~(e = c /\ d = k)
        <5>1. eth_txqs'[e][d] = eth_txqs[e][d]
          BY Zenon, <3>5, <4>3
        <5>2. nb_tx_queues'[d] \in {nb_tx_queues[d], nb_tx_queues[d] + 1}
          BY Zenon, <3>5
        <5> QED BY <4>1, <5>1, <5>2
      <4> QED BY Zenon, <4>2, <4>3
    <3>10. TxQueuesDistinct'
      <4> SUFFICES ASSUME NEW a \in Cpus, NEW b \in Cpus, NEW d \in Devs, a # b,
                          eth_txqs'[a][d] # None
                   PROVE  eth_txqs'[a][d] # eth_txqs'[b][d]
        BY Zenon DEF TxQueuesDistinct
      <4>1. /\ eth_txqs[a][d] \in Int /\ eth_txqs[a][d] < nb_tx_queues[d]
            /\ eth_txqs[b][d] \in Int /\ eth_txqs[b][d] < nb_tx_queues[d]
            /\ eth_txqs[a][d] # None => eth_txqs[a][d] # eth_txqs[b][d]
        BY DEF TypeOK, QueueInv, None, TxQueuesDistinct
      <4> QED BY <3>3, <3>5, <4>1
    <3>11. \A d \in Devs : RxDone(d)' => RxDone(d)
      BY <3>2, <3>4 DEF RxDone, to
    <3>12. \A e \in Cpus : pc'[e] \notin {"ethdev", "percpu", "rx", "start"} => dev'[e] = 0
      BY Zenon, <3>4 DEF QueueInv
    <3> QED BY Zenon, <3>1, <3>8, <3>9, <3>10, <3>11, <3>12 DEF QueueInv
  <2>3. CASE pthread_create
    <3>1. i \in Threads /\ pc[i] = "none" /\ dev[i] = 0
      BY <2>3, StartupAssumption
      DEF pthread_create, SerialInv, QueueInv, Cpus, Threads
    <3>2. /\ pc[0] = "create" /\ pc'[0] = "wait" /\ pc'[i] = "born"
          /\ UNCHANGED <<dev, queues>>
          /\ \A e \in Cpus : e # 0 /\ e # i => pc'[e] = pc[e]
      BY Zenon, <2>3, <3>1 DEF pthread_create, TypeOK
    <3>3. \A e \in Cpus, d \in Devs : TxDone(e, d)' => TxDone(e, d)
      BY Zenon, <3>1, <3>2 DEF TxDone
    <3>4. \A d \in Devs : RxDone(d)' => RxDone(d)
      BY Zenon, <3>1, <3>2 DEF RxDone
    <3>5. \A e \in Cpus : pc'[e] \notin {"ethdev", "percpu", "rx", "start"} => dev'[e] = 0
      BY Zenon, <3>1, <3>2 DEF QueueInv
    <3> QED BY ZenonT(60), <3>2, <3>3, <3>4, <3>5 DEF QueueInv, TxQueuesDistinct, queues
  <2>4. CASE wait_started \/ usleep
    <3>1. PICK to \in {"sleep", "create", "barrier", "wait"} :
             pc' = [pc EXCEPT ![0] = to]
      BY Zenon, <2>4 DEF wait_started, usleep, Goto
    <3>2. pc[0] \in {"wait", "sleep"} /\ UNCHANGED <<queues, dev>>
      BY Zenon, <2>4 DEF wait_started, usleep, Goto
    <3> QED BY Zenon, <3>1, <3>2, MoveKeepsQueues
  <2>5. ASSUME NEW c \in Threads, cpu_init_one(c) PROVE QueueInv'
    BY Zenon, <2>5, MoveKeepsQueues DEF cpu_init_one, Goto
  <2>6. CASE init_rx_queue
    <3> DEFINE k == dev[1]
    <3>1. /\ NextDev(1, "rx", "load") /\ UNCHANGED <<nb_tx_queues, eth_txqs>>
          /\ nb_rx_queues' = [nb_rx_queues EXCEPT ![k] = @ + 1]
          /\ eth_rxqs' = [eth_rxqs EXCEPT ![k] = nb_rx_queues[k]]
      BY Zenon, <2>6 DEF init_rx_queue, eth_dev_get_rx_queue
    <3>2. k \in Devs /\ k \in Nat /\ nb_rx_queues[k] \in Nat
      BY Zenon DEF TypeOK
    <3>3. /\ pc[1] = "rx"
          /\ \A e \in Cpus : e # 1 => pc'[e] = pc[e] /\ dev'[e] = dev[e]
          /\ \/ pc'[1] = "rx" /\ dev'[1] = k + 1
             \/ pc'[1] = "load" /\ dev'[1] = 0 /\ \A d \in Devs : d <= k
      BY Zenon, <3>1, NextDevCases
    <3>4. /\ eth_rxqs'[k] = nb_rx_queues[k] /\ nb_rx_queues'[k] = nb_rx_queues[k] + 1
          /\ \A d \in Devs : d # k => /\ eth_rxqs'[d] = eth_rxqs[d]
                                     /\ nb_rx_queues'[d] = nb_rx_queues[d]
      BY Zenon, <3>1, <3>2 DEF TypeOK
    <3>5. \A e \in Cpus, d \in Devs : TxDone(e, d)' => TxDone(e, d)
      BY Zenon, <3>3 DEF TxDone
    <3> HIDE DEF k
    <3>6. \A d \in Devs : RxDone(d)' => d <= k
      BY <3>2, <3>3 DEF RxDone
    <3>7. \A d \in Devs : d <= k /\ d # k => RxDone(d)
      BY <3>2, <3>3 DEF RxDone, k
    <3>8. \A d \in Devs : RxDone(d)' => eth_rxqs'[d] # None /\ nb_rx_queues'[d] > 0
      BY <3>2, <3>4, <3>6, <3>7 DEF QueueInv, None
    <3>9. \A e \in Cpus : pc'[e] \notin {"ethdev", "percpu", "rx", "start"} => dev'[e] = 0
      BY Zenon, <3>3 DEF QueueInv
    <3> QED BY ZenonT(60), <3>1, <3>5, <3>8, <3>9 DEF QueueInv, TxQueuesDistinct
  <2>7. ASSUME NEW c \in Threads, load_started(c) \/ store_started(c)
        PROVE  QueueInv'
    <3>1. PICK to \in {"store", "await", "barrier"} : pc' = [pc EXCEPT ![c] = to]
      BY Zenon, <2>7 DEF load_started, store_started, Goto
    <3>2. pc[c] \in {"load", "store"} /\ UNCHANGED <<queues, dev>>
      BY Zenon, <2>7 DEF load_started, store_started, Goto
    <3> QED BY Zenon, <3>1, <3>2, MoveKeepsQueues
  <2>8. CASE await_started
    BY Zenon, <2>8, MoveKeepsQueues DEF await_started, Goto
  <2>9. CASE init_network_cpu
    <3>1. NextDev(1, "start", "barrier") /\ UNCHANGED queues
      BY Zenon, <2>9 DEF init_network_cpu
    <3>2. /\ pc[1] = "start"
          /\ \A e \in Cpus : e # 1 => pc'[e] = pc[e] /\ dev'[e] = dev[e]
          /\ pc'[1] = "start" \/ (pc'[1] = "barrier" /\ dev'[1] = 0)
      BY ZenonT(30), <3>1, NextDevCases
    <3>3. \A e \in Cpus, d \in Devs : TxDone(e, d)' => TxDone(e, d)
      BY Zenon, <3>2 DEF TxDone
    <3>4. \A d \in Devs : RxDone(d)' => RxDone(d)
      BY Zenon, <3>2 DEF RxDone
    <3>5. \A e \in Cpus : pc'[e] \notin {"ethdev", "percpu", "rx", "start"} => dev'[e] = 0
      BY Zenon, <3>2 DEF QueueInv
    <3> QED BY Zenon, <3>1, <3>3, <3>4, <3>5 DEF QueueInv, TxQueuesDistinct, queues
  <2>10. ASSUME NEW c \in Cpus, barrier_arrive(c) \/ barrier_leave(c)
         PROVE  QueueInv'
    <3>1. PICK to \in {"arrived", "loop"} : pc' = [pc EXCEPT ![c] = to]
      BY Zenon, <2>10 DEF barrier_arrive, barrier_leave, Goto
    <3>2. pc[c] \in {"barrier", "arrived"} /\ UNCHANGED <<queues, dev>>
      BY Zenon, <2>10 DEF barrier_arrive, barrier_leave, Goto
    <3> QED BY Zenon, <3>1, <3>2, MoveKeepsQueues
  <2>11. CASE Exit \/ UNCHANGED vars
    <3>1. UNCHANGED <<pc, dev, queues>>
      BY Zenon, <2>11 DEF Exit, vars
    <3> QED BY ZenonT(30), <3>1 DEF QueueInv, TxDone, RxDone, TxQueuesDistinct, queues
  <2> QED
    BY Zenon, <2>1, <2>2, <2>3, <2>4, <2>5, <2>6, <2>7, <2>8, <2>9, <2>10, <2>11
    DEF Next, main_step, networker_step, thread_step, cpu_step, refuse, fail
<1> QED BY <1>1, <1>2, StartupType, SerialInvariant, PTL DEF Spec

-----------------------------------------------------------------------------
(* Once started_cpus has reached its final value every thread has passed    *)
(* its increment: what the networker's spin in start_cpu waits for.         *)
LEMMA AllCounted ==
  ASSUME TypeOK, SerialInv, started_cpus = NumCpus - 1
  PROVE  \A c \in Threads : Counted(c)
<1>1. \A c \in Threads : c \in Int /\ c < NumCpus
  BY StartupAssumption DEF Threads, Cpus
<1>2. CASE i = NumCpus
  BY Zenon, <1>1, <1>2 DEF SerialInv
<1>3. CASE i # NumCpus
  <2>1. i = NumCpus - 1 /\ i \in Threads /\ Counted(i)
    BY <1>3, StartupAssumption DEF SerialInv, Threads, Cpus
  <2> QED BY <1>1, <2>1, StartupAssumption DEF SerialInv
<1> QED BY Zenon, <1>2, <1>3

(* started_cpus never exceeds the number of threads of start_cpu.           *)
LEMMA StartedBound ==
  ASSUME TypeOK, SerialInv
  PROVE  started_cpus \in 0 .. NumCpus - 1
BY StartupAssumption DEF SerialInv, Threads, Cpus

(* The barrier opens only when all CPUs have arrived at it.                 *)
LEMMA BarrierFull ==
  ASSUME Cardinality(Arrived) = NumCpus
  PROVE  Arrived = Cpus
<1>1. IsFiniteSet(Cpus) /\ Cardinality(Cpus) = NumCpus
  BY FS_Interval, StartupAssumption DEF Cpus
<1>2. Arrived \subseteq Cpus
  BY Zenon DEF Arrived
<1> QED BY Zenon, <1>1, <1>2, FS_Subset

(* The devices are started after all the queues and before the barrier.     *)
THEOREM StartInvariant == Spec => []StartInv
<1> DEFINE Late == {"start", "barrier", "arrived", "loop"}
<1>1. Init => StartInv
  BY Zenon, CpuFacts DEF Init, StartInv
<1>2. TypeOK /\ TypeOK' /\ SerialInv /\ SerialInv' /\ QueueInv /\ StartInv
        /\ [Next]_vars => StartInv'
  <2> SUFFICES ASSUME TypeOK, TypeOK', SerialInv, SerialInv', QueueInv, StartInv,
                      [Next]_vars
               PROVE  StartInv'
    OBVIOUS
  <2> USE CpuFacts
  (* A step of a CPU that is not yet at the barrier, if it is not the        *)
  (* networker's and does not start a device.                               *)
  <2>0. ASSUME \A c \in Cpus : pc[c] \in {"arrived", "loop"} => pc'[c] = pc[c],
               \A c \in Cpus : pc'[c] = "loop" => pc[c] = "loop",
               pc'[1] = pc[1] \/ (pc[1] \notin Late /\ pc'[1] \notin Late),
               UNCHANGED dev_started, dev'[1] = dev[1] \/ pc[1] # "start",
               started_cpus' = started_cpus \/ pc[1] \notin Late
        PROVE  StartInv'
    <3>1. (\E c \in Cpus : pc'[c] = "loop") => Arrived' = Cpus
      BY Zenon, <2>0 DEF StartInv, Arrived
    <3> QED BY Zenon, <2>0, <3>1 DEF StartInv
  <2>1. CASE init_ethdev
    BY <2>0, <2>1, NextDevCases DEF init_ethdev
  <2>2. ASSUME NEW c \in Cpus, init_tx_queues(c) PROVE StartInv'
    <3> DEFINE to == CASE c = 0 -> "create" [] c = 1 -> "rx" [] OTHER -> "load"
    <3>1. NextDev(c, "percpu", to) /\ UNCHANGED <<dev_started, started_cpus>>
      BY Zenon, <2>2 DEF init_tx_queues
    <3>2. to \in {"create", "rx", "load"}
      OBVIOUS
    <3> HIDE DEF to
    <3>3. /\ pc[c] = "percpu" /\ pc'[c] \in {"percpu", "create", "rx", "load"}
          /\ \A e \in Cpus : e # c => pc'[e] = pc[e] /\ dev'[e] = dev[e]
      BY <3>1, <3>2, NextDevCases
    <3> QED BY Zenon, <2>0, <3>1, <3>3
  <2>3. CASE pthread_create
    <3>1. i \in Threads /\ pc[i] = "none"
      BY <2>3, StartupAssumption DEF pthread_create, SerialInv, Cpus, Threads
    <3>2. /\ pc[0] = "create" /\ pc'[0] = "wait" /\ pc'[i] = "born"
          /\ UNCHANGED <<dev, dev_started, started_cpus>>
          /\ \A e \in Cpus : e # 0 /\ e # i => pc'[e] = pc[e]
      BY Zenon, <2>3, <3>1 DEF pthread_create, TypeOK
    <3> QED BY Zenon, <2>0, <3>1, <3>2
  <2>4. CASE wait_started \/ usleep
    <3>1. /\ pc[0] \in {"wait", "sleep"}
          /\ pc'[0] \in {"sleep", "create", "barrier", "wait"}
          /\ UNCHANGED <<dev, dev_started, started_cpus>>
          /\ \A e \in Cpus : e # 0 => pc'[e] = pc[e]
      BY Zenon, <2>4 DEF wait_started, usleep, Goto, TypeOK
    <3> QED BY Zenon, <2>0, <3>1
  <2>5. ASSUME NEW c \in Threads, cpu_init_one(c) \/ load_started(c)
        PROVE  StartInv'
    <3>1. /\ pc[c] \in {"born", "load"} /\ pc'[c] \in {"percpu", "store"}
          /\ UNCHANGED <<dev, dev_started, started_cpus>>
          /\ \A e \in Cpus : e # c => pc'[e] = pc[e]
      BY Zenon, <2>5 DEF cpu_init_one, load_started, Goto, TypeOK
    <3> QED BY Zenon, <2>0, <3>1
  <2>6. CASE init_rx_queue
    <3>1. NextDev(1, "rx", "load") /\ UNCHANGED <<dev_started, started_cpus>>
      BY Zenon, <2>6 DEF init_rx_queue
    <3>2. /\ pc[1] = "rx" /\ pc'[1] \in {"rx", "load"}
          /\ \A e \in Cpus : e # 1 => pc'[e] = pc[e] /\ dev'[e] = dev[e]
      BY ZenonT(30), <3>1, NextDevCases
    <3> QED BY Zenon, <2>0, <3>1, <3>2
  <2>7. ASSUME NEW c \in Threads, store_started(c) PROVE StartInv'
    <3>1. /\ pc[c] = "store" /\ pc'[c] = IF c = 1 THEN "await" ELSE "barrier"
          /\ UNCHANGED <<dev, dev_started>>
          /\ \A e \in Cpus : e # c => pc'[e] = pc[e]
      BY Zenon, <2>7 DEF store_started, Goto, TypeOK
    <3>2. pc[1] \notin Late
      BY Zenon, <3>1, AllCounted DEF StartInv, Counted, CountedPC
    <3> QED BY Zenon, <2>0, <3>1, <3>2
  <2>8. CASE await_started
    <3>1. /\ pc[1] = "await" /\ pc'[1] = "start" /\ started_cpus = NumCpus - 1
          /\ UNCHANGED <<dev, dev_started, started_cpus>>
          /\ \A e \in Cpus : e # 1 => pc'[e] = pc[e]
      BY Zenon, <2>8 DEF await_started, Goto, TypeOK
    <3>2. dev[1] = 0 /\ \A d \in Devs : ~(d < dev'[1])
      BY <3>1 DEF QueueInv
    <3>3. ~(\E c \in Cpus : pc'[c] = "loop")
      BY Zenon, <3>1 DEF StartInv, Arrived
    <3> QED BY Zenon, <3>1, <3>2, <3>3 DEF StartInv
  <2>9. CASE init_network_cpu
    <3> DEFINE k == dev[1]
    <3>1. /\ NextDev(1, "start", "barrier") /\ UNCHANGED started_cpus
          /\ dev_started' = dev_started \cup {d \in {k} : nb_rx_queues[d] # 0}
      BY Zenon, <2>9 DEF init_network_cpu
    <3>2. k \in Devs /\ k \in Nat
      BY Zenon DEF TypeOK
    <3>3. /\ pc[1] = "start"
          /\ \A e \in Cpus : e # 1 => pc'[e] = pc[e]
          /\ \/ pc'[1] = "start" /\ dev'[1] = k + 1
             \/ pc'[1] = "barrier" /\ \A d \in Devs : d <= k
      BY <3>1, NextDevCases
    <3>4. nb_rx_queues[k] > 0 /\ nb_rx_queues[k] \in Nat
      BY Zenon, <3>2, <3>3 DEF QueueInv, RxDone, TypeOK
    <3>5. k \in dev_started' /\ dev_started \subseteq dev_started'
      BY <3>1, <3>4
    <3>6. \A d \in Devs : d <= k => d \in dev_started'
      BY <3>2, <3>3, <3>5 DEF StartInv
    <3>7. ~(\E c \in Cpus : pc'[c] = "loop")
      BY Zenon, <3>3 DEF StartInv, Arrived
    <3>8. pc'[1] = "barrier" => dev_started' = Devs
      BY Zenon, <3>3, <3>6 DEF TypeOK
    <3>9. pc'[1] = "start" => \A d \in Devs : d < dev'[1] => d \in dev_started'
      <4>1. pc'[1] = "start" => dev'[1] = k + 1
        BY Zenon, <3>3
      <4>2. \A d \in Devs : d < k + 1 => d <= k
        BY <3>2
      <4> QED BY Zenon, <3>6, <4>1, <4>2
    <3> HIDE DEF k
    <3> QED BY Zenon, <3>1, <3>3, <3>7, <3>8, <3>9 DEF StartInv
  <2>10. ASSUME NEW c \in Cpus, barrier_arrive(c) \/ barrier_leave(c)
         PROVE  StartInv'
    <3>1. /\ UNCHANGED <<dev, dev_started, started_cpus>>
          /\ \/ pc[c] = "barrier" /\ pc'[c] = "arrived"
             \/ pc[c] = "arrived" /\ pc'[c] = "loop" /\ Arrived = Cpus
          /\ \A e \in Cpus : e # c => pc'[e] = pc[e]
      BY Zenon, <2>10, BarrierFull DEF barrier_arrive, barrier_leave, Goto, TypeOK
    <3>2. (\E e \in Cpus : pc'[e] = "loop") => Arrived' = Cpus
      BY Zenon, <3>1 DEF StartInv, Arrived
    <3>3. pc'[1] = pc[1] \/ (/\ pc[1] \in {"barrier", "arrived"}
                            /\ pc'[1] \in {"arrived", "loop"})
      BY Zenon, <3>1
    <3> QED BY Zenon, <3>1, <3>2, <3>3 DEF StartInv
  <2>11. CASE Exit \/ UNCHANGED vars
    <3>1. UNCHANGED <<pc, dev, dev_started, started_cpus>>
      BY Zenon, <2>11 DEF Exit, vars
    <3> QED BY Zenon, <3>1 DEF StartInv, Arrived
  <2> QED
    BY Zenon, <2>1, <2>2, <2>3, <2>4, <2>5, <2>6, <2>7, <2>8, <2>9, <2>10, <2>11
    DEF Next, main_step, networker_step, thread_step, cpu_step, refuse, fail
<1> QED BY <1>1, <1>2, StartupType, SerialInvariant, QueueInvariant, PTL DEF Spec

-----------------------------------------------------------------------------
(* The whole invariant of the start-up, from its layers.                    *)
THEOREM StartupInvariant == Spec => []StartupInv
BY SerialInvariant, QueueInvariant, StartInvariant, PTL DEF StartupInv

(* No increment of started_cpus is lost, although start_cpu increments it   *)
(* without a lock.                                                          *)
THEOREM IncrementsKept == Spec => []NoLostIncrement
<1>1. TypeOK /\ SerialInv => NoLostIncrement
  <2> SUFFICES ASSUME TypeOK, SerialInv PROVE NoLostIncrement
    OBVIOUS
  <2>1. started_cpus \in 0 .. NumCpus - 1
    BY Zenon, StartedBound
  <2>2. \A c \in Threads : c > i => ~Counted(c)
    BY Zenon DEF SerialInv, Counted, CountedPC
  <2>3. \A c \in Threads : Counted(c) <=> c <= started_cpus
    BY <2>2, StartupAssumption DEF SerialInv, Threads, Cpus
  <2>4. {c \in Threads : Counted(c)} = 1 .. started_cpus
    BY <2>1, <2>3, StartupAssumption DEF Threads, Cpus
  <2>5. Cardinality(1 .. started_cpus) = started_cpus
    BY <2>1, FS_Interval, StartupAssumption
  <2> QED BY Zenon, <2>4, <2>5 DEF NoLostIncrement
<1> QED BY <1>1, StartupType, SerialInvariant, PTL

(* The devices start after every CPU has its TX queues and the networker    *)
(* its RX queues, as the comment in start_cpu asks.                         *)
THEOREM DevicesAfterQueues == Spec => []DeviceAfterQueues
<1>1. TypeOK /\ SerialInv /\ QueueInv /\ StartInv => DeviceAfterQueues
  <2> SUFFICES ASSUME TypeOK, SerialInv, QueueInv, StartInv,
                      NEW d \in dev_started
               PROVE  /\ eth_rxqs[d] # None
                      /\ \A c \in Cpus : eth_txqs[c][d] # None
    BY Zenon DEF DeviceAfterQueues
  <2>1. pc[1] \in {"start", "barrier", "arrived", "loop"} /\ d \in Devs
    BY Zenon DEF StartInv, TypeOK
  <2>2. \A c \in Threads : Counted(c)
    BY Zenon, <2>1, AllCounted DEF StartInv
  <2>3. pc[0] \notin {"ethdev", "percpu", "none", "born"}
    <3>1. pc[0] \in {"ethdev", "percpu"} => i = 1 /\ 1 \in Threads
      BY Zenon, CpuFacts DEF SerialInv
    <3>2. pc[0] \in {"ethdev", "percpu"} => pc[1] = "none"
      BY Zenon, <3>1 DEF SerialInv
    <3> QED BY Zenon, <2>1, <3>2 DEF TypeOK, MainPC
  <2>4. \A c \in Cpus : TxDone(c, d)
    BY Zenon, <2>2, <2>3, CpuFacts DEF TxDone, Counted, CountedPC
  <2>5. RxDone(d)
    BY Zenon, <2>1 DEF RxDone
  <2> QED BY Zenon, <2>1, <2>4, <2>5 DEF QueueInv
<1> QED BY <1>1, StartupType, SerialInvariant, QueueInvariant, StartInvariant, PTL

(* No two CPUs share a TX queue handed out by eth_dev_get_tx_queue.         *)
THEOREM TxQueuesOwned == Spec => []TxQueuesDistinct
<1>1. QueueInv => TxQueuesDistinct
  BY Zenon DEF QueueInv
<1> QED BY <1>1, QueueInvariant, PTL

(* No CPU enters its loop before all devices are started and all CPUs are   *)
(* at the barrier of start_cpu and init_hw.                                 *)
THEOREM LoopsStartLast == Spec => []LoopsAfterStart
<1>1. TypeOK /\ StartInv => LoopsAfterStart
  BY Zenon, CpuFacts DEF StartInv, LoopsAfterStart, Arrived
<1> QED BY <1>1, StartupType, StartInvariant, PTL
=============================================================================
