------------------------------ MODULE MCSystem ------------------------------
(***************************************************************************)
(* The rest of the dataplane on small instances: memory, timers, packet     *)
(* buffers, the sandbox, algorithms on data, the configuration, the load    *)
(* generator and the scheduling policy.  A behaviour is one of a part, an   *)
(* instance of a module with small constants; the variables v1, v2, ... are *)
(* those of its module in turn.                                             *)
(***************************************************************************)
EXTENDS Integers

CONSTANTS
  Parts,        \* the parts a run looks at
  NULL

VARIABLES
  part,         \* the part of this behaviour
  v1, v2, v3, v4, v5, v6, v7, v8, v9, v10, v11, v12, v13, v14, v15,
  v16, v17, v18, v19, v20, v21

(* Pools, pages and timers.                                                 *)
Pool == INSTANCE Mempool WITH
  Cores <- {"c1", "c2"}, PGSIZE <- 5, NrElems <- {0, 3}, ElemLens <- {0, 3},
  ChunkSizes <- {1}, AnyOrder <- TRUE,
  mds <- v1, pool <- v2, owned <- v3, ret <- v4

PoolGrow == INSTANCE Mempool WITH
  Cores <- {"c1", "c2"}, PGSIZE <- 8, NrElems <- {8}, ElemLens <- {1},
  ChunkSizes <- {2}, AnyOrder <- FALSE,
  mds <- v1, pool <- v2, owned <- v3, ret <- v4

UserPool == INSTANCE Mempool WITH
  Cores <- {"c1", "c2"}, PGSIZE <- 8, NrElems <- {8}, ElemLens <- {1},
  ChunkSizes <- {2}, AnyOrder <- FALSE,
  mds <- v1, pool <- v2, owned <- v3, ret <- v4

Mem == INSTANCE Memory WITH
  Cpus <- {"c1"}, Base <- 6, UserStart <- 8, IomapBase <- 20, GB <- 2,
  Nrs <- {1, 2}, MaxAllocs <- 4, MaxRefs <- 1,
  mem_pos <- v1, page_pos <- v2, vm_iomapk_pos <- v3, regions <- v4, mmapped <- v5,
  pte <- v6, swept <- v7, flags <- v8, refcnt <- v9, page_refs <- v10, held <- v11,
  allocs <- v12, crashed <- v13

Wheel == INSTANCE Timer WITH
  Timers <- {"t1", "t2"}, WHEEL_SHIFT <- 2, WHEEL_COUNT <- 2, MIN_DELAY_SHIFT <- 1,
  Starts <- {0}, Delays <- {5, 9}, MaxTime <- 11, MaxLate <- 3,
  tsc <- v1, now_us <- v2, timer_pos <- v3, wheels <- v4, expires <- v5, pending <- v6,
  pc <- v7, pos <- v8, todo <- v9, misplaced <- v10, early <- v11, wild <- v12

Wheels == INSTANCE Timer WITH
  Timers <- {"t1"}, WHEEL_SHIFT <- 1, WHEEL_COUNT <- 3, MIN_DELAY_SHIFT <- 1,
  Starts <- {0, 1}, Delays <- {1, 2, 3, 5, 9, 14}, MaxTime <- 17, MaxLate <- 6,
  tsc <- v1, now_us <- v2, timer_pos <- v3, wheels <- v4, expires <- v5, pending <- v6,
  pc <- v7, pos <- v8, todo <- v9, misplaced <- v10, early <- v11, wild <- v12

(* Packet buffers of the TCP stack.                                         *)
Chains == INSTANCE Pbuf WITH
  Pbufs <- {1, 2, 3}, Mbufs <- {1}, W <- 4, BufSize <- 2, Types <- {"ROM"}, Lens <- {3},
  Hlen <- 1, MaxRef <- 1,
  mem <- v1, free <- v2, held <- v3, mfree <- v4

PoolChains == INSTANCE Pbuf WITH
  Pbufs <- {1, 2, 3}, Mbufs <- {}, W <- 3, BufSize <- 2, Types <- {"POOL"}, Lens <- {2},
  Hlen <- 1, MaxRef <- 1,
  mem <- v1, free <- v2, held <- v3, mfree <- v4

(* The sandbox of applications.                                             *)
Box == INSTANCE Sandbox WITH
  Threads <- {"t1"}, PGSIZE <- 2, BIG_PGSIZE <- 8, Size <- 32, APP_STACK_SIZE <- 8,
  Lens <- {1, 3, 6}, Brks <- {8, 9}, Froms <- {},
  Ops <- {"brk", "mmap", "shmat", "mremap", "munmap"}, MaxCalls <- 4,
  brk_len <- v1, mmap_len <- v2, host <- v3, dune <- v4, huge <- v5, odd <- v6,
  given <- v7, _syscall_mtx <- v8, plan <- v9, calls <- v10, clobbered <- v11,
  overrun <- v12, exited <- v13

BoxAt == INSTANCE Sandbox WITH
  Threads <- {"t1"}, PGSIZE <- 2, BIG_PGSIZE <- 8, Size <- 32, APP_STACK_SIZE <- 8,
  Lens <- {3, 8}, Brks <- {8, 9}, Froms <- {0, 6, 16},
  Ops <- {"brk", "mmap", "mmap_at", "shmat_at", "mremap_at", "munmap"}, MaxCalls <- 3,
  brk_len <- v1, mmap_len <- v2, host <- v3, dune <- v4, huge <- v5, odd <- v6,
  given <- v7, _syscall_mtx <- v8, plan <- v9, calls <- v10, clobbered <- v11,
  overrun <- v12, exited <- v13

BoxLocked == INSTANCE Sandbox WITH
  Threads <- {"t1", "t2"}, PGSIZE <- 2, BIG_PGSIZE <- 8, Size <- 32, APP_STACK_SIZE <- 8,
  Lens <- {2, 3, 6}, Brks <- {8, 9}, Froms <- {},
  Ops <- {"mmap", "munmap"}, MaxCalls <- 2,
  brk_len <- v1, mmap_len <- v2, host <- v3, dune <- v4, huge <- v5, odd <- v6,
  given <- v7, _syscall_mtx <- v8, plan <- v9, calls <- v10, clobbered <- v11,
  overrun <- v12, exited <- v13

Clone == INSTANCE SandboxClone WITH
  Parents <- {1}, MaxCalls <- 3,
  parent <- v1, call <- v2, child <- v3, ta_tid <- v4, ta_mtx <- v5, settid <- v6,
  result <- v7, early <- v8, broken <- v9

(* Algorithms on data, and the configuration.                               *)
Bytes == INSTANCE PbufData WITH
  Byte <- {0, 1}, MaxLen <- 2, MaxPbufs <- 3, MaxMem <- 2, Searches <- FALSE,
  chain <- v1, other <- v2, mem <- v3, at <- v4, result <- v5

Chksum == INSTANCE InetChksum WITH
  B <- 4, Octets <- {1, 3}, MaxLen <- 3, MaxPbufs <- 2, LongLens <- 8 .. 19,
  Words <- {0, 7, 15},
  chain <- v1, addr <- v2, header <- v3, result <- v4

Addr == INSTANCE Ip4Addr WITH
  O <- 32, SomeOctets <- {0, 31}, MaxParts <- 5,
  text <- v1, octets <- v2, buflen <- v3, netif <- v4, result <- v5

Config == INSTANCE Cfg WITH
  Width <- 4, MaxPorts <- 2, MaxCpus <- 2, MaxDevs <- 2, cpu_count <- 4,
  Addrs <- {5, 9}, Masks <- {0, 1, 3, 4, 5}, PortValues <- {0, 80, 70000},
  SloValues <- {0, 7}, CpuValues <- {0, 1, 2, 4}, DevValues <- {0, 1, 2, 3},
  MaxList <- 3, Macs <- {0, 1, 2},
  file <- v1, CFG <- v2, arp <- v3, pc <- v4

(* The load generator, and the scheduling policy of the dispatcher.         *)
Load == INSTANCE Client WITH
  Batch <- 2, MaxClock <- 3, Gaps <- {0, 2}, Mbufs <- 2, TxRing <- 2, Burst <- 2,
  StatsBatch <- 2, MaxReqs <- 4, MaxForeign <- 1, MaxLost <- 2,
  clock <- v1, next_gen_ns_ <- v2, news <- v3, req_pool_ <- v4, reqs <- v5, nb_tx <- v6,
  mbufs <- v7, tx <- v8, rx <- v9, handed <- v10, foreign <- v11, packets_sent_ <- v12,
  packets_received_ <- v13, responses <- v14, pending <- v15, samples <- v16,
  should_stop <- v17, sender <- v18, receiver <- v19, main <- v20, lost <- v21

LoadSingle == INSTANCE Client WITH
  Batch <- 1, MaxClock <- 3, Gaps <- {0, 2}, Mbufs <- 1, TxRing <- 2, Burst <- 2,
  StatsBatch <- 2, MaxReqs <- 4, MaxForeign <- 1, MaxLost <- 2,
  clock <- v1, next_gen_ns_ <- v2, news <- v3, req_pool_ <- v4, reqs <- v5, nb_tx <- v6,
  mbufs <- v7, tx <- v8, rx <- v9, handed <- v10, foreign <- v11, packets_sent_ <- v12,
  packets_received_ <- v13, responses <- v14, pending <- v15, samples <- v16,
  should_stop <- v17, sender <- v18, receiver <- v19, main <- v20, lost <- v21

LoadSetup == INSTANCE ClientSetup WITH
  Programs <- {"single", "bimodal"}, Sends <- {1, 2, 3, 4}, Recvs <- {1, 2, 4, 8},
  DevQueues <- {2, 8}, RetaSize <- 8, Ports <- 1 .. 11, FallBack <- 3, HighPort <- 10,
  arg <- v1, port <- v2, threads <- v3, joined <- v4, pc <- v5

Sched == INSTANCE Scheduling WITH
  NumWorkers <- 1, Slo1 <- 1, Slo2 <- 2, Work <- {1, 3}, Quantum <- 0, QueueBound <- 2,
  WaitBound <- 22, ShortBound <- 13,
  tskq <- v1, worker <- v2, pc <- v3

(* The parts are instances that their modules are meant for.                *)
ASSUME PartsAssumption ==
  /\ Pool!MempoolAssumption /\ PoolGrow!MempoolAssumption /\ UserPool!MempoolAssumption
  /\ Mem!MemoryAssumption /\ Wheel!TimerAssumption /\ Wheels!TimerAssumption
  /\ Chains!PbufAssumption /\ PoolChains!PbufAssumption /\ Sched!SchedulingAssumption

(* The variables from the k-th on, which a part does not have.             *)
Rest13 == v14 = 0 /\ v15 = 0 /\ v16 = 0 /\ v17 = 0 /\ v18 = 0 /\ v19 = 0 /\ v20 = 0
          /\ v21 = 0
Rest12 == v13 = 0 /\ Rest13
Rest9 == v10 = 0 /\ v11 = 0 /\ v12 = 0 /\ Rest12
Rest6 == v7 = 0 /\ v8 = 0 /\ v9 = 0 /\ Rest9
Rest5 == v6 = 0 /\ Rest6
Rest4 == v5 = 0 /\ Rest5
Rest3 == v4 = 0 /\ Rest4

Keep13 == UNCHANGED <<v14, v15, v16, v17, v18, v19, v20, v21>>
Keep12 == UNCHANGED <<v13>> /\ Keep13
Keep9 == UNCHANGED <<v10, v11, v12>> /\ Keep12
Keep6 == UNCHANGED <<v7, v8, v9>> /\ Keep9
Keep5 == UNCHANGED <<v6>> /\ Keep6
Keep4 == UNCHANGED <<v5>> /\ Keep5
Keep3 == UNCHANGED <<v4>> /\ Keep4

Init ==
  /\ part \in Parts
  /\ \/ part = "mempool" /\ Pool!Init /\ Rest4
     \/ part = "mempool_grow" /\ PoolGrow!Init /\ Rest4
     \/ part = "user_mempool" /\ UserPool!Init /\ Rest4
     \/ part = "memory" /\ Mem!Init /\ Rest13
     \/ part = "timer" /\ Wheel!Init /\ Rest12
     \/ part = "timer_wheels" /\ Wheels!Init /\ Rest12
     \/ part = "pbuf" /\ Chains!Init /\ Rest4
     \/ part = "pbuf_pool" /\ PoolChains!Init /\ Rest4
     \/ part = "sandbox" /\ Box!Init /\ Rest13
     \/ part = "sandbox_at" /\ BoxAt!Init /\ Rest13
     \/ part = "sandbox_locked" /\ BoxLocked!Init /\ Rest13
     \/ part = "sandbox_clone" /\ Clone!Init /\ Rest9
     \/ part = "pbuf_data" /\ Bytes!Init /\ Rest5
     \/ part = "inet_chksum" /\ Chksum!Init /\ Rest4
     \/ part = "ip4_addr" /\ Addr!Init /\ Rest5
     \/ part = "cfg" /\ Config!Init /\ Rest4
     \/ part = "client" /\ Load!Init
     \/ part = "client_single" /\ LoadSingle!Init
     \/ part = "client_setup" /\ LoadSetup!Init /\ Rest5
     \/ part = "scheduling" /\ Sched!Init /\ Rest3

Next ==
  /\ UNCHANGED part
  /\ \/ part = "mempool" /\ Pool!Next /\ Keep4
     \/ part = "mempool_grow" /\ PoolGrow!Next /\ Keep4
     \/ part = "user_mempool" /\ UserPool!UserNext /\ Keep4
     \/ part = "memory" /\ Mem!Next /\ Keep13
     \/ part = "timer" /\ Wheel!Next /\ Keep12
     \/ part = "timer_wheels" /\ Wheels!Next /\ Keep12
     \/ part = "pbuf" /\ Chains!Next /\ Keep4
     \/ part = "pbuf_pool" /\ PoolChains!Next /\ Keep4
     \/ part = "sandbox" /\ Box!Next /\ Keep13
     \/ part = "sandbox_at" /\ BoxAt!Next /\ Keep13
     \/ part = "sandbox_locked" /\ BoxLocked!Next /\ Keep13
     \/ part = "sandbox_clone" /\ Clone!Next /\ Keep9
     \/ part = "pbuf_data" /\ Bytes!Call /\ Keep5
     \/ part = "inet_chksum" /\ Chksum!Call /\ Keep4
     \/ part = "ip4_addr" /\ Addr!Call /\ Keep5
     \/ part = "cfg" /\ Config!Next /\ Keep4
     \/ part = "client" /\ Load!Next
     \/ part = "client_single" /\ LoadSingle!Next
     \/ part = "client_setup" /\ LoadSetup!Next /\ Keep5
     \/ part = "scheduling" /\ Sched!Next /\ Keep3

vars == <<part,
  v1, v2, v3, v4, v5, v6, v7, v8, v9, v10, v11, v12, v13, v14, v15,
  v16, v17, v18, v19, v20, v21>>

Spec == Init /\ [][Next]_vars

-----------------------------------------------------------------------------

(* Memory pools of the kernel and of user code (dp/core/mempool.c,          *)
(* libix/mempool.c): an element has one place, in the datastore, in a pool  *)
(* of one core or with its owner; elements fit their pages without overlap; *)
(* the counters agree with the lists, so that no empty chunk is set aside.  *)
PoolsSound ==
  /\ part = "mempool" => Pool!TypeOK /\ Pool!OnePlace /\ Pool!ElementsFit
  /\ part = "mempool_grow" => PoolGrow!CountersAgree
  /\ part = "user_mempool" => UserPool!OnePlace /\ UserPool!UserCountersAgree

(* Every step of the pools is one that MemoryPool allows (a core is refused *)
(* only when neither it nor the datastore has an element), and no element   *)
(* is lost on the way between the lists of mempool_alloc_2 and              *)
(* mempool_free_2; pbuf_split_64k leaves a front of less than 64K.          *)
AllowedSteps ==
  [][/\ part = "mempool" => [Pool!Abstract!Next]_(Pool!Abstract!vars) /\ Pool!KeepsAll
     /\ part = "user_mempool" => [UserPool!Abstract!Next]_(UserPool!Abstract!vars) /\ UserPool!KeepsAll
     /\ part = "pbuf" => Chains!SplitRight]_vars

(* Regions of memory (dp/core/mem.c, page.c, vm.c) do not overlap and are   *)
(* mapped while they are in use, but for what the clean-up of a request     *)
(* that failed half way unmaps above it.                                    *)
MemorySound ==
  part = "memory" => /\ Mem!TypeOK /\ Mem!RegionsDisjoint
                     /\ Mem!RegionsUsable

(* Timer wheels (dp/core/timer.c), however late timer_run is called: no     *)
(* timer fires before its time, a pending timer is in one bucket, and none  *)
(* is left behind in a bucket that has been passed.  This is not said of a  *)
(* timer that timer_insert put in a bucket a whole turn ahead of the        *)
(* position, which happens while a late pass catches up.                    *)
TimersSound ==
  /\ part = "timer" => /\ Wheel!TypeOK /\ Wheel!NeverEarly /\ Wheel!PendingInWheel
                       /\ Wheel!NoneOverdue
  /\ part = "timer_wheels" => /\ Wheels!NeverEarly /\ Wheels!PendingInWheel
                              /\ Wheels!NoneOverdue

(* Chains of packet buffers (dp/net/pbuf.c): the total length of each is    *)
(* that of its chain in 16 bits, its count of references that of its users, *)
(* and a packet of the driver is held by one buffer.                        *)
PbufsSound ==
  /\ part = "pbuf" => Chains!TotLen /\ Chains!RefExact /\ Chains!MbufsOnce
  /\ part = "pbuf_pool" => PoolChains!TotLen /\ PoolChains!RefExact

(* The sandbox (dp/sandbox/umm.c, trap.c): the heap, mappings and the stack *)
(* never cover one another while there is space, no call takes pages away   *)
(* that it was not asked to, and the sandbox shows what the process maps; a *)
(* thread's creator is told its id if its wait does not end early.          *)
SandboxSound ==
  /\ part = "sandbox" => Box!NoClobber /\ Box!InArea /\ Box!KeepsGiven /\ Box!HostInDune
  /\ part = "sandbox_at" => BoxAt!HostInDune
  /\ part = "sandbox_locked" => BoxLocked!NoClobber /\ BoxLocked!KeepsGiven
  /\ part = "sandbox_clone" => Clone!ToldTid /\ Clone!SharedAlive /\ Clone!StoredTid

(* Algorithms on data agree with what they are to compute, on short data    *)
(* and, for the checksums, on data that repeats: the bytes that pbuf_copy_partial, pbuf_take and       *)
(* pbuf_memcmp see, the checksums of inet_chksum.c over chains cut anywhere,*)
(* ipaddr_aton and its inverse, and the configuration file of cfg.c, where  *)
(* the length of a netmask counts modulo the width of an address.           *)
AlgorithmsRight ==
  /\ part = "pbuf_data" => Bytes!PartialRight /\ Bytes!TakeRight /\ Bytes!CopyRight /\ Bytes!CompareRight
  /\ part = "inet_chksum" => /\ Chksum!SumRight /\ Chksum!VersionsAgree /\ Chksum!ChainRight
                             /\ Chksum!PartialSum /\ Chksum!PseudoRight
  /\ part = "ip4_addr" => Addr!Understood /\ Addr!RoundTrip /\ Addr!NetmaskValid /\ Addr!LastOfBlock
  /\ part = "cfg" => Config!InBounds /\ Config!AsListed /\ Config!LastEntry /\ Config!Network

(* The load generator (client/): requests leave no earlier than their time  *)
(* and with a buffer each, no buffer is lost or freed twice, the summary    *)
(* counts what came back; each receiver has a queue of its own that the     *)
(* requests of its senders come back to.                                    *)
ClientSound ==
  /\ part = "client" => Load!OnTime /\ Load!MbufsKept /\ Load!PoolSound /\ Load!SummaryRight
  /\ part = "client_single" => /\ LoadSingle!OnTime /\ LoadSingle!MbufsKept
                               /\ LoadSingle!PoolSound /\ LoadSingle!SummaryRight
  /\ part = "client_setup" => LoadSetup!Received /\ LoadSetup!QueueAlone /\ LoadSetup!JoinAll

(* The policy of the dispatcher (inc/ix/dispatch.h, dp/core/dispatcher.c):  *)
(* with an objective for every type no type of request is starved, however  *)
(* requests arrive, and no worker is idle while a request waits.            *)
PolicySound == part = "scheduling" => Sched!NoStarvation /\ Sched!Conserving
=============================================================================
