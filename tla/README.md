# Shinjuku: a TLA+ model of the dataplane

Shinjuku is a single-address-space dataplane that schedules requests in
microseconds and preempts them.  It has no locks on its fast path: three kinds of
cores hand requests, contexts and packet buffers to each other through cache-line
slots, each guarded by one flag, and a posted interrupt can take a request off its
core at almost any instruction.  Around them stands what it took over from IX: drivers,
pools, timers, ARP, a TCP stack, an event library and a sandbox.

This directory models both, checks them with TLC on small instances, and proves the
invariants of the core loops, of the start-up, of address resolution and of the TCP
receiver with TLAPS for any number of workers, buffers, CPUs, addresses and bytes.

## The system and its modules

| part | source | module |
|---|---|---|
| memory the cores share, queues, contexts | `inc/ix/dispatch.h`, `inc/ix/context.h`, `dp/core/taskqueue.c` | `Dispatch` |
| dispatcher core (CPU 0) | `dp/core/dispatcher.c` | `Dispatcher` |
| networker core (CPU 1) | `dp/core/networker.c`, `inc/ix/networker.h` | `Networker` (one receive queue) |
| worker cores (CPU 2..) | `dp/core/worker.c`, `dp/core/context.c`, `dp/core/context_fast.S` | `Worker` (a switch is a change of `work_pc`; registers are not modelled) |
| the three together | | `Shinjuku` |
| life of a request | the three loops | `RequestLifecycle`, which `Shinjuku` implements |
| which request is next, and when it is preempted | `inc/ix/dispatch.h`, `dp/core/dispatcher.c` | `Scheduling` (with the time that `Dispatcher` leaves out) |
| start-up of CPUs, queues and devices | `dp/core/init.c`, `dp/core/cpu.c`, `dp/core/ethdev.c` | `Startup` |
| receive path | `dp/drivers/ixgbe.c`, `i40e.c`, `inc/ix/ethqueue.h`, `dp/net/ip.c`, `udp.c` | `RxPath` |
| transmit path | `dp/drivers/ixgbe.c`, `i40e.c`, `dp/core/ethqueue.c`, `inc/ix/transmit.h` | `TxRing` |
| devices, PCI, redirection table | `dp/drivers/common.c`, `dp/core/ethdev.c`, `dp/core/pci.c` | `Devices`, `Pci`, `Reta` |
| flow groups, run lists, control plane | `dp/core/ethfg.c`, `cpu.c`, `syscall.c`, `control_plane.c` | `FlowGroup` |
| ARP | `dp/net/arp.c`, `dp/net/ip.c` | `Arp` |
| memory pools | `dp/core/mempool.c`, `inc/ix/mempool.h`, `libix/mempool.c` | `Mempool` (kernel and `ix_` actions of user code); both implement `MemoryPool` |
| pages and mappings | `dp/core/mem.c`, `page.c`, `vm.c` | `Memory` |
| timer wheel | `dp/core/timer.c` | `Timer` |
| TCP | `dp/net/tcp.c`, `tcp_in.c`, `tcp_out.c`, `tcp_api.c` | `TcpReceive`, `TcpSend`, `TcpConn`, `TcpPcbs`, `TcpApi`, `Steering` |
| event library | `libix/ixev.c`, `libix/main.c` | `Ixev` |
| packet buffers, checksums, address texts | `dp/lwip/` | `Pbuf`, `PbufData`, `InetChksum`, `Ip4Addr` |
| configuration | `dp/core/cfg.c` | `Cfg` |
| sandbox | `dp/sandbox/umm.c`, `trap.c` | `Sandbox`, `SandboxClone` |
| load generator | `client/` | `ClientSetup`, `Client` |

How the parts interact:

1. The networker collects up to `ETH_RX_MAX_BATCH` frames from its rings, spins until
   `networker_pointers.cnt` is 0, frees the buffers the dispatcher left in the same
   array, writes the batch and sets `cnt`.
2. The dispatcher visits every worker and then the networker.  For a worker that
   reports `FINISHED` it frees the context and keeps the buffer in `mqueue`; for
   `PREEMPTED` it puts the request at the tail of its queue; in both cases it then
   looks for a task for that worker.  A `RUNNING` worker whose quantum is over gets
   an interrupt, once per dispatch.  From the networker it takes a batch, allocates a
   context for each packet (or puts its buffer in `mqueue` when there is none), and
   puts up to a batch of buffers from `mqueue` into the array.
3. A worker spins on its request slot, runs the request in the request's context, and
   reports it, having been switched back by the end of the request or by the
   interrupt.  Interrupts are enabled only while the request's own work runs.  A
   response goes through ARP and the transmit ring of the worker's own queue.
4. The TCP stack, the flow groups, libix and the sandbox are IX's.  The three loops do not
   enter them (`ip_input` drops TCP and ICMP), so they are modelled as components of
   their own, driven by the calls and segments they accept.

## How state and actions correspond to the code

Every module has the state of its component as variables, `Init`, one action per function
or per step of a loop, and `Next`.  Variables, fields and actions keep the names of the code
where TLA+ allows it.  A step is one access to shared memory, or all that runs under one
lock or between two points where another actor can intervene; the comment at the head of a
module says which.  Program counters (`disp_pc`, `work_pc`, `pc`, ...) name points of the
code's loops, listed in those comments.

For the three core loops:

| state | code |
|---|---|
| `request_flag[w]`, `request[w]` | `dispatcher_requests[w]`: flag, and rnbl, mbuf, type, category |
| `response_flag[w]`, `response[w]` | `worker_responses[w]`: the same |
| `cnt`, `free_cnt`, `pkts`, `types` | `networker_pointers` |
| `tskq`, `task_mempool` | the task queues; the number of free task cells |
| `mqueue`, `mcell_mempool` | the stack of buffers to give back; the number of free cells |
| `context_pool`, `stack_pool` | the free contexts; the number of free stacks |
| `preempt_check`, `ipi` | `preempt_check[w]`; the posted bit of `PREEMPT_VECTOR` |
| `disp_*`, `work_pc`, `cont`, `finished`, `net_*` | where each core is, and its locals |
| `mbuf_pool[p]` | how often buffer `p` is on the networker's free list |
| `short`, `replied` | what is known of the frame in a buffer; history of answers |

What is abstracted there: `smart_tskq_dequeue` serves some non-empty queue and a quantum may
end whenever a request runs, so every choice the clock could make is in the model (`Scheduling`
has the clock).  Pools are sets or counters; `mcell_mempool` may go negative, because
`mbuf_enqueue` does not check its allocation, and a negative count stands for the null
dereference.  `send_reply` succeeds or fails.  `exit(0)` on UDP port 6666 is a shutdown
and is left out.  `mbuf_dequeue` reads `next` from a cell it has just freed: the free list
overwrites only the first word of the cell, its `buffer` field, so the read is of the old
value and both are one step.

In the other modules:

- `Startup` ends where `Shinjuku` begins, with every CPU in its loop.  `started_cpus++` is a
  load and a store; the barrier and `pthread_create` are as POSIX defines them; a step that
  can fail may fail, and the process then exits.
- `RxPath` and `TxRing` have the descriptors, the driver's shadow of them and the positions of
  card and driver with their wrap (`MOD` values for 16 bits).  The card is an actor.
- `Arp` has the call each CPU is in (`cpu`), cut at every access to an entry and at every locked
  section, the table, a timer per entry with the CPU on whose wheel it is, the packets that wait
  with an entry and the run lists that carry them back to their CPUs.  A timer may fire
  whenever its CPU is not in a call, between any two steps of the calls of the others, since
  `arp_timer_handler` takes no lock for the entry.  Answers may come or be lost.  Where the handler
  would free an entry that another CPU still works on, or a timer would be put on a wheel twice,
  the model sets `broken` and ends: everything stated of ARP holds up to then.  A lookup, and a
  change of the flags of an entry, are one step.
- `Memory` lets a mapping fail at every page; `swept` has the pages whose mapping the clean-up takes.
  `Timer` has in `misplaced` the timers put a turn ahead of the pass that is still to come.  In the same
  way `SandboxClone` (`early`, `broken`), `TcpApi` (`invalid`, `again`), `Sandbox` (`overrun`, `odd`),
  `FlowGroup` (`together`), `Devices` (`early`) and `Client` (`lost`) record that the code has met one of the
  cases listed under Findings; the properties say what still holds then and what holds until then.
- `TcpReceive` has the positions of a stream instead of its bytes; a peer sends any segment of
  the stream within what it was ever allowed to send, any number of times and in any order;
  answers may be lost.  Sequence numbers do not wrap: positions are those of one stream of
  `N` bytes.  `TcpSend` is the other direction, with a bag of acknowledgements on the way.
- `FlowGroup` runs the loop of `sys_bpoll` on each CPU.  Nothing in this program starts the control
  plane (`cp_init` has no caller) and the drivers no longer call
  `eth_recv_handle_fg_transition`; the model shows what the code does when they do.
- `PbufData`, `InetChksum`, `Ip4Addr` and `Cfg` are algorithms: a state is an input, a step calls the
  function, and the properties compare the result with a reference definition.
- Lengths, words and octets keep their width by a constant (`W`, `B`, `O`, `Width`), smaller
  than in the code so that wrapping happens in small instances.

Each property has a mutant, an operator named after the definition it would replace
(`take_request_noreset`, `dispatch_take_noflag`, `Before_whole`, ...) that makes one plausible
mistake in the code; with it TLC violates the property.

## The runs

| run | module | instance | checks |
|---|---|---|---|
| `shinjuku_batch` | `MCShinjuku` | 1 worker, 2 ports, batches of 2, 3 buffers, 2 contexts, stacks and cells | every buffer is in one place, `networker_pointers` has one user, `mbuf_enqueue` finds a cell |
| `shinjuku_workers` | `MCShinjuku` | 2 workers, 1 port, batches of 1, 2 buffers | contexts have one owner, request slots are not overwritten, a worker reports the request it ran, an answered request never runs again, `Shinjuku` implements `RequestLifecycle` |
| `shinjuku_live` | `MCShinjuku` | 1 worker, 2 ports, batches of 1, 2 buffers | every received request is over in the end; the networker never waits forever |
| `startup` | `Startup` | 4 CPUs, 2 devices with 4 or 5 TX queues and 0, 1 or 17 RX queues | no increment is lost, devices start after the queues, TX queues are not shared, no loop runs early, all CPUs reach their loops |
| `arp` | `Arp` | 2 CPUs, a static and a dynamic address, 2 packets, 3 entries, 2 pending packets | table and waiting packets stay sound; every packet is sent or freed, but for the cases under Findings |
| `tcp_receive` | `TcpReceive` | 4 bytes, a window of 4, segments of 2, window updates in units of 2 | the stream arrives in order, the window adds up, the announced edge never moves back; the stream arrives |
| `system` | `MCSystem` | 20 parts: pools, pages, timers, pbufs, sandbox, algorithms, configuration, load generator, policy | one property per group of components, and the steps the pools may take |
| `network` | `MCNetwork` | 21 parts: rings, flow groups, redirection table, steering, PCI, devices, TCP, libix | one property per group of components |
| `progress` | `MCNetwork` | 9 parts with fairness | frames are sent and taken, moves of flow groups end, TCP data arrives, closed connections are freed (with others active; the last one reaches TIME-WAIT), `clone` returns |
| `short_frames` | `MCShinjuku` | frames of any length | violated: see Findings |
| `startup_tx_limit` | `Startup` | 3 CPUs, a device with 2 TX queues | violated: see Findings |
| `tx_full` | `TxRing` | a ring of 8, 4 packets | violated: see Findings |

`MCSystem` and `MCNetwork` check many independent components in one run.  `part` is chosen
initially and names an instance of a module with small constants; the variables
`v1`, `v2`, ... stand for the variables of that module, the rest stay 0.  A behaviour is one
of that part, and a property is a conjunction of `part = "..." => Instance!Property`.  The
properties themselves are defined, each with a comment, in the component's module.

Why the bounds are enough to make the hard cases happen:

- With three buffers and two contexts a batch of two is admitted in part, and contexts, stacks,
  cells and the batch are at their limits at once.  With two workers a preempted
  request is resumed by the other worker, and an interrupt sent to a worker that has just
  finished stays pending and hits that worker's next request.
- Rings have 2 to 8 descriptors and positions wrap within a few steps; a packet of several
  descriptors meets the end of the ring.  The pool of the receive path just covers the
  rings, a batch and the requests in flight.
- A timer wheel has two or four buckets and two or three levels, so a timer is collapsed from
  each level to the next; `MaxTime` lets the first level turn more than once, and delays lie on both
  sides of the turn of each level.  A pass of `timer_run` may be late by three positions, more
  than a whole turn of the first level of the smaller wheel, and make up for them all.
- In `tcp_receive` four bytes in segments of two give out-of-order segments that touch, overlap and
  contain one another; a window of the length of the stream is filled and reopened.  In `network`
  the same module runs with six bytes and a smaller window.
- Pools of elements of 3 in pages of 5 leave room at the end of a page, where an element could
  straddle; eight elements in chunks of 2 let lists grow beyond a chunk.
- Two flow groups moved by one command or by two, two timers in a bucket, three calls of `clone` by one
  parent, two CPUs that update the redirection table are what the interleavings depend on.  A CPU takes
  one packet of a flow group at a time, so that a move finds packets waiting with the previous CPU.
- Requests for one and two pages fail at each of their pages.  Application mappings are made with and
  without an address, unmapped in part, and moved to a given place.
- Two connections share the handles of the system calls, with chains of two pbufs, acknowledgements
  that end inside one, refused connections and repeated closes.  A sender of three bytes meets a window
  of two, which closes.
- Checksums run over up to 19 octets, through the unrolled loops of `inet_chksum.c`; netmasks reach the
  width of an address; the load generator has fewer, as many and more receivers than senders, on cards
  with fewer queues than these and with enough.

Buffers and contexts are symmetric in the safety runs of `Shinjuku`; no symmetry is used for
liveness.  Deadlock is checked for `Shinjuku`, `Startup` and `Arp`; elsewhere a behaviour may end
because a bound is reached, a connection is closed or an algorithm has returned.

### Fairness

- `Shinjuku`: weak fairness of each core's loop, since each runs on a core of its own with nothing
  else scheduled there.  Frames need not arrive.  Two assumptions are strong.  Every queue
  that is non-empty again and again is served: `smart_tskq_dequeue` takes the head that has
  waited longest relative to the queue's objective, and waits only grow (`PolicySound`
  checks this with time, and needs non-zero objectives).  A request that runs again and again
  completes: its work is finite and a dispatch is worth a quantum; an interrupt left over from
  the worker's previous request can cut a dispatch short, and the assumption is that this
  does not hit one request forever.
- `Startup`: weak fairness of each thread that has a core of its own.  A new thread inherits the
  affinity and the FIFO priority that `cpu_init_one` gave to main, so it is sure to run only
  while main is in `usleep`: strong fairness of its first step in those states.
- `Arp`: weak fairness of the steps of a call, strong fairness of a CPU's run list and of its timers, to
  which its polling loop comes back between calls.  Nothing is assumed of the network.
- `TcpReceive`, `TcpSend`, `TcpConn`: the peer repeats what is not acknowledged, and of what is sent
  again and again something gets through (strong fairness); timers run; the
  application takes and releases its data.
- `TxRing`, `RxPath`: the worker or networker loops and the card does what its tail register allows.
- `FlowGroup`, `Reta`, `SandboxClone`: each CPU or thread goes on; the timeout of a move fires.

## The proofs

Eight modules hold theorems.  Each theorem is for every value of the constants that satisfies
the named assumptions of its component.

| module | about | theorems |
|---|---|---|
| `ShinjukuProofs`, `ShinjukuTheorems` | flags, slots, queues, contexts, cells | `InductiveInvariant`, `TypeCorrect`, `PointersExcluded`, `RequestSlotExcluded`, `OwnRequestRun`, `ContextsOwned`, `McellsSuffice` |
| `BufferProofs` | who holds a packet buffer | `CopyInvariant`, `BufferInvariant` |
| `LifecycleProofs` | requests | `BuffersOwned`, `AnswerInvariant`, `NeverRunAgain`, `ImplementsLifecycle` |
| `StartupProofs` | bring-up | `StartupType`, `StartupInvariant`, `IncrementsKept`, `DevicesAfterQueues`, `TxQueuesOwned`, `LoopsStartLast` |
| `TcpReceiveProofs` | the receiver | `ReceiverInvariant`, `StreamReceived`, `RightEdgeAdvances` |
| `ArpProofs` | address resolution | `ArpInvariant`, `ArpIsSound` |
| `MempoolProofs` | the memory pools of the kernel and of user code | `PoolInvariant`, `ElementsHaveOnePlace`, `ElementsFitPages`, `CountersRight`, `NoElementLost`, `ImplementsMemoryPool`, `UserPoolInvariant`, `UserPoolsSound` |

### The three cores

Assumed: `DispatchAssumption` (positive numbers of workers, ports and batch slots; finitely many
contexts; the null pointer is neither a context nor a buffer) and `PoolAssumption` (at
least as many task cells and buffer cells as stacks, and as many buffer cells as a batch has
packets), which the pool sizes in `context.c` and `taskqueue.c` satisfy.

The inductive invariant `IInv` of `Shinjuku` is proved layer by layer, each layer an invariant of its own
that the later ones use.

| layer | what it says | why it is needed |
|---|---|---|
| `PointersInv` | whose turn it is follows from `cnt`; loop indices agree with `cnt` and `free_cnt` | gives `PointersExclusion`; indices stay inside the arrays |
| `HandshakeInv` | the flags of a worker's slots as a function of its program counter and the dispatcher's | gives `RequestSlotExclusion`; the dispatcher's store order is what makes it inductive |
| `DataInv` | types of the remaining state | |
| `RunInv` | a worker runs the context in its request slot and reports that request | gives `RunsOwnRequest`; needs that no accepted frame is short |
| `TasksInv`, `PoolInv` | whatever is queued or with a worker has a context and a buffer | null never reaches a pool |
| `ContextInv`, `CountInv` | an allocated context is at one position of one queue or with one worker; free stacks and task cells match | gives `ContextOwnership`; a preempted request finds a task cell because it is allocated and not queued, so fewer contexts are queued than allocated |
| `MqueueInv` | `mqueue` and the allocated contexts together fit the contexts, up to the packets of the batch in hand | gives `McellAvailable`: a packet is refused only when all contexts are in use |

On top of it, buffers (`BufferProofs`).  A buffer has seven possible
holders: the pool, the frames being received, the batch in `networker_pointers`, the queues, a
worker with its slots, the stack `mqueue` and the array on its way back.  `CopyInvariant` says that what is copied through the array is what
was written.  `BufferInvariant` says that no two holders have a buffer in common and none has it twice.  A step
either leaves every holder as it is (`Still`), moves one buffer (`Moves`), or turns the
networker's batch over to the array; one lemma for each of these shows that ownership is kept, and
one lemma per action says which of them it is.

Then requests (`LifecycleProofs`).  `BufferOwnership` counts the places of a buffer; that the count is 1 follows from
`BufferInvariant` and finiteness of the places.  `AnswerInvariant` says that an answered
request is in the last steps of its worker, in its report, or in `mqueue` and the array back,
which gives `AnsweredOnce`.  For the refinement a buffer's stage is a function of its
holder (`Stage`); `StatusRight` shows that this is the mapping of `Shinjuku`, so a `Still` step is
a stutter of `RequestLifecycle`, a `Moves` step is one of its actions, and
`ImplementsLifecycle` combines them.

### Start-up

Assumed: at least two CPUs and one device, limits are numbers (`StartupAssumption`).  `SerialInv` says that
thread `c` exists only when all threads before it have incremented `started_cpus`; this makes
the unlocked increments safe and is what the other layers need.  `QueueInv` follows each
CPU's loop over the devices, `StartInv` the networker's.

### The TCP receiver

Assumed: stream, window, segment size, threshold and unit are positive
(`TcpReceiveAssumption`).  `SortedIn` says that the queue `ooseq` is sorted, without overlaps, and inside given
bounds, and `PcbInv` that what is delivered and refused is the stream up to `rcv_nxt` and that
the window, the bytes the application still holds and the refused bytes add up to `TCP_WND`.
`Core` relates the announced edge to the window.  Each helper of `tcp_in.c` has a lemma on
these: inserting with its cuts at the head, in the middle and at the end of the queue
(`tcp_oos_insert_segment`), trimming at both ends, taking from the queue what has become
contiguous, `tcp_update_rcv_ann_wnd`.  `ReceiverSound` follows from the invariant and
`EdgeAdvances` from its step.  Where an argument would go by induction along the queue
it takes the least position at which the claim fails (`NatMinimum`) and derives
a contradiction, since the provers cannot use an induction theorem.

### Address resolution

Assumed: a positive number of attempts, an entry for each static address, finitely many packets and
pending slots, `NULL` is none of the elements (`ArpAssumption`).  The inductive invariant `IInv` has
four parts.  `Types` has the types.  `TablePart` says what a call in progress knows of the entry it
holds: it is in the table, has the address of the call, and is not static where the call is past the
test of the flags; and every entry that is not static has a pending timer or a call that will set it or
remove the entry.  `SlotPart` says that a pending packet is on the run list of its CPU once, or with the
`send_pending_pkt` of that CPU, or has not been dispatched.  `PacketPart` says that a packet has one owner,
a call or a pending slot.  The steps of the unlocked `arp_timer_handler` keep it between any two steps of
other CPUs as long as they do not free what such a call holds; the steps that would are those at which the
model sets `broken`.  So the theorems are about every state up to the first such step, which
is what the code provides, and nothing is claimed after it.

### Memory pools

Assumed: a positive page size, positive chunk sizes, elements no longer than a page, and `NULL` is not
an offset (`MempoolAssumption`, a hypothesis of each theorem; `MCSystem` evaluates it for its three
instances).  `system` checks the same definitions (`OnePlace`, `ElementsFit`, `CountersAgree`,
`UserCountersAgree`, `KeepsAll` and the steps of `MemoryPool`) as parts of `PoolsSound` and `AllowedSteps`.

The inductive invariant `PoolInv` splits `OnePlace` in what it says of lists (`ListsApart`: no list
repeats an element, no two chunks share one) and of sets (`SetsApart`: cached, owned and stored elements
of the cores are disjoint), and adds `Started`: nothing is anywhere before it is created, no chunk of the
datastore is empty, so `mempool_alloc_2` finds an element in what it takes.  A step of one core keeps the
sets of the others; it is enough that it keeps the union of its own and the stored elements
(`LocalSets`).  Each action has a lemma that gives this together with its step of `MemoryPool`.

`mempool_create_datastore` is arithmetic.  `DivMod` and `DivUnique` characterise quotient and remainder;
from them, position `j` of chunk `k` is one index of `0 .. n * cs - 1` and each index is at one such position
(`IndexFacts`), offsets of different indices are `elem_len` apart, inside their page with `nostraddle`
(`Paged`) and inside the buffer without it (`Packed`), and there are at least `nr_elems` of them.

The counters are proved on top: a step pops, pushes, takes a chunk or sets the list aside
(`Pops`, `Pushes`, `Refills`, `SetsAside`), and one lemma on each version's counters covers these four
(`CountedStep`, `UserCountedStep`).

### Facts about finite sets

The lemmas of `ArpProofs`, `TcpReceiveProofs` and `MempoolProofs` take the few facts they need about
sizes of finite sets and least numbers as a hypothesis (`Sizes`, `NatFacts`, `CountFacts`).  Each is proved
at the end of its module from the library's theorems (`SizesRight`, `NatRight`, `CountRight`), before the
theorems, which do not have it as a hypothesis.  This keeps the library out of the
obligations of the other lemmas, which makes them several times faster to check.

### What is only model-checked

- Liveness: `RequestCompletes`, `NetworkerProceeds`, `AllReachLoop`, `PacketsLeave`, `Arrives` and the
  whole of `progress`.  Liveness under fairness is beyond the prover.
- The components in `system` and `network` other than the memory pools.  Timers, pbufs, checksums, address texts and the
  configuration are recursive computations over data, whose correctness for every
  input needs induction over data.  Rings, flow groups, TCP sending and connections, the
  sandbox, libix and the load generator have no proof yet; their runs are exhaustive for
  their instances.
- The three violated properties, which do not hold.

## Findings

- **A short frame is freed twice** (`short_frames`).  For a frame shorter than its UDP length
  `udp_input` (`dp/net/udp.c:53`) frees the buffer and returns -1; `ip_input`
  (`dp/net/ip.c:113`) frees every buffer for which the result is negative.  The
  buffer is then handed out while it is still on the free list, which
  `dp/core/mempool.c:45-47` describes as a list "of available slots".
- **One TX queue too many** (`startup_tx_limit`).  `eth_dev_get_tx_queue`
  (`dp/core/ethdev.c:285`) refuses when the index is greater than `max_tx_queues`, the RX
  side (`:237`) when it is greater or equal.  With one CPU more than the device has TX queues
  the last CPU gets a queue past the array allocated at `:108`, although
  `inc/ix/ethdev.h:678` calls the limit the "Maximum number of TX queues".
- **A packet that was admitted cannot be sent** (`tx_full`).  `inc/ix/ethqueue.h:182` declares `cap`
  as the "number of available buffers left"; `eth_process_reclaim` sets it to the free
  descriptors while packets of the last pass are still to be put on the ring, so
  `eth_send` admits a packet on which `eth_process_send` panics.

The modules are faithful to the code also where the code departs from its comments; these places
were met while modelling and have no run of their own:

- Pools: `mempool_alloc_2` does not add the chunk it takes to `num_free`, so chunks grow beyond
  `chunk_size` (`dp/core/mempool.c:89` and `:185`).
- Memory: the clean-up after a failed mapping passes the total length as the page size
  (`dp/core/vm.c:121`), so it takes the guest's mapping from pages above the request too, which may
  belong to others (`swept`); `page_alloc_contig_on_node` tests only the base against `MEM_USER_START`
  (`dp/core/page.c:86`) and compares with NULL where `MAP_FAILED` is returned (`:91`).
  No page is ever marked `PAGE_FLAG_CAN_FREE`, so the references of a page decide nothing and no
  property is about them.
- Timers: a delay just below `MAX_DELAY_US` selects a wheel that does not exist
  (`dp/core/timer.c:134`); a timer armed by a handler in the bucket being run is dropped (`:230`).
  The wheel of a timer is chosen by its distance from `now_us`, which a late pass has already moved while
  its position is still behind: a timer armed then can land in a bucket that the same pass comes to
  first.  It fires up to a turn early, or is lost with the bucket (`misplaced`).
- ARP: `arp_lookup` returns with `arp_lock` held when `arp_mempool` is empty (`dp/net/arp.c:142`);
  later lookups of unknown addresses then wait for ever, on all CPUs in the end.  The instance of `arp` has an entry
  to spare and does not come to this; `ArpIsSound` covers it, since it is for pools of every size.
  `arp_timer_handler` frees an entry without a lock (`:444`) while another CPU may have just found it, and
  its waiting packets while they are dispatched; two CPUs can put one timer on two wheels (`broken`).
  `ip_send_one` ignores the result of `arp_add_pending_pkt` (`dp/net/ip.c:202`): a packet whose entry
  expired in between is neither sent nor freed.
- Receive path: the batch limit is tested once per round over the queues, and a round
  of refused frames ends the batch (`inc/ix/ethqueue.h:133-141`).  i40e sends the header of a packet
  only (`dp/drivers/i40e.c:580`).
- TCP: the persist timer is started only if it runs already (`dp/net/tcp_in.c:1015`); the window of an
  acknowledgement is compared before it is scaled (`:1005`); giving up at `nrtx == TCP_MAXRTX` can be
  stepped over (`dp/net/tcp.c:1126`) and calls no error callback (`:1128`); a SYN to a port without
  a listener opens a connection to the last listener (`dp/net/tcp_in.c:273`); TIME-WAIT pcbs are walked inside
  the loop over the active connections (`dp/net/tcp.c:944`, `:1065-1067`), so that of the last connection is
  never freed (`tcp_conn_alone`).  With the persist timer not started, a sender whose window has closed waits for
  ever when the update is lost: `Delivered` makes an exception of it (`Shut`).
- System calls: `recv_done` frees a chain of which the first pbuf was acknowledged (`dp/net/tcp_api.c:300`)
  and forgets a call that ends inside a pbuf (`:294`).  Closing leaves `api->id` (`:335-340`) and
  `bsys_tcp_connect` does not reset it (`:701-706`): the element of a refused connection, used for one that
  the application opens, gives the id back a second time.  A repeated close is accepted
  when the element is the last of the free list, which has no link, or has a new connection.  A connection that
  ends before it is accepted has no cookie yet and its end is not told; one that is accepted and closed in
  one batch still gets the events of the accept.
- libix: `ix_flush` drops results (`libix/main.c:79`).  `ixev_recv_zc` does not compare head and tail
  (`libix/ixev.c:335`): after the receive ring has been used once around, a call with nothing to
  read can find an old entry, if `ixev_recv` read that one (which leaves its length), and give its bytes again.  The
  instance with `ixev_recv_zc` stays within one round of the ring, where the entries ahead are empty, so
  `ReadArrived` is shown for that case and, without `ixev_recv_zc`, for rings that wrap.  When `sendv` takes
  nothing and nothing is in flight no acknowledgement comes to make the next call, and the
  data stay where they are; the instances have `WriteFails` `FALSE`, so `TriesAgain` is about a kernel that
  takes less than it is given because its buffer is full.
- lwIP: `pbuf_memcmp` compares past the end (`dp/lwip/pbuf.c:1112`); `pbuf_memfind` skips too far
  (`:1144`); only the last part of an address text is compared with its width (`dp/lwip/ip4_addr.c:250`).
- Flow groups: a late notice of a first packet ends the next move (`dp/core/ethfg.c:326`); the timers of
  all but the last group of a command are lost (`:523`), so `TimersKept` is about groups moved alone (`together`).
- Configuration: a single objective for several ports leaves the others 0 (`dp/core/cfg.c:218`), which
  `smart_tskq_dequeue` takes for infinite urgency.  A prefix length of 32 shifts a 32-bit word by its
  width (`:245`), which x86 takes as a shift by 0: the mask is then 0, as for a length of 0.
- PCI: `pci_bar_to_idx` gives 0 for every bar (`dp/core/pci.c:299`).
- Sandbox: big mappings and mappings at a given address are placed without a look at what is there
  (`dp/sandbox/umm.c:182`, `:213`); `mremap`, `brk` and `shmat` run without the lock (`dp/sandbox/trap.c:625`).  A big mapping does
  not ask whether there is space left (`overrun`), and one that Dune refuses stays in the process (`umm.c:99`,
  `odd`).  `dune_pthread_create` tests the id with `if`, not in a loop (`trap.c:198`): a spurious wakeup makes `clone`
  return 0.  So does the signal of an earlier thread, which is sent after the mutex is given back (`:159`) and may find the
  parent, at the same place of its stack, in its next call (`early`).  The thread of a call that returned in this way
  goes on with what is no longer there (`broken`).
- Devices: frames that an ixgbe receives before the base of the ring is written leave its head behind the first
  descriptor, where the driver looks (`dp/drivers/ixgbe.c`); `FirstSeen` is about the other devices (`early`).
- Load generator: with fewer receivers than senders, the default, the queues of the other senders are polled by
  nobody; draining then joins `threads[i * 2]` beyond the last thread (`client/dpdk_bimodal_main.cpp:264-269`).  A number
  of queues that does not divide the redirection table, or a card with fewer queues than clients, puts
  responses and bursts on the wrong queue.  `sendBatch` forgets the requests after the first one
  for which there is no packet (`client/dpdk_client.cpp:402-408`, `lost`).

Where one of these places breaks what a checked property would say, the property names the
exception, by a history variable or a condition on the input, and the instance contains the
case.  Some instances leave a case out: the pool of `arp` has an entry to spare; libix has `WriteFails`
`FALSE`, and a receive ring that does not wrap with `ixev_recv_zc`; `PbufData` does not call `pbuf_memfind`
(`Searches`); the objectives of `Scheduling` are not 0; the pool of the receive path in `progress` covers what can
be in flight.  Some promises of comments that do not hold are stated in the modules and in no
run: `ToldOfTimeout`, `ZeroWindowProbed`, `WindowUpdated`, `MaxRetransmissions`, `EveryType`,
`MapsTheBar`.  Two things are left out of the models: the kernel is taken to map and unmap huge pages as
asked, and the limit of a waiting queue, `ETH_RX_MAX_DEPTH`, is in `RxPath` and not in `FlowGroup`.

## What is not modelled

- The sandbox loader (`dp/sandbox/main.c`, `exec.c`) reads ELF files and copies arguments: sequential
  input code without state that later calls depend on.
- ICMP and the packet dumps: `ip_input` drops ICMP, and `dump.c` prints.
- Statistics and logging.
- `timer_deadline`: `sys_bpoll` uses it only to choose how long to sleep (`dp/core/syscall.c:196`).
- Bringing a device up inside DPDK, the calibration of the clock, NUMA policies and
  permission bits, the layout of packets and of saved registers.
- Memory weaker than x86's: accesses to the cores' slots are volatile, and the hardware keeps stores in
  order.
