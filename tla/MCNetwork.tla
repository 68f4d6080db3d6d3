----------------------------- MODULE MCNetwork ------------------------------
(***************************************************************************)
(* The network side of the dataplane on small instances: the rings of the   *)
(* drivers, flows and the CPUs they are steered to, devices, TCP and the    *)
(* event library of applications.  A behaviour is one of a part, an         *)
(* instance of a module with small constants; the variables v1, v2, ... are *)
(* those of its module in turn.                                             *)
(***************************************************************************)
EXTENDS Integers

CONSTANTS
  Parts,        \* the parts a run looks at
  NULL

VARIABLES
  part,         \* the part of this behaviour
  v1, v2, v3, v4, v5, v6, v7, v8, v9, v10, v11, v12, v13, v14, v15,
  v16, v17, v18, v19, v20, v21, v22

(* Descriptor rings.                                                        *)
TxIxgbe == INSTANCE TxRing WITH
  Driver <- "ixgbe", LEN <- 4, MOD <- 8, Mbufs <- {"m1", "m2"}, Iovs <- {1, 2},
  MaxSends <- 1,
  head <- v1, tail <- v2, desc <- v3, entries <- v4, hw <- v5, tdt <- v6, cap <- v7,
  bufs <- v8, nr_iov <- v9, owner <- v10, sent <- v11, short <- v12, pc <- v13,
  sends <- v14

TxLive == INSTANCE TxRing WITH
  Driver <- "ixgbe", LEN <- 4, MOD <- 8, Mbufs <- 1 .. 2, Iovs <- {1}, MaxSends <- 1,
  head <- v1, tail <- v2, desc <- v3, entries <- v4, hw <- v5, tdt <- v6, cap <- v7,
  bufs <- v8, nr_iov <- v9, owner <- v10, sent <- v11, short <- v12, pc <- v13,
  sends <- v14

TxI40e == INSTANCE TxRing WITH
  Driver <- "i40e", LEN <- 2, MOD <- 4, Mbufs <- 1 .. 2, Iovs <- {1, 2}, MaxSends <- 1,
  head <- v1, tail <- v2, desc <- v3, entries <- v4, hw <- v5, tdt <- v6, cap <- v7,
  bufs <- v8, nr_iov <- v9, owner <- v10, sent <- v11, short <- v12, pc <- v13,
  sends <- v14

RxIxgbe == INSTANCE RxPath WITH
  Driver <- "ixgbe", Queues <- {1}, LEN <- 2, MOD <- 4, THRESH <- 1, DEPTH <- 1,
  BATCH <- 1, Mbufs <- 1 .. 5, Kinds <- {"req", "bad"}, MaxInFlight <- 2,
  head <- v1, tail <- v2, desc <- v3, entries <- v4, hw <- v5, rdt <- v6, backlog <- v7,
  pool <- v8, batch <- v9, empty <- v10, q <- v11, pc <- v12, cnt <- v13, pkts <- v14,
  back <- v15, inflight <- v16, done <- v17

RxI40e == INSTANCE RxPath WITH
  Driver <- "i40e", Queues <- {1}, LEN <- 4, MOD <- 4, THRESH <- 2, DEPTH <- 1,
  BATCH <- 1, Mbufs <- 1 .. 6, Kinds <- {"req", "loose", "other"}, MaxInFlight <- 1,
  head <- v1, tail <- v2, desc <- v3, entries <- v4, hw <- v5, rdt <- v6, backlog <- v7,
  pool <- v8, batch <- v9, empty <- v10, q <- v11, pc <- v12, cnt <- v13, pkts <- v14,
  back <- v15, inflight <- v16, done <- v17

RxLive == INSTANCE RxPath WITH
  Driver <- "ixgbe", Queues <- {1}, LEN <- 2, MOD <- 4, THRESH <- 1, DEPTH <- 1,
  BATCH <- 1, Mbufs <- 1 .. 5, Kinds <- {"req", "bad"}, MaxInFlight <- 1,
  head <- v1, tail <- v2, desc <- v3, entries <- v4, hw <- v5, rdt <- v6, backlog <- v7,
  pool <- v8, batch <- v9, empty <- v10, q <- v11, pc <- v12, cnt <- v13, pkts <- v14,
  back <- v15, inflight <- v16, done <- v17

(* Flows, and the queue and CPU they go to.                                 *)
Group == INSTANCE FlowGroup WITH
  Cpus <- {1, 2}, Fgs <- {"f"}, MaxPkts <- 3, MaxCmds <- 2, MaxMove <- 1, Batch <- 1, Delay <- TRUE,
  fg <- v1, out <- v2, conn <- v3, reta <- v4, wire <- v5, ring <- v6, rxq <- v7,
  remote <- v8, local <- v9, info <- v10, timeout <- v11, runlist <- v12, timers <- v13,
  collected <- v14, cmd <- v15, cmds <- v16, sent <- v17, got <- v18, events <- v19,
  pc <- v20, together <- v21

Groups == INSTANCE FlowGroup WITH
  Cpus <- {1, 2}, Fgs <- {"f", "g"}, MaxPkts <- 1, MaxCmds <- 2, MaxMove <- 2,
  Batch <- 1, Delay <- FALSE,
  fg <- v1, out <- v2, conn <- v3, reta <- v4, wire <- v5, ring <- v6, rxq <- v7,
  remote <- v8, local <- v9, info <- v10, timeout <- v11, runlist <- v12, timers <- v13,
  collected <- v14, cmd <- v15, cmds <- v16, sent <- v17, got <- v18, events <- v19,
  pc <- v20, together <- v21

GroupLive == INSTANCE FlowGroup WITH
  Cpus <- {1, 2}, Fgs <- {"f"}, MaxPkts <- 2, MaxCmds <- 2, MaxMove <- 1, Batch <- 1,
  Delay <- FALSE,
  fg <- v1, out <- v2, conn <- v3, reta <- v4, wire <- v5, ring <- v6, rxq <- v7,
  remote <- v8, local <- v9, info <- v10, timeout <- v11, runlist <- v12, timers <- v13,
  collected <- v14, cmd <- v15, cmds <- v16, sent <- v17, got <- v18, events <- v19,
  pc <- v20, together <- v21

RetaIxgbe == INSTANCE Reta WITH
  Cpus <- {"c1", "c2"}, Queues <- {1, 2}, Fgs <- 8, Bits <- 4, Width <- 16,
  Driver <- "ixgbe",
  conf <- v1, reg <- v2, lock <- v3, i <- v4, part <- v5, pc <- v6

RetaI40e == INSTANCE Reta WITH
  Cpus <- {"c1", "c2"}, Queues <- {1, 2}, Fgs <- 8, Bits <- 4, Width <- 16,
  Driver <- "i40e",
  conf <- v1, reg <- v2, lock <- v3, i <- v4, part <- v5, pc <- v6

RetaLive == INSTANCE Reta WITH
  Cpus <- {"c1", "c2"}, Queues <- {1}, Fgs <- 8, Bits <- 4, Width <- 16,
  Driver <- "ixgbe",
  conf <- v1, reg <- v2, lock <- v3, i <- v4, part <- v5, pc <- v6

Steer == INSTANCE Steering WITH
  NCpus <- 2, PORTS_PER_CPU <- 6, PortBits <- 4, Dsts <- {1}, MaxFilters <- 2,
  MaxConnects <- 2,
  key <- v1, cur_cpu <- v2, local_port <- v3, filters <- v4, conns <- v5, calls <- v6,
  lapped <- v7

(* Buses and devices.                                                       *)
Bus == INSTANCE Pci WITH
  PCI_MAX_BARS <- 3, Kinds <- {"mem", "prefetch", "readonly", "io", "none"},
  MaxMaps <- 2,
  sysfs <- v1, dev <- v2, pcidma_fd <- v3, master <- v4, host <- v5, dune <- v6

Devs == INSTANCE Devices WITH
  N <- 2, Kinds <- {"ixgbe", "ixgbevf", "i40e", "em", "unknown"}, MaxPorts <- 2,
  NumCpus <- 2, L <- 3,
  kind <- v1, port <- v2, eth <- v3, nb_rx <- v4, pc <- v5, cur <- v6, tx <- v7,
  rxq <- v8, txq <- v9, ring <- v10, stray <- v11, early <- v12, mac <- v13, macs <- v14

(* TCP.                                                                     *)
Send == INSTANCE TcpSend WITH
  N <- 4, Sizes <- {2}, TCP_SND_BUF <- 4, TCP_SND_QUEUELEN <- 8, MSS <- 1,
  TCP_MAXRTX <- 1, W <- 5, UNIT <- 1, LOSSY <- TRUE, MaxAcks <- 2, MaxCwnd <- 6,
  c <- v1, sent <- v2, gone <- v3, acks <- v4, peer <- v5

SendWindow == INSTANCE TcpSend WITH
  N <- 6, Sizes <- {3}, TCP_SND_BUF <- 5, TCP_SND_QUEUELEN <- 7, MSS <- 2,
  TCP_MAXRTX <- 1, W <- 4, UNIT <- 2, LOSSY <- TRUE, MaxAcks <- 2, MaxCwnd <- 12,
  c <- v1, sent <- v2, gone <- v3, acks <- v4, peer <- v5

SendLive == INSTANCE TcpSend WITH
  N <- 3, Sizes <- {1, 2}, TCP_SND_BUF <- 2, TCP_SND_QUEUELEN <- 4, MSS <- 1,
  TCP_MAXRTX <- 2, W <- 2, UNIT <- 1, LOSSY <- TRUE, MaxAcks <- 1, MaxCwnd <- 6,
  c <- v1, sent <- v2, gone <- v3, acks <- v4, peer <- v5

Receive == INSTANCE TcpReceive WITH
  N <- 6, TCP_WND <- 5, MSS <- 2, THRESHOLD <- 2, UNIT <- 2,
  pcb <- v1, got <- v2, used <- v3, closed <- v4, una <- v5, told <- v6

Conn == INSTANCE TcpConn WITH
  TCP_MAXRTX <- 1, MaxBytes <- 1, Writers <- {"client"}, MaxNet <- 2, MaxPcbs <- 1,
  Others <- TRUE,
  pcb <- v1, app <- v2, hist <- v3, net <- v4

ConnLive == INSTANCE TcpConn WITH
  TCP_MAXRTX <- 1, MaxBytes <- 0, Writers <- {}, MaxNet <- 1, MaxPcbs <- 1,
  Others <- TRUE,
  pcb <- v1, app <- v2, hist <- v3, net <- v4

ConnAlone == INSTANCE TcpConn WITH
  TCP_MAXRTX <- 1, MaxBytes <- 0, Writers <- {}, MaxNet <- 1, MaxPcbs <- 1,
  Others <- FALSE,
  pcb <- v1, app <- v2, hist <- v3, net <- v4

Lists == INSTANCE TcpPcbs WITH
  Pcbs <- {"p1", "p2", "p3"}, Ports <- {1, 2}, Peers <- {1, 2}, Listen <- {1, 2},
  Timeout <- 0,
  pcb <- v1, active_tbl <- v2, active_buckets <- v3, tw_pcbs <- v4, bound_pcbs <- v5,
  tcpip_timer <- v6, last <- v7, crashed <- v8

Api == INSTANCE TcpApi WITH
  Handles <- {1, 2}, Lens <- {1}, MaxPbufs <- 1, Outcomes <- {"ok", "no pcb", "late"},
  Refuses <- TRUE, Partial <- FALSE, CloseAtOnce <- TRUE, CloseTwice <- TRUE,
  MaxConns <- 2, MaxChains <- 1,
  api <- v1, free <- v2, ids <- v3, karr <- v4, uarr <- v5, closed <- v6, ctx <- v7,
  conns <- v8, where <- v9, invalid <- v10, hasty <- v11, again <- v12

ApiData == INSTANCE TcpApi WITH
  Handles <- {1}, Lens <- {1, 2}, MaxPbufs <- 2, Outcomes <- {"ok"},
  Refuses <- FALSE, Partial <- TRUE, CloseAtOnce <- TRUE, CloseTwice <- FALSE,
  MaxConns <- 1, MaxChains <- 2,
  api <- v1, free <- v2, ids <- v3, karr <- v4, uarr <- v5, closed <- v6, ctx <- v7,
  conns <- v8, where <- v9, invalid <- v10, hasty <- v11, again <- v12

(* The event library of applications.                                       *)
Sender == INSTANCE Ixev WITH
  BufSize <- 2, Bufs <- {1, 2}, WinSize <- 4, SendDepth <- 2, RecvDepth <- 2,
  MaxLen <- 4, SndBuf <- 3, Sizes <- {1, 3}, MaxSend <- 5, MaxRecv <- 0,
  ZeroCopy <- FALSE, Others <- 1, WriteFails <- FALSE,
  send <- v1, send_total <- v2, sent_total <- v3, refs <- v4, cur_buf <- v5, bufs <- v6,
  pool <- v7, karr <- v8, len <- v9, sendv_desc <- v10, recv_done_desc <- v11,
  is_dead <- v12, released <- v13, recv <- v14, recv_head <- v15, recv_tail <- v16,
  arrived <- v17, read <- v18, done <- v19, uarr <- v20, where <- v21, pcb <- v22

Receiver == INSTANCE Ixev WITH
  BufSize <- 2, Bufs <- {1, 2}, WinSize <- 4, SendDepth <- 2, RecvDepth <- 4,
  MaxLen <- 4, SndBuf <- 3, Sizes <- {1, 3}, MaxSend <- 1, MaxRecv <- 5,
  ZeroCopy <- FALSE, Others <- 0, WriteFails <- FALSE,
  send <- v1, send_total <- v2, sent_total <- v3, refs <- v4, cur_buf <- v5, bufs <- v6,
  pool <- v7, karr <- v8, len <- v9, sendv_desc <- v10, recv_done_desc <- v11,
  is_dead <- v12, released <- v13, recv <- v14, recv_head <- v15, recv_tail <- v16,
  arrived <- v17, read <- v18, done <- v19, uarr <- v20, where <- v21, pcb <- v22

ZeroCopy == INSTANCE Ixev WITH
  BufSize <- 2, Bufs <- {1, 2}, WinSize <- 4, SendDepth <- 2, RecvDepth <- 4,
  MaxLen <- 4, SndBuf <- 3, Sizes <- {1, 2}, MaxSend <- 0, MaxRecv <- 3,
  ZeroCopy <- TRUE, Others <- 0, WriteFails <- FALSE,
  send <- v1, send_total <- v2, sent_total <- v3, refs <- v4, cur_buf <- v5, bufs <- v6,
  pool <- v7, karr <- v8, len <- v9, sendv_desc <- v10, recv_done_desc <- v11,
  is_dead <- v12, released <- v13, recv <- v14, recv_head <- v15, recv_tail <- v16,
  arrived <- v17, read <- v18, done <- v19, uarr <- v20, where <- v21, pcb <- v22

(* Threads of the sandbox, for their progress.                              *)
Clone == INSTANCE SandboxClone WITH
  Parents <- {1}, MaxCalls <- 3,
  parent <- v1, call <- v2, child <- v3, ta_tid <- v4, ta_mtx <- v5, settid <- v6,
  result <- v7, early <- v8, broken <- v9

(* The parts are instances that their modules are meant for.                *)
ASSUME PartsAssumption ==
  /\ TxIxgbe!TxRingAssumption /\ TxLive!TxRingAssumption /\ TxI40e!TxRingAssumption
  /\ RxIxgbe!RxPathAssumption /\ RxI40e!RxPathAssumption /\ RxLive!RxPathAssumption
  /\ Group!FlowGroupAssumption /\ Groups!FlowGroupAssumption /\ GroupLive!FlowGroupAssumption
  /\ Send!TcpSendAssumption /\ SendWindow!TcpSendAssumption /\ SendLive!TcpSendAssumption
  /\ Conn!TcpConnAssumption /\ ConnLive!TcpConnAssumption /\ ConnAlone!TcpConnAssumption
  /\ Lists!TcpPcbsAssumption
  /\ Api!TcpApiAssumption /\ ApiData!TcpApiAssumption /\ Sender!IxevAssumption /\ Receiver!IxevAssumption
  /\ ZeroCopy!IxevAssumption

(* The variables from the k-th on, which a part does not have.             *)
Rest21 == v22 = 0
Rest17 == v18 = 0 /\ v19 = 0 /\ v20 = 0 /\ v21 = 0 /\ Rest21
Rest14 == v15 = 0 /\ v16 = 0 /\ v17 = 0 /\ Rest17
Rest13 == v14 = 0 /\ Rest14
Rest12 == v13 = 0 /\ Rest13
Rest10 == v11 = 0 /\ v12 = 0 /\ Rest12
Rest9 == v10 = 0 /\ Rest10
Rest8 == v9 = 0 /\ Rest9
Rest7 == v8 = 0 /\ Rest8
Rest6 == v7 = 0 /\ Rest7
Rest5 == v6 = 0 /\ Rest6
Rest4 == v5 = 0 /\ Rest5

Keep21 == UNCHANGED <<v22>>
Keep17 == UNCHANGED <<v18, v19, v20, v21>> /\ Keep21
Keep14 == UNCHANGED <<v15, v16, v17>> /\ Keep17
Keep13 == UNCHANGED <<v14>> /\ Keep14
Keep12 == UNCHANGED v13 /\ Keep13
Keep10 == UNCHANGED <<v11, v12>> /\ Keep12
Keep9 == UNCHANGED <<v10>> /\ Keep10
Keep8 == UNCHANGED <<v9>> /\ Keep9
Keep7 == UNCHANGED <<v8>> /\ Keep8
Keep6 == UNCHANGED <<v7>> /\ Keep7
Keep5 == UNCHANGED <<v6>> /\ Keep6
Keep4 == UNCHANGED <<v5>> /\ Keep5

Init ==
  /\ part \in Parts
  /\ \/ part = "tx_ixgbe" /\ TxIxgbe!Init /\ Rest14
     \/ part = "tx_live" /\ TxLive!Init /\ Rest14
     \/ part = "tx_i40e" /\ TxI40e!Init /\ Rest14
     \/ part = "rx_ixgbe" /\ RxIxgbe!Init /\ Rest17
     \/ part = "rx_i40e" /\ RxI40e!Init /\ Rest17
     \/ part = "rx_live" /\ RxLive!Init /\ Rest17
     \/ part = "flow_group" /\ Group!Init /\ Rest21
     \/ part = "flow_groups" /\ Groups!Init /\ Rest21
     \/ part = "flow_group_live" /\ GroupLive!Init /\ Rest21
     \/ part = "reta_ixgbe" /\ RetaIxgbe!Init /\ Rest6
     \/ part = "reta_i40e" /\ RetaI40e!Init /\ Rest6
     \/ part = "reta_live" /\ RetaLive!Init /\ Rest6
     \/ part = "steering" /\ Steer!Init /\ Rest7
     \/ part = "pci" /\ Bus!Init /\ Rest6
     \/ part = "devices" /\ Devs!Init /\ Rest14
     \/ part = "tcp_send" /\ Send!Init /\ Rest5
     \/ part = "tcp_send_window" /\ SendWindow!Init /\ Rest5
     \/ part = "tcp_send_live" /\ SendLive!Init /\ Rest5
     \/ part = "tcp_receive" /\ Receive!Init /\ Rest6
     \/ part = "tcp_conn" /\ Conn!Init /\ Rest4
     \/ part = "tcp_conn_live" /\ ConnLive!Init /\ Rest4
     \/ part = "tcp_conn_alone" /\ ConnAlone!Init /\ Rest4
     \/ part = "tcp_pcbs" /\ Lists!Init /\ Rest8
     \/ part = "tcp_api" /\ Api!Init /\ Rest12
     \/ part = "tcp_api_data" /\ ApiData!Init /\ Rest12
     \/ part = "ixev_send" /\ Sender!Init
     \/ part = "ixev_recv" /\ Receiver!Init
     \/ part = "ixev_recv_zc" /\ ZeroCopy!Init
     \/ part = "sandbox_clone" /\ Clone!Init /\ Rest9

Next ==
  /\ UNCHANGED part
  /\ \/ part = "tx_ixgbe" /\ TxIxgbe!Next /\ Keep14
     \/ part = "tx_live" /\ TxLive!Next /\ Keep14
     \/ part = "tx_i40e" /\ TxI40e!Next /\ Keep14
     \/ part = "rx_ixgbe" /\ RxIxgbe!Next /\ Keep17
     \/ part = "rx_i40e" /\ RxI40e!Next /\ Keep17
     \/ part = "rx_live" /\ RxLive!Next /\ Keep17
     \/ part = "flow_group" /\ Group!Next /\ Keep21
     \/ part = "flow_groups" /\ Groups!Next /\ Keep21
     \/ part = "flow_group_live" /\ GroupLive!Next /\ Keep21
     \/ part = "reta_ixgbe" /\ RetaIxgbe!Next /\ Keep6
     \/ part = "reta_i40e" /\ RetaI40e!Next /\ Keep6
     \/ part = "reta_live" /\ RetaLive!Next /\ Keep6
     \/ part = "steering" /\ Steer!Next /\ Keep7
     \/ part = "pci" /\ Bus!Next /\ Keep6
     \/ part = "devices" /\ Devs!Next /\ Keep14
     \/ part = "tcp_send" /\ Send!Next /\ Keep5
     \/ part = "tcp_send_window" /\ SendWindow!Next /\ Keep5
     \/ part = "tcp_send_live" /\ SendLive!Next /\ Keep5
     \/ part = "tcp_receive" /\ Receive!Next /\ Keep6
     \/ part = "tcp_conn" /\ Conn!Next /\ Keep4
     \/ part = "tcp_conn_live" /\ ConnLive!Next /\ Keep4
     \/ part = "tcp_conn_alone" /\ ConnAlone!Next /\ Keep4
     \/ part = "tcp_pcbs" /\ Lists!Next /\ Keep8
     \/ part = "tcp_api" /\ Api!Next /\ Keep12
     \/ part = "tcp_api_data" /\ ApiData!Next /\ Keep12
     \/ part = "ixev_send" /\ Sender!Next
     \/ part = "ixev_recv" /\ Receiver!Next
     \/ part = "ixev_recv_zc" /\ ZeroCopy!Next
     \/ part = "sandbox_clone" /\ Clone!Next /\ Keep9

vars == <<part,
  v1, v2, v3, v4, v5, v6, v7, v8, v9, v10, v11, v12, v13, v14, v15,
  v16, v17, v18, v19, v20, v21, v22>>

Spec == Init /\ [][Next]_vars

(* The fairness each part states, as in its own module.                     *)
RingFairness ==
  /\ WF_(TxLive!vars)(part = "tx_live" /\ TxLive!Worker)
  /\ WF_(TxLive!vars)(part = "tx_live" /\ TxLive!Nic)
  /\ WF_(TxI40e!vars)(part = "tx_i40e" /\ TxI40e!Worker)
  /\ WF_(TxI40e!vars)(part = "tx_i40e" /\ TxI40e!Nic)
  /\ WF_(RxLive!vars)(part = "rx_live" /\ RxLive!Networker)
  /\ WF_(RxLive!vars)(part = "rx_live" /\ RxLive!handle_networker)
  /\ \A m \in 1 .. 5 : WF_(RxLive!vars)(part = "rx_live" /\ RxLive!Finish(m))
FlowFairness ==
  /\ WF_(GroupLive!vars)(part = "flow_group_live" /\ GroupLive!Land)
  /\ \A c \in {1, 2} : /\ WF_(GroupLive!vars)(part = "flow_group_live" /\ GroupLive!Cpu(c))
                       /\ SF_(GroupLive!vars)(part = "flow_group_live" /\ GroupLive!Fires(c))
  /\ WF_(RetaLive!vars)(part = "reta_live" /\ RetaLive!Next)
TcpFairness ==
  /\ SF_(SendLive!vars)(part = "tcp_send_live" /\ SendLive!AckOfMore)
  /\ WF_(SendLive!vars)(part = "tcp_send_live" /\ SendLive!AnyAck)
  /\ SF_(SendLive!vars)(part = "tcp_send_live" /\ SendLive!tcp_unified_timer_handler(TRUE))
  /\ WF_(SendLive!vars)(part = "tcp_send_live" /\ SendLive!PeerReads)
  /\ \A e \in ConnLive!Ends : /\ WF_(ConnLive!vars)(part = "tcp_conn_live" /\ ConnLive!Retransmit(e))
                              /\ WF_(ConnLive!vars)(part = "tcp_conn_live" /\ ConnLive!tcp_slowtmr(e))
                              /\ WF_(ConnAlone!vars)(part = "tcp_conn_alone" /\ ConnAlone!Retransmit(e))
                              /\ WF_(ConnAlone!vars)(part = "tcp_conn_alone" /\ ConnAlone!tcp_slowtmr(e))
CloneFairness ==
  /\ WF_(Clone!vars)(part = "sandbox_clone" /\ Clone!Parent(1))
  /\ \A n \in 1 .. 3 : WF_(Clone!vars)(part = "sandbox_clone" /\ Clone!Child(1, n))

FairSpec == Spec /\ RingFairness /\ FlowFairness /\ TcpFairness /\ CloneFairness

-----------------------------------------------------------------------------

(* Rings of the drivers: head, hardware and tail stay in order across the   *)
(* wrap of 16-bit positions, the bookkeeping names the buffer at each       *)
(* descriptor, ixgbe frees no packet before all of it has left, and a       *)
(* receive buffer is at one place, between the networker, the dispatcher    *)
(* and the workers.                                                         *)
RingsSound ==
  /\ part = "tx_ixgbe" => TxIxgbe!TypeOK /\ TxIxgbe!RingOrder /\ TxIxgbe!EntriesMatch /\ TxIxgbe!NothingShort
  /\ part = "tx_i40e" => TxI40e!RingOrder /\ TxI40e!EntriesMatch
  /\ part = "rx_ixgbe" => RxIxgbe!OnePlace /\ RxIxgbe!RingOrder
  /\ part = "rx_i40e" => RxI40e!TypeOK /\ RxI40e!OnePlace /\ RxI40e!RingOrder

(* Flows: while a flow group moves between CPUs its packets are handled in  *)
(* order, those that wait included, its timers are kept if it moves alone   *)
(* and never fire on two CPUs, and one move is under way                    *)
(* (eth_fg_assign_to_cpu of dp/core/ethfg.c); updates of the        *)
(* redirection table do not undo one another; a connection's packets come   *)
(* to the CPU that opened it.                                               *)
FlowsSound ==
  /\ part = "flow_group" => /\ Group!InOrder /\ Group!TimersKept /\ Group!TimerOwner
                            /\ Group!IdleQuiet /\ Group!OneMove /\ Group!FilterOwner
  /\ part = "flow_groups" => /\ Groups!InOrder /\ Groups!TimersKept /\ Groups!TimerOwner
                             /\ Groups!IdleQuiet /\ Groups!OneMove
  /\ part = "reta_ixgbe" => RetaIxgbe!TableRight
  /\ part = "reta_i40e" => RetaI40e!TableRight
  /\ part = "steering" => Steer!Steered /\ Steer!FirstLap

(* Devices: the scan of the bus (dp/core/pci.c) fills in every device it    *)
(* keeps, maps each region where it is and finds all; ports, drivers and    *)
(* addresses of the devices of the configuration agree after every step of  *)
(* init_ethdev, failures included.                                          *)
DevicesSound ==
  /\ part = "pci" => Bus!FullyPopulated /\ Bus!MapsAgree /\ Bus!FindsAll
  /\ part = "devices" => /\ Devs!PortsMatch /\ Devs!Hijacked /\ Devs!NoStray
                         /\ Devs!FirstSeen /\ Devs!OneMac

(* Bytes over TCP: the sender keeps what is not acknowledged, sends no byte *)
(* as two different ones, counts its queue and buffer right, stays in the   *)
(* window and has a timer running; the receiver hands on the stream in      *)
(* order and never takes back window it has announced (tcp_in.c, tcp_out.c).*)
TcpStreamSound ==
  /\ part = "tcp_send" => Send!NothingForgotten /\ Send!SentOnce /\ Send!TimerRuns
  /\ part = "tcp_send_window" => /\ SendWindow!TypeOK
                                 /\ SendWindow!NothingForgotten /\ SendWindow!SentOnce
                                 /\ SendWindow!TimerRuns /\ SendWindow!QueueLength
                                 /\ SendWindow!SendBuffer /\ SendWindow!InWindow
  /\ part = "tcp_receive" => Receive!ReceiverSound

(* Two ends of a TCP connection: an end that counts its FIN or data as      *)
(* acknowledged is right about its peer, the states of the two ends fit,    *)
(* and an application hears of each end of the connection (tcp_process).    *)
(* A protocol control block is on the one list of its state, buckets are    *)
(* linked and found by a lookup, and a block that waits has its timer       *)
(* pending (tcp.c, tcp_in.c).                                               *)
TcpConnSound ==
  /\ part = "tcp_conn" => /\ Conn!TypeOK /\ Conn!AckTruthful /\ Conn!CloseAgrees
                          /\ Conn!Told
  /\ part = "tcp_pcbs" => /\ Lists!ListAxioms /\ Lists!BucketsLinked
                          /\ Lists!Findable /\ Lists!TimerPending

(* The calls of applications (dp/net/tcp_api.c): handles and ids are free   *)
(* once and offered to one connection; a received buffer is given once, is  *)
(* freed when the application is done with it and, if it came alone, not    *)
(* before; nothing but its own batch is told of a closed connection, and    *)
(* the end of one is told.  Up to a close that is repeated or releases the  *)
(* id of an earlier connection.                                             *)
TcpApiSound ==
  /\ part = "tcp_api" => /\ Api!IdsExclusive /\ Api!FreedWhenDone /\ Api!GivenOnce
                         /\ Api!NoLateEvent /\ Api!DeadNoticed
  /\ part = "tcp_api_data" => /\ ApiData!NotFreedEarly /\ ApiData!FreedWhenDone
                              /\ ApiData!GivenOnce /\ ApiData!NoLateEvent

(* The event library (libix/ixev.c): what the application sends leaves in   *)
(* order, stays in memory until it is acknowledged and is then released;    *)
(* what it reads is what arrived, copied or not.                            *)
IxevSound ==
  /\ part = "ixev_send" => /\ Sender!SentInOrder /\ Sender!HeldUntilSent
                           /\ Sender!AllReleased /\ Sender!TriesAgain
  /\ part = "ixev_recv" => Receiver!ReadArrived
  /\ part = "ixev_recv_zc" => ZeroCopy!ReadArrived

(* A packet that eth_send takes is sent and given back unless               *)
(* eth_process_send panics; a packet on the receive ring is taken, and the  *)
(* card is given descriptors again and again.                               *)
RingsProgress ==
  /\ \A m \in 1 .. 2 :
       /\ []<>(part = "tx_live" => TxLive!Settled(m))
       /\ []<>(part = "tx_i40e" => TxI40e!Settled(m))
       /\ []<>(part = "rx_live" => RxLive!Taken(1, m - 1))
  /\ []<>(part = "rx_live" => RxLive!Armed(1))

(* A command of the control plane is carried out, although a group that     *)
(* moves waits for packets and a timeout; every update of the redirection   *)
(* table comes to an end.                                                   *)
FlowsProgress ==
  /\ \A c \in 1 .. 2 : []<>(part = "flow_group_live" => GroupLive!Ready(c))
  /\ []<>(part = "reta_live" => RetaLive!AllDone)

(* A stream closed by its sender is acknowledged to its end or given up,    *)
(* although segments and acknowledgements are lost, unless the window of    *)
(* the peer closes and the news of its opening is lost; a connection its    *)
(* application closed is freed, whatever the peer does, or, if it was the   *)
(* last one, comes to TIME_WAIT.                                            *)
TcpProgress ==
  /\ []<>(part = "tcp_send_live" => SendLive!Over)
  /\ \A e \in ConnLive!Ends : /\ []<>(part = "tcp_conn_live" => ConnLive!Gone(e))
                              /\ []<>(part = "tcp_conn_alone" => ConnAlone!Gone(e))

(* Every clone in the sandbox returns to its caller and leaves the mutex    *)
(* free: no wakeup is lost between the look at ta_tid and the wait          *)
(* (dune_pthread_create of dp/sandbox/trap.c), and the late signal of an    *)
(* earlier call's thread does no worse than end a wait early.               *)
CloneReturns == []<>(part = "sandbox_clone" => Clone!Back(1))
=============================================================================
