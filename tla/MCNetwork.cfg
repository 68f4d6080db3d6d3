CONSTANTS
  NULL = NULL
  Parts = {"tx_ixgbe", "tx_i40e", "rx_ixgbe", "rx_i40e", "flow_group", "flow_groups", "reta_ixgbe", "reta_i40e", "steering", "pci", "devices", "tcp_send", "tcp_send_window", "tcp_receive", "tcp_conn", "tcp_pcbs", "tcp_api", "tcp_api_data", "ixev_send", "ixev_recv", "ixev_recv_zc"}
SPECIFICATION Spec
INVARIANTS RingsSound  DevicesSound TcpStreamSound TcpConnSound TcpApiSound IxevSound
CHECK_DEADLOCK FALSE
