CONSTANTS
  NULL = NULL
  Parts = {"tx_live", "tx_i40e", "rx_live", "flow_group_live", "reta_live", "tcp_send_live", "tcp_conn_live", "tcp_conn_alone", "sandbox_clone"}
SPECIFICATION FairSpec
PROPERTIES RingsProgress FlowsProgress  CloneReturns
CHECK_DEADLOCK FALSE
