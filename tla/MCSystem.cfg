CONSTANTS
  NULL = NULL
  Parts = {"mempool", "mempool_grow", "user_mempool", "memory", "timer", "timer_wheels", "pbuf", "pbuf_pool", "sandbox", "sandbox_at", "sandbox_locked", "sandbox_clone", "pbuf_data", "inet_chksum", "ip4_addr", "cfg", "client", "client_single", "client_setup", "scheduling"}
SPECIFICATION Spec
INVARIANTS PoolsSound MemorySound TimersSound PbufsSound SandboxSound AlgorithmsRight ClientSound PolicySound
PROPERTY AllowedSteps
CHECK_DEADLOCK FALSE
