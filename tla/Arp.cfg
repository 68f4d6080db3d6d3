CONSTANTS
  Cpus = {c1, c2}
  Addrs = {a1, a2}
  Static = {a2}
  Pkts = {p1, p2}
  Entries = {e1, e2, e3}
  Slots = {s1, s2}
  ARP_MAX_ATTEMPTS = 2
  NULL = NULL
SPECIFICATION FairSpec
INVARIANT ArpSound
PROPERTY PacketsLeave
