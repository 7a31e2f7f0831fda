\* Two clients, one port, and signals that nest: the daemon forks, or serves one
\* client after the other.
SPECIFICATION Spec
CONSTANTS
  Client = {c1, c2}
  Daemon = d
  NoOne = none
  NumPorts = 1
  ServerTypes <- MCServerTypes
  MaxLevel = 1
  MaxSignals = 2
  MaxFailures = 1
INVARIANTS ChildrenAnnounced PortsMatchSessions SafeReload
PROPERTIES ServesOneAtATime EveryClientAnswered 
CHECK_DEADLOCK FALSE
