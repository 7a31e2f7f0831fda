\* Files of a few lines, then sessions and their suboptions, over whatever
\* settings the line was left with.
SPECIFICATION Spec
CONSTANTS
  NULL = NULL
  Lines <- MCLines
  MaxLines = 5
  MAX_SPORTS = 2
  Accounts <- MCAccounts
  Directories <- MCDirectories
  Leftovers <- MCLeftovers
  Requests <- MCRequests
  MaxRequests = 3
INVARIANTS PortsAsWritten SaneForSession StartsAsConfigured
PROPERTY SetsExactlyThat
CHECK_DEADLOCK FALSE
