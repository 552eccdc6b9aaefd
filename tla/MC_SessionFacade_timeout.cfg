\* A context deadline is reported as ErrTimeout.
CONSTANTS
  DialOutcomes <- MCDialOutcomes
  ExitCodes <- MCExitCodes
  MaxCalls = 4
SPECIFICATION FSpec
INVARIANTS TimeoutReported
CHECK_DEADLOCK FALSE
