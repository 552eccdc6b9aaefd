\* Close reports an error although no close failed.
CONSTANTS
  DialOutcomes <- MCDialOutcomes
  ExitCodes <- MCExitCodes
  MaxCalls = 3
SPECIFICATION Spec
INVARIANTS CloseErrorsAreReal
CHECK_DEADLOCK FALSE
