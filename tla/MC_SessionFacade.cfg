\* The facades leave no resource open on any path.
CONSTANTS
  DialOutcomes <- MCDialOutcomes
  ExitCodes <- MCExitCodes
  MaxCalls = 4
SPECIFICATION FSpec
INVARIANTS NoLeakOnReturn
\* Each facade is one call: it stops once it has returned.
CHECK_DEADLOCK FALSE
