\* Any caller of one VMSession: Close tears down in order, and the session
\* follows its lifecycle (a failed open holds nothing).
CONSTANTS
  DialOutcomes <- MCDialOutcomes
  ExitCodes <- MCExitCodes
  MaxCalls = 5
SPECIFICATION Spec
INVARIANTS TypeOK
PROPERTIES CloseOrder SessionLifecycleSpec
\* A session is single-use: it ends after a failed NewVMSession or Close.
CHECK_DEADLOCK FALSE
