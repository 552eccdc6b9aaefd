\* A lost status write after the startup script ran: the next reconcile
\* runs it again.
CONSTANTS
  MaxLost <- MCMaxLost
  MaxRuns <- MCMaxRuns
SPECIFICATION Spec
INVARIANTS ScriptRunsOnce
CHECK_DEADLOCK FALSE
