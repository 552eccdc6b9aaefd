\* Observe runs the startup script although the CR is being deleted.
CONSTANTS
  MaxLost <- MCMaxLost
  MaxRuns <- MCMaxRuns
SPECIFICATION Spec
PROPERTY NoRunOnDeletion
CHECK_DEADLOCK FALSE
