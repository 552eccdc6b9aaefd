\* An error from UploadAndRunScript (the tunnel or the upload failing)
\* is recorded as a failed cloud-init, never retried.
CONSTANTS
  MaxLost <- MCMaxLost
  MaxRuns <- MCMaxRuns
SPECIFICATION Spec
INVARIANTS TransientErrorsRetried
CHECK_DEADLOCK FALSE
