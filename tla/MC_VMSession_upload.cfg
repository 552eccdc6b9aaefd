\* UploadFile returns nil although the deferred f.Close() failed.
CONSTANTS
  DialOutcomes <- MCDialOutcomes
  ExitCodes <- MCExitCodes
  MaxCalls = 3
SPECIFICATION Spec
PROPERTY UploadCloseErrorReported
CHECK_DEADLOCK FALSE
