------------------------- MODULE MC_SessionFacade -------------------------
(* Model-checking instance of SessionFacade: every dial outcome, a zero   *)
(* and a non-zero exit status, and the four calls the longest facade      *)
(* (UploadAndRunScript: open, upload, execute, close) makes.              *)
EXTENDS SessionFacade

MCDialOutcomes == {"ok", "404", "503", "400", "500", "noResponse", "deadline"}

MCExitCodes == {0, 42}

=============================================================================
