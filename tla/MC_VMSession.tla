--------------------------- MODULE MC_VMSession ---------------------------
(* Model-checking instance of VMSession: every dial outcome dialWebSocket *)
(* tells apart, a zero and a non-zero exit status, and enough calls for   *)
(* two uploads (the second reusing the SFTP client), an execution and     *)
(* Close after NewVMSession.                                               *)
EXTENDS VMSession

MCDialOutcomes == {"ok", "404", "503", "400", "500", "noResponse", "deadline"}

MCExitCodes == {0, 42}

=============================================================================
