--------------------------- MODULE CloudInitRecord ---------------------------
(***************************************************************************)
(* What the cloud-init status a VM's CR records promises to its reader:    *)
(* it starts empty, may say "pending" while the guest's SSH server is not *)
(* up, and ends at most once, in "completed" or "failed"; "completed"     *)
(* only after some execution of the startup script exited 0.  The        *)
(* transient "running" is never recorded, and a final status is never    *)
(* left, however often the status is written or its writes are lost.     *)
(***************************************************************************)

VARIABLES
  cis,  \* the recorded cloud-init status
  ok    \* some execution of the startup script has exited 0

recVars == <<cis, ok>>

\* The statuses before the outcome is known.
Open == {"", "pending"}

Init == cis = "" /\ ok = FALSE

\* An execution of the script exits 0 on the VM.
ScriptSucceeds == ~ok /\ ok' = TRUE /\ cis' = cis

\* The guest could not be reached yet: the status says "pending".
Defer == cis = "" /\ cis' = "pending" /\ ok' = ok

\* The outcome is recorded: "completed" only after a successful run.
Complete == cis \in Open /\ ok /\ cis' = "completed" /\ ok' = ok

Fail == cis \in Open /\ cis' = "failed" /\ ok' = ok

Next == ScriptSucceeds \/ Defer \/ Complete \/ Fail

Spec == Init /\ [][Next]_recVars

=============================================================================
