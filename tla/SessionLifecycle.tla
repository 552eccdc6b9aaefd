-------------------------- MODULE SessionLifecycle --------------------------
(***************************************************************************)
(* What a VMSession promises its caller: it is opened once, successfully  *)
(* or not; its methods run one at a time; between calls an open session   *)
(* holds its connection; a failed open holds nothing; and Close ends the  *)
(* session for good with every connection released.                       *)
(***************************************************************************)

VARIABLES
  life,  \* "new", "ready" (opened), "failed" (open failed) or "closed"
  busy,  \* a call on the session is in progress
  held   \* the session holds some connection, client, channel or file

lifeVars == <<life, busy, held>>

Init == life = "new" /\ busy = FALSE /\ held = FALSE

\* A call starts on a session that is not yet opened, or is open.
Begin ==
  /\ ~busy /\ life \in {"new", "ready"}
  /\ busy' = TRUE
  /\ UNCHANGED <<life, held>>

\* The call in progress acquires or releases connections.
Work ==
  /\ busy /\ life \in {"new", "ready"}
  /\ held' \in BOOLEAN
  /\ UNCHANGED <<life, busy>>

\* The open succeeds: the session holds its connection.
Opened ==
  /\ busy /\ life = "new"
  /\ life' = "ready" /\ busy' = FALSE /\ held' = TRUE

\* The open fails and leaves nothing behind.
OpenFailed ==
  /\ busy /\ life = "new"
  /\ life' = "failed" /\ busy' = FALSE /\ held' = FALSE

\* A method returns, its result or error aside; the session stays open.
Return ==
  /\ busy /\ life = "ready" /\ held
  /\ busy' = FALSE
  /\ UNCHANGED <<life, held>>

\* Close returns: nothing is held any more, and nothing can be called.
Closed ==
  /\ busy /\ life = "ready"
  /\ life' = "closed" /\ busy' = FALSE /\ held' = FALSE

Next == Begin \/ Work \/ Opened \/ OpenFailed \/ Return \/ Closed

Spec == Init /\ [][Next]_lifeVars

=============================================================================
