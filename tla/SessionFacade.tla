--------------------------- MODULE SessionFacade ---------------------------
(***************************************************************************)
(* The open-use-close callers of a VMSession: RunCloudInit and             *)
(* UploadAndRunScript of internal/ssh/session.go, and isSSHReady of        *)
(* internal/controller/vm/vm.go.  Each runs as a sequential program (`fpc`) *)
(* that calls a VMSession method, waits for it to return (step = "idle")   *)
(* and branches on what it returned; `defer session.Close()` is the call   *)
(* of Close on every path after a session was returned.                    *)
(***************************************************************************)
EXTENDS VMSession

Facades == {"RunCloudInit", "UploadAndRunScript", "isSSHReady"}

VARIABLES
  fn,     \* the facade running
  fpc,    \* its program counter
  fret    \* what it returns: [err, exit, cause] (isSSHReady: exit 0 iff ready)

vars == <<sessionVars, fn, fpc, fret>>

FacadeTypeOK ==
  /\ TypeOK
  /\ fn \in Facades
  /\ fpc \in {"open", "use", "upload", "exec", "close", "done"}
  /\ fret \in [err : ErrKinds, exit : ExitCodes \cup {NoExit}, cause : Causes]

FInit ==
  /\ Init
  /\ fn \in Facades
  /\ fpc = "open"
  /\ fret = NoRet

\* The method called last has returned.
Returned == step = "idle" /\ calls > 0

\* session, err := NewVMSession(ctx, config).
FOpen ==
  /\ fpc = "open"
  /\ CallNewVMSession
  /\ fpc' = "use"
  /\ UNCHANGED <<fn, fret>>

\* Mutant: an error after the session was opened returns at once, as if
\* `defer session.Close()` came after the upload.
FReturnOnAnyError ==
  /\ \/ fpc = "use" /\ phase = "failed"
     \/ fpc = "upload" /\ ret.err # "none"
  /\ Returned
  /\ fpc' = "done"
  /\ fret' = ret
  /\ UNCHANGED <<sessionVars, fn>>

\* if err != nil { return nil, err }: no session, nothing to close.
FOpenFailed ==
  /\ fpc = "use"
  /\ Returned
  /\ phase = "failed"
  /\ fpc' = "done"
  /\ fret' = ret
  /\ UNCHANGED <<sessionVars, fn>>

\* RunCloudInit: session.ExecuteScript; isSSHReady: ExecuteCommand("ls -al").
FExecute ==
  /\ \/ fpc = "use" /\ fn \in {"RunCloudInit", "isSSHReady"}
     \/ fpc = "upload" /\ ret.err = "none"
  /\ Returned
  /\ phase = "ready"
  /\ CallExecute
  /\ fpc' = "exec"
  /\ UNCHANGED <<fn, fret>>

\* UploadAndRunScript: UploadBytes to /tmp/cloudinit-script.sh, 0755,
\* CreateDirs.
FUpload ==
  /\ fpc = "use"
  /\ fn = "UploadAndRunScript"
  /\ Returned
  /\ phase = "ready"
  /\ CallUploadFile(TRUE, TRUE)
  /\ fpc' = "upload"
  /\ UNCHANGED <<fn, fret>>

\* The deferred session.Close() once the facade has its result: the
\* result of the execution, or "failed to upload script".
FClose ==
  /\ \/ fpc = "exec"
     \/ fpc = "upload" /\ ret.err # "none"
  /\ Returned
  /\ CallClose
  /\ fret' = IF fn = "isSSHReady"
               THEN [ret EXCEPT !.exit = IF ret.err = "none" /\ ret.exit = 0
                                           THEN 0 ELSE NoExit]
               ELSE ret
  /\ fpc' = "close"
  /\ UNCHANGED fn

\* Close has returned; its error is dropped by the defer.
FDone ==
  /\ fpc = "close"
  /\ Returned
  /\ fpc' = "done"
  /\ UNCHANGED <<sessionVars, fn, fret>>

FacadeStep == FOpen \/ FOpenFailed \/ FExecute \/ FUpload \/ FClose \/ FDone

FNext == FacadeStep \/ (SessionStep /\ UNCHANGED <<fn, fpc, fret>>)

FSpec == FInit /\ [][FNext]_vars

-----------------------------------------------------------------------------
(* Properties.                                                             *)

\* Every facade leaves nothing open when it returns, on every path: the
\* wsNetConn, the SSH client, the SFTP client, the exec channel and the
\* remote file are closed (or never made), whatever step failed.
NoLeakOnReturn ==
  fpc = "done" => \A r \in {ws, sshc, sftpc, chan, file} : r # "open"

\* A facade whose failure came from the context's deadline reports it as
\* ErrTimeout (spec: Timeout is a distinguishable error kind for "context
\* deadline exceeded during any step").
TimeoutReported ==
  (fpc = "done" /\ fret.cause = "deadline") => fret.err = "Timeout"

=============================================================================
