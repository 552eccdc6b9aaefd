----------------------------- MODULE VMSession -----------------------------
(***************************************************************************)
(* One VMSession of internal/ssh/session.go, with the tunnel dial of       *)
(* tunnel.go: NewVMSession, ExecuteCommand / ExecuteScript, UploadFile     *)
(* (with its lazy ensureSFTP) and Close, each a sequence of steps, one per *)
(* blocking call of the code, any of which may fail.                       *)
(*                                                                         *)
(* A resource is "none" (never made), "open" or "closed".  `step` is the   *)
(* step of the method in progress ("idle" between calls), `ret` what the   *)
(* last call returned.  Two facts of the libraries shape Close: closing    *)
(* the x/crypto/ssh client closes the net.Conn it runs on (the wsNetConn), *)
(* and a second ws.Close of the WebSocket library fails ("already wrote   *)
(* close").                                                                *)
(***************************************************************************)
EXTENDS Integers

CONSTANTS
  DialOutcomes,  \* what websocket.Dial meets: "ok", an HTTP status ("404", ...),
                 \* "noResponse" or "deadline"
  ExitCodes,     \* exit statuses the remote command may end with
  MaxCalls       \* bound on the method calls made on the session

ASSUME ExitCodesAssumption == ExitCodes \subseteq Nat /\ 0 \in ExitCodes
ASSUME MaxCallsAssumption == MaxCalls \in Nat
ASSUME DialOutcomesAssumption == "ok" \in DialOutcomes

\* ret.exit when no exit status was received.
NoExit == -1

\* The error a call returns, by the sentinel it wraps (or its own text).
ErrKinds == {"none", "ConnectionFailed", "VMNotReady", "SSHAuthFailed",
             "SSHConnFailed", "SessionFailed", "ExecFailed", "SFTPFailed",
             "CloseFailed", "Timeout"}

\* Why a failing step failed: the context's deadline, or anything else.
Causes == {"none", "deadline", "other"}

Res == {"none", "open", "closed"}

\* The remote file can also be closed with an error: f.Close() sends
\* SSH_FXP_CLOSE and the server's close(2) of the written file fails.
FileStates == Res \cup {"closeFailed"}

Steps == {"idle", "dial", "handshake", "newSession", "run", "ensureSftp",
          "mkdir", "create", "copy", "chmod", "closeSftp", "closeSsh",
          "closeWs"}

VARIABLES
  phase,      \* "new", "ready" (NewVMSession returned it), "failed", "closed"
  step,       \* step of the method in progress
  ws,         \* the wsNetConn
  sshc,       \* s.sshClient
  sftpc,      \* s.sftpClient
  chan,       \* the ssh.Session channel of ExecuteCommand / ExecuteScript
  file,       \* the sftp.File of UploadFile (FileStates)
  opts,       \* UploadFile's FileUploadOptions: [createDirs, perms]
  closeErrs,  \* errs collected by Close: [real, spurious]
  ret,        \* [err, exit, cause] returned by the last call
  calls       \* method calls made

sessionVars == <<phase, step, ws, sshc, sftpc, chan, file, opts, closeErrs,
                 ret, calls>>

TypeOK ==
  /\ phase \in {"new", "ready", "failed", "closed"}
  /\ step \in Steps
  /\ {ws, sshc, sftpc, chan} \subseteq Res
  /\ file \in FileStates
  /\ opts \in [createDirs : BOOLEAN, perms : BOOLEAN]
  /\ closeErrs \in [real : Nat, spurious : Nat]
  /\ ret \in [err : ErrKinds, exit : ExitCodes \cup {NoExit}, cause : Causes]
  /\ calls \in Nat

NoRet == [err |-> "none", exit |-> NoExit, cause |-> "none"]

\* A call returns error kind e, failed for cause c.
Fail(e, c) == ret' = [err |-> e, exit |-> NoExit, cause |-> c]

Init ==
  /\ phase = "new"
  /\ step = "idle"
  /\ ws = "none" /\ sshc = "none" /\ sftpc = "none"
  /\ chan = "none" /\ file = "none"
  /\ opts = [createDirs |-> FALSE, perms |-> FALSE]
  /\ closeErrs = [real |-> 0, spurious |-> 0]
  /\ ret = NoRet
  /\ calls = 0

-----------------------------------------------------------------------------
(* Calls.  A call starts only between calls and within the bound.          *)

Call(first) ==
  /\ step = "idle"
  /\ calls < MaxCalls
  /\ step' = first
  /\ calls' = calls + 1
  /\ ret' = NoRet

\* NewVMSession(ctx, config): config.SetDefaults(), then dialWebSocket.
CallNewVMSession ==
  /\ phase = "new"
  /\ Call("dial")
  /\ UNCHANGED <<phase, ws, sshc, sftpc, chan, file, opts, closeErrs>>

CallExecute ==
  /\ phase = "ready"
  /\ Call("newSession")
  /\ UNCHANGED <<phase, ws, sshc, sftpc, chan, file, opts, closeErrs>>

CallUploadFile(createDirs, perms) ==
  /\ phase = "ready"
  /\ Call("ensureSftp")
  /\ opts' = [createDirs |-> createDirs, perms |-> perms]
  /\ UNCHANGED <<phase, ws, sshc, sftpc, chan, file, closeErrs>>

\* Mutant: Close starts with the SSH client and never closes s.sftpClient.
CallCloseSshFirst ==
  /\ phase = "ready"
  /\ Call("closeSsh")
  /\ closeErrs' = [real |-> 0, spurious |-> 0]
  /\ UNCHANGED <<phase, ws, sshc, sftpc, chan, file, opts>>

CallClose ==
  /\ phase = "ready"
  /\ Call("closeSftp")
  /\ closeErrs' = [real |-> 0, spurious |-> 0]
  /\ UNCHANGED <<phase, ws, sshc, sftpc, chan, file, opts>>

-----------------------------------------------------------------------------
(* NewVMSession.                                                           *)

\* Mutant: 503 gets an error kind of its own, which no sentinel of
\* options.go stands for.
DialErrorWorker(o) ==
  CASE o = "404" -> "VMNotReady"
    [] o = "503" -> "WorkerUnreachable"
    [] OTHER     -> "ConnectionFailed"

\* The error dialWebSocket returns for a failed websocket.Dial: 404 is
\* ErrVMNotReady; 503, 400, any other status and no response at all are
\* ErrConnectionFailed (with different texts).
DialError(o) == IF o = "404" THEN "VMNotReady" ELSE "ConnectionFailed"

\* websocket.Dial; on success SetReadLimit(-1) and newWSNetConn.
Dial(o) ==
  /\ step = "dial"
  /\ \/ /\ o = "ok"
        /\ ws' = "open"
        /\ step' = "handshake"
        /\ UNCHANGED <<phase, ret>>
     \/ /\ o # "ok"
        /\ phase' = "failed"
        /\ step' = "idle"
        /\ Fail(DialError(o), IF o = "deadline" THEN "deadline" ELSE "other")
        /\ UNCHANGED ws
  /\ UNCHANGED <<sshc, sftpc, chan, file, opts, closeErrs, calls>>

\* Mutant: the wsNetConn is not closed when the handshake fails.
HandshakeNoClose ==
  /\ step = "handshake"
  /\ step' = "idle"
  /\ \/ /\ phase' = "ready"
        /\ sshc' = "open"
        /\ UNCHANGED <<ws, ret>>
     \/ /\ phase' = "failed"
        /\ \/ Fail("SSHAuthFailed", "other")
           \/ Fail("SSHConnFailed", "other")
        /\ UNCHANGED <<ws, sshc>>
  /\ UNCHANGED <<sftpc, chan, file, opts, closeErrs, calls>>

\* ssh.NewClientConn over the wsNetConn.  On failure the wsNetConn is
\* closed and the error is ErrSSHAuthFailed when its text holds "unable to
\* authenticate", else wrapped as "failed to establish SSH connection".
Handshake ==
  /\ step = "handshake"
  /\ step' = "idle"
  /\ \/ /\ phase' = "ready"
        /\ sshc' = "open"
        /\ UNCHANGED <<ws, ret>>
     \/ /\ phase' = "failed"
        /\ ws' = "closed"
        /\ \/ Fail("SSHAuthFailed", "other")
           \/ Fail("SSHConnFailed", "other")
           \/ Fail("SSHConnFailed", "deadline")
        /\ UNCHANGED sshc
  /\ UNCHANGED <<sftpc, chan, file, opts, closeErrs, calls>>

-----------------------------------------------------------------------------
(* ExecuteCommand and ExecuteScript: the same control flow; the script is *)
(* fed on stdin to /bin/bash instead of being the command line.            *)

\* s.sshClient.NewSession().
NewSession ==
  /\ step = "newSession"
  /\ \/ /\ chan' = "open"
        /\ step' = "run"
        /\ UNCHANGED ret
     \/ /\ step' = "idle"
        /\ Fail("SessionFailed", "other")
        /\ UNCHANGED chan
  /\ UNCHANGED <<phase, ws, sshc, sftpc, file, opts, closeErrs, calls>>

\* session.Run, then the deferred session.Close().  An *ssh.ExitError is a
\* result with its exit status and a nil error; any other error is
\* "command execution failed".
Run ==
  /\ step = "run"
  /\ step' = "idle"
  /\ chan' = "closed"
  /\ \/ \E e \in ExitCodes : ret' = [err |-> "none", exit |-> e, cause |-> "none"]
     \/ Fail("ExecFailed", "other")
     \/ Fail("ExecFailed", "deadline")
  /\ UNCHANGED <<phase, ws, sshc, sftpc, file, opts, closeErrs, calls>>

-----------------------------------------------------------------------------
(* UploadFile (and UploadBytes, which calls it).                           *)

\* The deferred f.Close() of UploadFile, if the file was created; its
\* error is dropped.
FileClosed ==
  file' \in IF file = "open" THEN {"closed", "closeFailed"} ELSE {file}

\* An SFTP step fails: ErrSFTPFailed, and the deferred f.Close().
SftpFails ==
  /\ step' = "idle"
  /\ Fail("SFTPFailed", "other")
  /\ FileClosed

\* ensureSFTP: sftp.NewClient unless s.sftpClient is already set.
EnsureSftp ==
  /\ step = "ensureSftp"
  /\ \/ /\ sftpc = "open"
        /\ step' = "mkdir"
        /\ UNCHANGED <<sftpc, ret, file>>
     \/ /\ sftpc = "none"
        /\ sftpc' = "open"
        /\ step' = "mkdir"
        /\ UNCHANGED <<ret, file>>
     \/ /\ sftpc = "none"
        /\ SftpFails
        /\ UNCHANGED sftpc
  /\ UNCHANGED <<phase, ws, sshc, chan, opts, closeErrs, calls>>

\* MkdirAll(filepath.Dir(path)) when opts.CreateDirs.
Mkdir ==
  /\ step = "mkdir"
  /\ \/ /\ step' = "create"      \* skipped, or the directories exist now
        /\ UNCHANGED <<ret, file>>
     \/ /\ opts.createDirs
        /\ SftpFails
  /\ UNCHANGED <<phase, ws, sshc, sftpc, chan, opts, closeErrs, calls>>

\* sftpClient.Create(path): create or truncate.
Create ==
  /\ step = "create"
  /\ \/ /\ file' = "open"
        /\ step' = "copy"
        /\ UNCHANGED ret
     \/ SftpFails
  /\ UNCHANGED <<phase, ws, sshc, sftpc, chan, opts, closeErrs, calls>>

\* io.Copy(f, content); without permissions to set, UploadFile returns nil
\* and the deferred f.Close() runs.
Copy ==
  /\ step = "copy"
  /\ \/ /\ opts.perms
        /\ step' = "chmod"
        /\ UNCHANGED <<ret, file>>
     \/ /\ ~opts.perms
        /\ step' = "idle"
        /\ FileClosed
        /\ UNCHANGED ret
     \/ SftpFails
  /\ UNCHANGED <<phase, ws, sshc, sftpc, chan, opts, closeErrs, calls>>

\* sftpClient.Chmod(path, perms), then the deferred f.Close().
Chmod ==
  /\ step = "chmod"
  /\ \/ /\ step' = "idle"
        /\ FileClosed
        /\ UNCHANGED ret
     \/ SftpFails
  /\ UNCHANGED <<phase, ws, sshc, sftpc, chan, opts, closeErrs, calls>>

-----------------------------------------------------------------------------
(* Close: the SFTP client if made, the SSH client, the wsNetConn, each     *)
(* error appended to errs and the next one closed regardless.              *)

\* A close that fails for its own reason: an error in errs.
RealCloseError == [closeErrs EXCEPT !.real = @ + 1]

CloseSftp ==
  /\ step = "closeSftp"
  /\ step' = "closeSsh"
  /\ \/ /\ sftpc = "open"
        /\ sftpc' = "closed"
        /\ closeErrs' \in {closeErrs, RealCloseError}
     \/ /\ sftpc # "open"
        /\ UNCHANGED <<sftpc, closeErrs>>
  /\ UNCHANGED <<phase, ws, sshc, chan, file, opts, ret, calls>>

\* s.sshClient.Close(): the client closes the connection it runs on, so
\* the wsNetConn is closed here (c.cancel(), ws.Close) and its error, if
\* any, is this call's error.
CloseSsh ==
  /\ step = "closeSsh"
  /\ step' = "closeWs"
  /\ sshc = "open"
  /\ sshc' = "closed"
  /\ ws' = "closed"
  /\ closeErrs' \in {closeErrs, RealCloseError}
  /\ UNCHANGED <<phase, sftpc, chan, file, opts, ret, calls>>

\* s.wsConn.Close(): a second ws.Close fails ("already wrote close").
CloseWs ==
  /\ step = "closeWs"
  /\ step' = "idle"
  /\ phase' = "closed"
  /\ LET errs == IF ws = "closed"
                   THEN [closeErrs EXCEPT !.spurious = @ + 1]
                   ELSE closeErrs
     IN  /\ closeErrs' = errs
         /\ IF errs.real + errs.spurious > 0
              THEN Fail("CloseFailed", "other")
              ELSE ret' = NoRet
  /\ ws' = "closed"
  /\ UNCHANGED <<sshc, sftpc, chan, file, opts, calls>>

-----------------------------------------------------------------------------

\* The steps of the method in progress.
SessionStep ==
  \/ \E o \in DialOutcomes : Dial(o)
  \/ Handshake
  \/ NewSession
  \/ Run
  \/ EnsureSftp
  \/ Mkdir
  \/ Create
  \/ Copy
  \/ Chmod
  \/ CloseSftp
  \/ CloseSsh
  \/ CloseWs

\* Any caller: once NewVMSession has returned a session, any sequence of
\* its methods, one at a time, Close at most once.
AnyCaller ==
  \/ CallNewVMSession
  \/ CallExecute
  \/ \E cd, p \in BOOLEAN : CallUploadFile(cd, p)
  \/ CallClose

Next == AnyCaller \/ SessionStep

Spec == Init /\ [][Next]_sessionVars

-----------------------------------------------------------------------------
(* Properties.                                                             *)

\* Close tears down in order: the SSH client is never closed while the
\* SFTP client on it is still open, and the wsNetConn is never closed
\* while the SSH client running on it is open.
CloseOrder ==
  [][ /\ (sshc = "open" /\ sshc' = "closed") => sftpc' # "open"
      /\ (ws = "open" /\ ws' = "closed") => sshc' # "open" ]_sessionVars

\* Close reports an error only when closing some resource failed, never
\* for a close that nothing went wrong in (spec: Close closes the SSH
\* client and the stream and reports no spurious error).
CloseErrorsAreReal ==
  (phase = "closed" /\ step = "idle" /\ ret.err = "CloseFailed")
     => closeErrs.real > 0

\* An upload whose file could not be closed is reported as failed (spec:
\* any failure at any step of uploadFile is an SFTP operation failure):
\* the step that runs the deferred f.Close() and sees it fail returns
\* ErrSFTPFailed.
UploadCloseErrorReported ==
  [][ (file = "open" /\ file' = "closeFailed") => ret'.err = "SFTPFailed" ]_sessionVars

\* A VMSession implements SessionLifecycle: NewVMSession opens it once or
\* fails leaving nothing open; each method runs while no other does and
\* returns with the SSH client still open; Close ends it with the SFTP
\* client, the SSH client, the wsNetConn, any channel and any file closed.
Lifecycle == INSTANCE SessionLifecycle
               WITH life <- phase,
                    busy <- step # "idle",
                    held <- "open" \in {ws, sshc, sftpc, chan, file}

SessionLifecycleSpec == Lifecycle!Spec

=============================================================================
