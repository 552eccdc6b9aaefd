--------------------------- MODULE VMSession_proofs ---------------------------
(***************************************************************************)
(* Proofs, for every set of dial outcomes and exit codes and every bound   *)
(* on calls, that Close tears a VMSession's layers down from the top       *)
(* (CloseOrder), and that a session implements the abstract                *)
(* SessionLifecycle (SessionLifecycleSpec): a failed NewVMSession holds    *)
(* nothing, and Close releases everything.                                 *)
(***************************************************************************)
EXTENDS VMSession, TLAPS

\* That a failed session holds nothing is not inductive: it speaks of a
\* failed session only, and a failure comes from the dial or the handshake.  Before
\* NewVMSession returns, no SSH or SFTP client exists and the wsNetConn
\* is open only during the handshake; a failed session has no step left.
HalfOpenInv ==
  /\ phase = "new" => /\ sshc = "none" /\ sftpc = "none"
                      /\ step \in {"idle", "dial", "handshake"}
                      /\ step # "handshake" => ws = "none"
  /\ phase = "ready" => step \notin {"dial", "handshake"}
  /\ phase = "failed" => /\ step = "idle" /\ ws # "open"
                         /\ sshc = "none" /\ sftpc = "none"

\* Where each resource can be open: the exec channel only during
\* session.Run, the remote file only between Create and its deferred
\* Close; during Close, the layers below a closed one are the only ones
\* still open; a closed session has nothing open and no call running.
CloseInv ==
  /\ chan = "open" => step = "run"
  /\ file = "open" => step \in {"copy", "chmod"}
  /\ step \in {"closeSsh", "closeWs"} => sftpc # "open"
  /\ step = "closeWs" => sshc # "open" /\ ws # "open"
  /\ phase = "closed" => /\ step = "idle"
                         /\ "open" \notin {ws, sshc, sftpc}

SessionInv == TypeOK /\ HalfOpenInv /\ CloseInv

LEMMA SessionInit == Init => SessionInv
BY ExitCodesAssumption DEF Init, SessionInv, TypeOK, HalfOpenInv, CloseInv,
   NoRet, NoExit, ErrKinds, Causes, Steps, Res, FileStates

\* The definitions every step proof expands.
USE DEF SessionInv, TypeOK, HalfOpenInv, CloseInv, Steps, Res, FileStates

\* A call starts only on a session in the phase its method needs, from
\* no step, and opens nothing.
LEMMA CallsInv ==
  ASSUME SessionInv, AnyCaller
  PROVE  SessionInv'
<1>1. CASE CallNewVMSession
  BY <1>1 DEF CallNewVMSession, Call, NoRet, NoExit, ErrKinds, Causes
<1>2. CASE CallExecute
  BY <1>2 DEF CallExecute, Call, NoRet, NoExit, ErrKinds, Causes
<1>3. CASE \E cd, pm \in BOOLEAN : CallUploadFile(cd, pm)
  BY <1>3 DEF CallUploadFile, Call, NoRet, NoExit, ErrKinds, Causes
<1>4. CASE CallClose
  BY <1>4 DEF CallClose, Call, NoRet, NoExit, ErrKinds, Causes
<1>. QED  BY <1>1, <1>2, <1>3, <1>4 DEF AnyCaller

\* NewVMSession: a failed dial opens nothing; a failed handshake closes
\* the wsNetConn it ran on.
LEMMA OpenStepsInv ==
  ASSUME SessionInv, (\E o \in DialOutcomes : Dial(o)) \/ Handshake
  PROVE  SessionInv'
<1>1. CASE \E o \in DialOutcomes : Dial(o)
  BY <1>1 DEF Dial, Fail, DialError, NoExit, ErrKinds, Causes
<1>2. CASE Handshake
  BY <1>2 DEF Handshake, Fail, NoExit, ErrKinds, Causes
<1>. QED  BY <1>1, <1>2

\* ExecuteCommand / ExecuteScript: the channel is open during Run only.
LEMMA ExecStepsInv ==
  ASSUME SessionInv, NewSession \/ Run
  PROVE  SessionInv'
<1>1. CASE NewSession
  BY <1>1 DEF NewSession, Fail, NoExit, ErrKinds, Causes
<1>2. CASE Run
  BY <1>2, ExitCodesAssumption DEF Run, Fail, NoExit, ErrKinds, Causes
<1>. QED  BY <1>1, <1>2

\* UploadFile: the file is open from Create to the deferred Close.
LEMMA UploadStepsInv ==
  ASSUME SessionInv, EnsureSftp \/ Mkdir \/ Create \/ Copy \/ Chmod
  PROVE  SessionInv'
<1>1. CASE EnsureSftp
  BY <1>1 DEF EnsureSftp, SftpFails, FileClosed, Fail, NoExit, ErrKinds, Causes
<1>2. CASE Mkdir
  BY <1>2 DEF Mkdir, SftpFails, FileClosed, Fail, NoExit, ErrKinds, Causes
<1>3. CASE Create
  BY <1>3 DEF Create, SftpFails, FileClosed, Fail, NoExit, ErrKinds, Causes
<1>4. CASE Copy
  BY <1>4 DEF Copy, SftpFails, FileClosed, Fail, NoExit, ErrKinds, Causes
<1>5. CASE Chmod
  BY <1>5 DEF Chmod, SftpFails, FileClosed, Fail, NoExit, ErrKinds, Causes
<1>. QED  BY <1>1, <1>2, <1>3, <1>4, <1>5

\* Close: SFTP client, SSH client (which closes the wsNetConn), wsNetConn.
LEMMA CloseStepsInv ==
  ASSUME SessionInv, CloseSftp \/ CloseSsh \/ CloseWs
  PROVE  SessionInv'
<1>1. CASE CloseSftp
  BY <1>1 DEF CloseSftp, RealCloseError
<1>2. CASE CloseSsh
  BY <1>2 DEF CloseSsh, RealCloseError
<1>3. CASE CloseWs
  BY <1>3 DEF CloseWs, Fail, NoRet, NoExit, ErrKinds, Causes
<1>. QED  BY <1>1, <1>2, <1>3

LEMMA SessionStepInv ==
  ASSUME SessionInv, SessionStep
  PROVE  SessionInv'
BY OpenStepsInv, ExecStepsInv, UploadStepsInv, CloseStepsInv DEF SessionStep

LEMMA SessionNext == SessionInv /\ [Next]_sessionVars => SessionInv'
<1> SUFFICES ASSUME SessionInv, [Next]_sessionVars PROVE SessionInv'
  OBVIOUS
<1>1. CASE UNCHANGED sessionVars
  BY <1>1 DEF sessionVars
<1>. QED  BY <1>1, CallsInv, SessionStepInv DEF Next

\* The step relation of CloseOrder.
CloseOrderStep ==
  /\ (sshc = "open" /\ sshc' = "closed") => sftpc' # "open"
  /\ (ws = "open" /\ ws' = "closed") => sshc' # "open"

\* Only CloseSsh closes the SSH client, and Close has closed the SFTP
\* client first; the wsNetConn is closed by a failed handshake (no SSH
\* client yet), by CloseSsh (with the client) or by CloseWs (after it).
LEMMA CloseOrderSteps == SessionInv /\ [Next]_sessionVars => CloseOrderStep
<1> SUFFICES ASSUME SessionInv, [Next]_sessionVars PROVE CloseOrderStep
  OBVIOUS
<1>1. CASE AnyCaller
  BY <1>1 DEF AnyCaller, CallNewVMSession, CallExecute, CallUploadFile,
             CallClose, CloseOrderStep
<1>2. CASE (\E o \in DialOutcomes : Dial(o)) \/ Handshake
  BY <1>2 DEF Dial, Handshake, CloseOrderStep
<1>3. CASE NewSession \/ Run
  BY <1>3 DEF NewSession, Run, CloseOrderStep
<1>4. CASE EnsureSftp \/ Mkdir \/ Create \/ Copy \/ Chmod
  BY <1>4 DEF EnsureSftp, Mkdir, Create, Copy, Chmod, SftpFails, CloseOrderStep
<1>5. CASE CloseSftp \/ CloseSsh \/ CloseWs
  BY <1>5 DEF CloseSftp, CloseSsh, CloseWs, CloseOrderStep
<1>6. CASE UNCHANGED sessionVars
  BY <1>6 DEF sessionVars, CloseOrderStep
<1>. QED  BY <1>1, <1>2, <1>3, <1>4, <1>5, <1>6 DEF Next, SessionStep

-----------------------------------------------------------------------------
(* The refinement of SessionLifecycle.                                     *)

\* What the lifecycle needs beyond SessionInv: the handshake runs on an
\* open wsNetConn, and an opened session keeps its SSH client open until
\* CloseSsh (after which only CloseWs is left).
LifeInv ==
  /\ (phase = "new" /\ step = "handshake") => ws = "open"
  /\ (phase = "ready" /\ step # "closeWs") => sshc = "open"

\* Every step keeps LifeInv: Dial opens the wsNetConn as it moves to the
\* handshake, the handshake opens the SSH client as the session becomes
\* ready, and only CloseSsh closes it, moving to CloseWs.
LEMMA LifeStep ==
  ASSUME SessionInv, LifeInv, [Next]_sessionVars
  PROVE  LifeInv'
<1>1. CASE AnyCaller
  BY <1>1 DEF AnyCaller, CallNewVMSession, CallExecute, CallUploadFile,
             CallClose, Call, LifeInv
<1>2. CASE (\E o \in DialOutcomes : Dial(o)) \/ Handshake
  BY <1>2 DEF Dial, Handshake, Fail, LifeInv
<1>3. CASE NewSession \/ Run
  BY <1>3 DEF NewSession, Run, Fail, LifeInv
<1>4. CASE EnsureSftp \/ Mkdir \/ Create \/ Copy \/ Chmod
  BY <1>4 DEF EnsureSftp, Mkdir, Create, Copy, Chmod, SftpFails, FileClosed,
              Fail, LifeInv
<1>5. CASE CloseSftp \/ CloseSsh \/ CloseWs
  BY <1>5 DEF CloseSftp, CloseSsh, CloseWs, RealCloseError, Fail, LifeInv
<1>6. CASE UNCHANGED sessionVars
  BY <1>6 DEF sessionVars, LifeInv
<1>. QED  BY <1>1, <1>2, <1>3, <1>4, <1>5, <1>6 DEF Next, SessionStep

\* Each step of a session is a step of SessionLifecycle or a stutter: a
\* call is Begin, a step inside a method is Work, the end of the dial or
\* the handshake is Opened or OpenFailed, the end of a method is Return,
\* and CloseWs is Closed.
LEMMA LifeRefines ==
  ASSUME SessionInv, LifeInv, [Next]_sessionVars
  PROVE  [Lifecycle!Next]_Lifecycle!lifeVars
<1>1. CASE AnyCaller
  <2>1. step = "idle" /\ step' # "idle" /\ phase \in {"new", "ready"}
        /\ UNCHANGED <<phase, ws, sshc, sftpc, chan, file>>
    BY <1>1 DEF AnyCaller, CallNewVMSession, CallExecute, CallUploadFile,
               CallClose, Call
  <2>. QED  BY <2>1 DEF Lifecycle!Next, Lifecycle!Begin
<1>2. CASE \E o \in DialOutcomes : Dial(o)
  BY <1>2 DEF Dial, Fail, Lifecycle!Next, Lifecycle!Work, Lifecycle!OpenFailed
<1>3. CASE Handshake
  <2>1. phase = "new" /\ step = "handshake" /\ step' = "idle"
        /\ UNCHANGED <<sftpc, chan, file>>
    BY <1>3 DEF Handshake
  <2>2. CASE phase' = "ready" /\ sshc' = "open"
    BY <2>1, <2>2 DEF Lifecycle!Next, Lifecycle!Opened
  <2>3. CASE phase' = "failed" /\ ws' = "closed" /\ sshc' = sshc
    BY <2>1, <2>3 DEF Lifecycle!Next, Lifecycle!OpenFailed
  <2>. QED  BY <1>3, <2>2, <2>3 DEF Handshake
<1>4. CASE NewSession \/ Run
  BY <1>4 DEF NewSession, Run, Fail, LifeInv, Lifecycle!Next, Lifecycle!Work,
              Lifecycle!Return
<1>5. CASE EnsureSftp \/ Mkdir \/ Create \/ Copy \/ Chmod
  BY <1>5 DEF EnsureSftp, Mkdir, Create, Copy, Chmod, SftpFails, FileClosed,
              Fail, LifeInv, Lifecycle!Next, Lifecycle!Work, Lifecycle!Return
<1>6. CASE CloseSftp \/ CloseSsh
  BY <1>6 DEF CloseSftp, CloseSsh, RealCloseError, Lifecycle!Next,
              Lifecycle!Work
<1>7. CASE CloseWs
  BY <1>7 DEF CloseWs, Fail, NoRet, Lifecycle!Next, Lifecycle!Closed
<1>8. CASE UNCHANGED sessionVars
  BY <1>8 DEF sessionVars, Lifecycle!lifeVars
<1>. QED  BY <1>1, <1>2, <1>3, <1>4, <1>5, <1>6, <1>7, <1>8 DEF Next, SessionStep

-----------------------------------------------------------------------------
(* Theorems.                                                               *)

\* The invariant holds in every reachable state of a session, whatever
\* its callers do, for every bound on their calls.
THEOREM SessionInvariant == Spec => []SessionInv
BY SessionInit, SessionNext, PTL DEF Spec

\* Every variable of the session model keeps its type.
THEOREM SessionTypeCorrect == Spec => []TypeOK
BY SessionInvariant, PTL

\* Close tears the session down from the top: the SSH client is never
\* closed while its SFTP client is open, nor the wsNetConn while the SSH
\* client on it is.
THEOREM CloseOrderThm == Spec => CloseOrder
<1>1. SessionInv /\ [Next]_sessionVars => [CloseOrderStep]_sessionVars
  BY CloseOrderSteps
<1>2. Spec => [][CloseOrderStep]_sessionVars
  BY <1>1, SessionInvariant, PTL DEF Spec
<1>. QED  BY <1>2 DEF CloseOrder, CloseOrderStep


\* A VMSession implements SessionLifecycle, for every caller and bound:
\* NewVMSession opens it once or fails holding nothing, methods run one at
\* a time and return with the SSH client open, and Close ends the session
\* with every connection, client, channel and file released.
THEOREM SessionLifecycleThm == Spec => SessionLifecycleSpec
<1>1. Init => LifeInv /\ Lifecycle!Init
  BY DEF Init, LifeInv, Lifecycle!Init
<1>2. SessionInv /\ LifeInv /\ [Next]_sessionVars => LifeInv'
  BY LifeStep
<1>3. SessionInv /\ LifeInv /\ [Next]_sessionVars
        => [Lifecycle!Next]_Lifecycle!lifeVars
  BY LifeRefines
<1>4. Spec => [](SessionInv /\ LifeInv)
  BY <1>1, <1>2, SessionInit, SessionNext, PTL DEF Spec
<1>. QED  BY <1>1, <1>3, <1>4, PTL DEF Spec, SessionLifecycleSpec, Lifecycle!Spec

====
