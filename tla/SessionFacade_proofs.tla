------------------------- MODULE SessionFacade_proofs -------------------------
(***************************************************************************)
(* Proof, for every set of dial outcomes and exit codes and every bound   *)
(* on calls, that RunCloudInit, UploadAndRunScript and isSSHReady leave   *)
(* nothing open when they return (NoLeakOnReturn), from the session's     *)
(* invariant of VMSession_proofs; and that each facade drives its session *)
(* only as a VMSession caller may (FSpec => Spec), so that the session's  *)
(* lifecycle refinement holds for the facades too.                         *)
(***************************************************************************)
EXTENDS SessionFacade, VMSession_proofs, TLAPS

\* Where the facade's program counter leaves the session: once Close is
\* called, the session is closing or closed; a facade returns only from
\* a failed NewVMSession or after Close has returned.
FacadeInv ==
  /\ fpc \in {"open", "use", "upload", "exec", "close", "done"}
  /\ fpc = "close" => (phase = "closed" \/ step \in {"closeSftp", "closeSsh", "closeWs"})
  /\ fpc = "done" => (step = "idle" /\ phase \in {"failed", "closed"})

LEMMA FacadeInit == FInit => SessionInv /\ FacadeInv
BY SessionInit DEF FInit, FacadeInv

\* The facade's own steps: each calls one VMSession method or returns.
LEMMA FacadeStepInv ==
  ASSUME SessionInv, FacadeInv, FacadeStep
  PROVE  SessionInv' /\ FacadeInv'
<1>1. CASE FOpen
  <2>1. SessionInv'
    BY <1>1, CallsInv DEF FOpen, AnyCaller
  <2>. QED  BY <1>1, <2>1 DEF FOpen, CallNewVMSession, Call, FacadeInv
<1>2. CASE FExecute
  <2>1. SessionInv'
    BY <1>2, CallsInv DEF FExecute, AnyCaller
  <2>. QED  BY <1>2, <2>1 DEF FExecute, CallExecute, Call, FacadeInv
<1>3. CASE FUpload
  <2>1. SessionInv'
    BY <1>3, CallsInv DEF FUpload, AnyCaller
  <2>. QED  BY <1>3, <2>1 DEF FUpload, CallUploadFile, Call, FacadeInv
<1>4. CASE FClose
  <2>1. SessionInv'
    BY <1>4, CallsInv DEF FClose, AnyCaller
  <2>. QED  BY <1>4, <2>1 DEF FClose, CallClose, Call, FacadeInv
<1>5. CASE FOpenFailed \/ FDone
  <2>1. UNCHANGED sessionVars
    BY <1>5 DEF FOpenFailed, FDone
  <2>2. SessionInv'
    BY <2>1 DEF sessionVars, SessionInv, TypeOK, HalfOpenInv, CloseInv
  <2>. QED  BY <1>5, <2>1, <2>2 DEF FOpenFailed, FDone, Returned, sessionVars,
                                   FacadeInv
<1>. QED  BY <1>1, <1>2, <1>3, <1>4, <1>5 DEF FacadeStep

\* A session step while the facade waits for its call: only the closing
\* steps can run once Close was called, and none once the facade returned.
LEMMA FacadeWaitInv ==
  ASSUME SessionInv, FacadeInv, SessionStep, UNCHANGED <<fn, fpc, fret>>
  PROVE  SessionInv' /\ FacadeInv'
<1>1. SessionInv'
  BY SessionStepInv
<1>2. step # "idle"
  BY DEF SessionStep, Dial, Handshake, NewSession, Run, EnsureSftp, Mkdir,
         Create, Copy, Chmod, CloseSftp, CloseSsh, CloseWs
<1>3. fpc = "close" => step \in {"closeSftp", "closeSsh", "closeWs"}
  BY <1>2 DEF FacadeInv, SessionInv, CloseInv
<1>4. step \in {"closeSftp", "closeSsh", "closeWs"} =>
        (phase' = "closed" \/ step' \in {"closeSftp", "closeSsh", "closeWs"})
  BY DEF SessionStep, Dial, Handshake, NewSession, Run, EnsureSftp, Mkdir,
         Create, Copy, Chmod, CloseSftp, CloseSsh, CloseWs
<1>5. FacadeInv'
  BY <1>2, <1>3, <1>4 DEF FacadeInv
<1>. QED  BY <1>1, <1>5

LEMMA FacadeNext ==
  SessionInv /\ FacadeInv /\ [FNext]_vars => SessionInv' /\ FacadeInv'
<1> SUFFICES ASSUME SessionInv, FacadeInv, [FNext]_vars
             PROVE  SessionInv' /\ FacadeInv'
  OBVIOUS
<1>1. CASE UNCHANGED vars
  BY <1>1 DEF vars, sessionVars, SessionInv, TypeOK, HalfOpenInv, CloseInv,
             FacadeInv
<1>. QED  BY <1>1, FacadeStepInv, FacadeWaitInv DEF FNext

\* Every facade leaves the wsNetConn, the SSH and SFTP clients, the exec
\* channel and the remote file closed (or never made) when it returns,
\* whichever step of NewVMSession, the upload or the execution failed:
\* the failed open leaves nothing half open and the deferred Close tears
\* down the rest.
THEOREM NoLeakOnReturnThm == FSpec => []NoLeakOnReturn
<1>1. SessionInv /\ FacadeInv => NoLeakOnReturn
  BY DEF SessionInv, HalfOpenInv, CloseInv, FacadeInv, NoLeakOnReturn
<1>. QED  BY <1>1, FacadeInit, FacadeNext, PTL DEF FSpec

\* Each facade step is a step of the session's callers, or leaves the
\* session alone.
LEMMA FacadeStepIsCaller ==
  ASSUME [FNext]_vars
  PROVE  [Next]_sessionVars
<1>1. CASE FOpen
  BY <1>1 DEF FOpen, AnyCaller, Next
<1>2. CASE FExecute
  BY <1>2 DEF FExecute, AnyCaller, Next
<1>3. CASE FUpload
  <2>1. CallUploadFile(TRUE, TRUE)
    BY <1>3 DEF FUpload
  <2>. QED  BY <2>1 DEF AnyCaller, Next
<1>4. CASE FClose
  BY <1>4 DEF FClose, AnyCaller, Next
<1>5. CASE FOpenFailed \/ FDone
  BY <1>5 DEF FOpenFailed, FDone
<1>6. CASE SessionStep /\ UNCHANGED <<fn, fpc, fret>>
  BY <1>6 DEF Next
<1>7. CASE UNCHANGED vars
  BY <1>7 DEF vars
<1>. QED  BY <1>1, <1>2, <1>3, <1>4, <1>5, <1>6, <1>7 DEF FNext, FacadeStep

\* RunCloudInit, UploadAndRunScript and isSSHReady use their session only
\* as a VMSession may be used (NewVMSession first, methods only on an
\* opened session, one call at a time, Close once), so every theorem about
\* the session holds for the session a facade drives.
THEOREM FacadeIsSessionCaller == FSpec => Spec
<1>1. FInit => Init
  BY DEF FInit
<1>2. [FNext]_vars => [Next]_sessionVars
  BY FacadeStepIsCaller
<1>. QED  BY <1>1, <1>2, PTL DEF FSpec, Spec

\* The session a facade drives follows SessionLifecycle: opened once or
\* failed holding nothing, and released by the deferred Close.
THEOREM FacadeLifecycleThm == FSpec => SessionLifecycleSpec
BY FacadeIsSessionCaller, SessionLifecycleThm

=============================================================================
