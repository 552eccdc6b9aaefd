---------------------------- MODULE VMController ----------------------------
(***************************************************************************)
(* The VM external client of internal/controller/vm/vm.go (Observe, with  *)
(* its cloud-init handling, Create, Update, Delete) driven by the managed  *)
(* reconciler of crossplane-runtime, against an Orchard VM that boots,    *)
(* gets an IP and starts its SSH server on its own.                        *)
(*                                                                         *)
(* The reconciler (crossplane-runtime, not of this repository) is the     *)
(* environment: one reconcile at a time for the VM; it reads the CR, calls *)
(* Observe, then Create, Update or Delete, or removes the finalizer, and   *)
(* ends by writing the CR status it holds in memory, including every      *)
(* change Observe made to it.  That write may be lost (a resourceVersion   *)
(* conflict, a provider restart), and is the only way status persists.    *)
(*                                                                         *)
(* A session to the VM is abstracted to what the facades of               *)
(* SessionFacade return: isSSHReady is TRUE once the guest's SSH server is *)
(* up, and UploadAndRunScript ends in one of RunOutcomes.                 *)
(***************************************************************************)
EXTENDS Naturals

CONSTANTS
  MaxRuns,  \* bound on executions of the startup script on the VM
  MaxLost   \* bound on lost status writes

ASSUME BoundsAssumption == MaxRuns \in Nat /\ MaxLost \in Nat

\* cr.Status.AtProvider.CloudInitStatus ("" before the first execution).
CloudInitStatuses == {"", "pending", "running", "completed", "failed"}

\* The Ready condition set on the CR ("none" before any).
Conds == {"none", "Creating", "Available", "Unavailable", "Deleting"}

\* What ssh.UploadAndRunScript returns: err = nil with exit code 0 or not,
\* or an error, before the script started (dial, handshake, upload) or
\* once it was running (the session dropped during session.Run).
RunOutcomes == {"exit0", "exitNZ", "errBefore", "errAfter"}

\* Outcomes of an Orchard API call: the status code the VM's state
\* gives, a 500, or a transport error.
ApiFaults == {"500", "err"}

\* The CR status the controller writes: IP address known, cloud-init
\* status, Ready condition.
Status == [ip : BOOLEAN, cis : CloudInitStatuses, cond : Conds]

VARIABLES
  \* Orchard and the guest
  vm,        \* "absent", "pending", "running" or "failed"
  vmIP,      \* Orchard reports an IP for the VM
  sshUp,     \* the guest's SSH server accepts sessions
  drift,     \* the Orchard VM differs from spec.forProvider
  runs,      \* executions of the startup script on the VM
  okRun,     \* some execution exited 0
  lastRun,   \* outcome of the last UploadAndRunScript ("none" before any)
  \* the CR in the API server
  script,    \* spec.forProvider.startupScript has content
  ext,       \* the external-name annotation is set
  deleting,  \* deletionTimestamp is set
  gone,      \* the finalizer was removed: the CR no longer exists
  st,        \* the persisted status
  \* the reconcile in progress
  rpc,       \* "idle", "observed" (Observe returned), "write" (status to write)
  mem,       \* the status of the CR the reconcile holds in memory
  obs,       \* what Observe returned: [err, exists, upToDate], and
             \* del: deletionTimestamp as read at the start of the reconcile
  lost       \* status writes lost so far

orchardVars == <<vm, vmIP, sshUp, drift, runs, okRun, lastRun>>
crVars == <<script, ext, deleting, gone, st>>
recVars == <<rpc, mem, obs, lost>>
vars == <<orchardVars, crVars, recVars>>

TypeOK ==
  /\ vm \in {"absent", "pending", "running", "failed"}
  /\ {vmIP, sshUp, drift, okRun, script, ext, deleting, gone} \subseteq BOOLEAN
  /\ runs \in 0..MaxRuns
  /\ lastRun \in RunOutcomes \cup {"none"}
  /\ st \in Status
  /\ rpc \in {"idle", "observed", "write"}
  /\ mem \in Status
  /\ obs \in [err : BOOLEAN, exists : BOOLEAN, upToDate : BOOLEAN, del : BOOLEAN]
  /\ lost \in 0..MaxLost

Init ==
  /\ vm = "absent" /\ vmIP = FALSE /\ sshUp = FALSE /\ drift = FALSE
  /\ runs = 0 /\ okRun = FALSE /\ lastRun = "none"
  /\ script \in BOOLEAN
  /\ ext = FALSE /\ deleting = FALSE /\ gone = FALSE
  /\ st = [ip |-> FALSE, cis |-> "", cond |-> "none"]
  /\ rpc = "idle"
  /\ mem = st
  /\ obs = [err |-> FALSE, exists |-> FALSE, upToDate |-> FALSE, del |-> FALSE]
  /\ lost = 0

-----------------------------------------------------------------------------
(* Orchard and the user: the environment.                                  *)

VMBoots == vm = "pending" /\ vm' = "running"
            /\ UNCHANGED <<vmIP, sshUp, drift, runs, okRun, lastRun>>

VMGetsIP == vm = "running" /\ ~vmIP /\ vmIP' = TRUE
            /\ UNCHANGED <<vm, sshUp, drift, runs, okRun, lastRun>>

GuestSSHUp == vm = "running" /\ ~sshUp /\ sshUp' = TRUE
              /\ UNCHANGED <<vm, vmIP, drift, runs, okRun, lastRun>>

VMFails == vm \in {"pending", "running"} /\ vm' = "failed"
           /\ UNCHANGED <<vmIP, sshUp, drift, runs, okRun, lastRun>>

UserEditsSpec == ~drift /\ ~gone /\ drift' = TRUE
                 /\ UNCHANGED <<vm, vmIP, sshUp, runs, okRun, lastRun>>

UserDeletes == ~deleting /\ ~gone /\ deleting' = TRUE
               /\ UNCHANGED <<script, ext, gone, st>>

Environment ==
  \/ (VMBoots \/ VMGetsIP \/ GuestSSHUp \/ VMFails \/ UserEditsSpec)
       /\ UNCHANGED <<crVars, recVars>>
  \/ UserDeletes /\ UNCHANGED <<orchardVars, recVars>>

-----------------------------------------------------------------------------
(* The external client.  Each handler maps the status s of the CR in       *)
(* memory to [st, err, exec]: the status it leaves, whether it returns an *)
(* error, and whether it called UploadAndRunScript.  o is what the session *)
(* layer gives: "notReady" when isSSHReady is false, else a RunOutcome.   *)

\* The status code GET /vms/{name} answers with.
GetCode == IF vm = "absent" THEN "404" ELSE "200"

\* isSSHReady: NewVMSession and `ls -al` succeed once the guest's sshd is up.
IsSSHReady == sshUp

\* The outcomes the session layer can give right now.
SessionOutcomes == IF IsSSHReady THEN RunOutcomes ELSE {"notReady"}

Result(s, e, x) == [st |-> s, err |-> e, exec |-> x]

\* What Observe returns: a Result and the ExternalObservation.
Obs(r, ex, up) == [st |-> r.st, err |-> r.err, exec |-> r.exec,
                   exists |-> ex, upToDate |-> up]

\* Mutant: a non-zero exit is taken for success.
ExecuteCloudInitIgnoresExit(s, o) ==
  CASE o = "notReady" -> Result([s EXCEPT !.cis = "pending"], TRUE, FALSE)
    [] o \in {"exit0", "exitNZ"} ->
         Result([s EXCEPT !.cis = "completed", !.cond = "Available"], FALSE, TRUE)
    [] OTHER -> Result([s EXCEPT !.cis = "failed", !.cond = "Unavailable"], FALSE, TRUE)

\* executeCloudInit: "running" is set and then overwritten on every path.
\* Not ready: "pending" and errSSHNotReady.  UploadAndRunScript failing or
\* a non-zero exit: "failed" and Unavailable, no error.  Exit 0:
\* "completed" and Available.
ExecuteCloudInit(s, o) ==
  CASE o = "notReady" -> Result([s EXCEPT !.cis = "pending"], TRUE, FALSE)
    [] o = "exit0" ->
         Result([s EXCEPT !.cis = "completed", !.cond = "Available"], FALSE, TRUE)
    [] OTHER -> Result([s EXCEPT !.cis = "failed", !.cond = "Unavailable"], FALSE, TRUE)

\* Mutant: a failed cloud-init is executed again, like "pending".
HandleCloudInitRetriesFailed(s, o) ==
  IF ~script THEN Result([s EXCEPT !.cond = "Available"], FALSE, FALSE)
  ELSE CASE s.cis = "completed" -> Result([s EXCEPT !.cond = "Available"], FALSE, FALSE)
         [] s.cis = "running" -> Result([s EXCEPT !.cond = "Creating"], FALSE, FALSE)
         [] OTHER -> ExecuteCloudInit(s, o)

\* Mutant: "pending" is waited on like "running" and never re-executed.
HandleCloudInitWaitsOnPending(s, o) ==
  IF ~script THEN Result([s EXCEPT !.cond = "Available"], FALSE, FALSE)
  ELSE CASE s.cis = "completed" -> Result([s EXCEPT !.cond = "Available"], FALSE, FALSE)
         [] s.cis = "failed" -> Result([s EXCEPT !.cond = "Unavailable"], FALSE, FALSE)
         [] s.cis \in {"running", "pending"} ->
              Result([s EXCEPT !.cond = "Creating"], FALSE, FALSE)
         [] OTHER -> ExecuteCloudInit(s, o)

\* handleCloudInit: no script means Available at once; otherwise the
\* cloud-init status decides, and "" or "pending" executes it.
HandleCloudInit(s, o) ==
  IF ~script THEN Result([s EXCEPT !.cond = "Available"], FALSE, FALSE)
  ELSE CASE s.cis = "completed" -> Result([s EXCEPT !.cond = "Available"], FALSE, FALSE)
         [] s.cis = "failed" -> Result([s EXCEPT !.cond = "Unavailable"], FALSE, FALSE)
         [] s.cis = "running" -> Result([s EXCEPT !.cond = "Creating"], FALSE, FALSE)
         [] OTHER -> ExecuteCloudInit(s, o)

\* updateVMStatus: the Ready condition from the Orchard VM's status
\* ("running" stays Creating until handleCloudInit has decided).
UpdateVMStatus(s) ==
  [s EXCEPT !.cond = IF vm = "failed" THEN "Unavailable" ELSE "Creating"]

\* isVMUpToDate: image, CPU and memory match spec.forProvider.
IsVMUpToDate == ~drift

\* Mutant: an unexpected status code reads as "VM not found".
HandleObserveResponseNotFoundOnError(s, code, ipOK, o) ==
  IF code = "200"
  THEN LET u == UpdateVMStatus(s)
           v == IF vm = "running" /\ ipOK /\ vmIP THEN [u EXCEPT !.ip = TRUE] ELSE u
           h == IF vm = "running" /\ v.ip THEN HandleCloudInit(v, o)
                                          ELSE Result(v, FALSE, FALSE)
       IN Obs(h, TRUE, IsVMUpToDate)
  ELSE Obs(Result(s, FALSE, FALSE), FALSE, FALSE)

\* handleObserveResponse: 404 means no VM; 200 refreshes the status,
\* fetches the IP of a running VM (a failed GET /ip is ignored and the
\* last known IP kept) and, with an IP, runs handleCloudInit; any other
\* code is an error.
HandleObserveResponse(s, code, ipOK, o) ==
  CASE code = "404" -> Obs(Result(s, FALSE, FALSE), FALSE, FALSE)
    [] code = "200" ->
         LET u == UpdateVMStatus(s)
             v == IF vm = "running" /\ ipOK /\ vmIP THEN [u EXCEPT !.ip = TRUE] ELSE u
             h == IF vm = "running" /\ v.ip THEN HandleCloudInit(v, o)
                                            ELSE Result(v, FALSE, FALSE)
         IN Obs(h, TRUE, IsVMUpToDate)
    [] OTHER -> Obs(Result(s, TRUE, FALSE), FALSE, FALSE)

\* Observe: no external name means no VM yet; a failed GET is an error.
Observe(s, code, ipOK, o) ==
  CASE ~ext -> Obs(Result(s, FALSE, FALSE), FALSE, FALSE)
    [] code = "err" -> Obs(Result(s, TRUE, FALSE), FALSE, FALSE)
    [] OTHER -> HandleObserveResponse(s, code, ipOK, o)

\* Script executions an outcome stands for: the script started unless the
\* session failed before session.Run.
Ran(r, o) == r.exec /\ o \in {"exit0", "exitNZ", "errAfter"}

-----------------------------------------------------------------------------
(* The reconciler.                                                         *)

\* A reconcile reads the CR; Connect fails (ProviderConfig, credentials or
\* token missing): the error is recorded and the status written back.
ConnectFails ==
  /\ rpc = "idle" /\ ~gone
  /\ rpc' = "write"
  /\ mem' = st
  /\ UNCHANGED <<orchardVars, crVars, obs, lost>>

\* A reconcile reads the CR, Connect succeeds and Observe runs, with the
\* GET /vms/{name} answer `code`, the GET /ip succeeding or not, and the
\* session outcome o.
ObserveStep(code, ipOK, o) ==
  LET r == Observe(st, code, ipOK, o) IN
  /\ rpc = "idle" /\ ~gone
  /\ Ran(r, o) => runs < MaxRuns
  /\ rpc' = "observed"
  /\ mem' = r.st
  /\ obs' = [err |-> r.err, exists |-> r.exists, upToDate |-> r.upToDate,
             del |-> deleting]
  /\ runs' = IF Ran(r, o) THEN runs + 1 ELSE runs
  /\ okRun' = (okRun \/ (r.exec /\ o = "exit0"))
  /\ lastRun' = IF r.exec THEN o ELSE lastRun
  /\ UNCHANGED <<vm, vmIP, sshUp, drift, crVars, lost>>

Observed ==
  \E code \in {GetCode} \cup ApiFaults, ipOK \in BOOLEAN, o \in SessionOutcomes :
    ObserveStep(code, ipOK, o)

\* Observe returned an error: the reconciler records it and writes status.
ObserveFailed ==
  /\ rpc = "observed" /\ obs.err
  /\ rpc' = "write"
  /\ UNCHANGED <<orchardVars, crVars, mem, obs, lost>>

\* Create: SetExternalName(cr.Name) (persisted by the reconciler with the
\* other critical annotations whatever PostVms returns), then POST /vms.
\* 200, 201 and 409 are success; a transport error may come after Orchard
\* created the VM.
Create ==
  /\ rpc = "observed" /\ ~obs.err /\ ~obs.del /\ ~obs.exists
  /\ ext' = TRUE
  /\ \E code \in {IF vm = "absent" THEN "201" ELSE "409"} \cup ApiFaults :
       \/ code \in {"201", "err"} /\ vm' = "pending" /\ drift' = FALSE
       \/ code \in {"409", "500", "err"} /\ UNCHANGED <<vm, drift>>
  /\ mem' = [mem EXCEPT !.cond = "Creating"]
  /\ rpc' = "write"
  /\ UNCHANGED <<vmIP, sshUp, runs, okRun, lastRun, script, deleting, gone,
                 st, obs, lost>>

\* Update: PUT /vms/{name} with the spec; 200 and 204 are success.
Update ==
  /\ rpc = "observed" /\ ~obs.err /\ ~obs.del /\ obs.exists /\ ~obs.upToDate
  /\ \E code \in {IF vm = "absent" THEN "404" ELSE "200"} \cup ApiFaults :
       \/ code \in {"200", "err"} /\ drift' = FALSE
       \/ code \in {"404", "500", "err"} /\ UNCHANGED drift
  /\ rpc' = "write"
  /\ UNCHANGED <<vm, vmIP, sshUp, runs, okRun, lastRun, crVars, mem, obs, lost>>

\* The VM exists and is up to date: nothing to do but write status.
UpToDate ==
  /\ rpc = "observed" /\ ~obs.err /\ ~obs.del /\ obs.exists /\ obs.upToDate
  /\ rpc' = "write"
  /\ UNCHANGED <<orchardVars, crVars, mem, obs, lost>>

\* Delete: DELETE /vms/{name}; 200, 204 and 404 are success.  A transport
\* error may come after Orchard deleted the VM.
Delete ==
  /\ rpc = "observed" /\ ~obs.err /\ obs.del /\ obs.exists
  /\ \E code \in {IF vm = "absent" THEN "404" ELSE "200"} \cup ApiFaults :
       \/ code \in {"200", "err"} /\ vm' = "absent" /\ vmIP' = FALSE /\ sshUp' = FALSE
       \/ code \in {"404", "500", "err"} /\ UNCHANGED <<vm, vmIP, sshUp>>
  /\ mem' = [mem EXCEPT !.cond = "Deleting"]
  /\ rpc' = "write"
  /\ UNCHANGED <<drift, runs, okRun, lastRun, crVars, obs, lost>>

\* The VM is gone: the reconciler removes the finalizer and the CR goes.
RemoveFinalizer ==
  /\ rpc = "observed" /\ ~obs.err /\ obs.del /\ ~obs.exists
  /\ gone' = TRUE
  /\ rpc' = "idle"
  /\ UNCHANGED <<orchardVars, script, ext, deleting, st, mem, obs, lost>>

\* The reconcile ends by writing the status it holds ...
WriteStatus ==
  /\ rpc = "write"
  /\ st' = mem
  /\ rpc' = "idle"
  /\ UNCHANGED <<orchardVars, script, ext, deleting, gone, mem, obs, lost>>

\* ... or the write is lost: a conflict, or the provider restarted first.
StatusWriteLost ==
  /\ rpc = "write"
  /\ lost < MaxLost
  /\ lost' = lost + 1
  /\ rpc' = "idle"
  /\ UNCHANGED <<orchardVars, crVars, mem, obs>>

Reconciler ==
  \/ ConnectFails \/ Observed \/ ObserveFailed \/ Create \/ Update
  \/ UpToDate \/ Delete \/ RemoveFinalizer \/ WriteStatus \/ StatusWriteLost

Next == Environment \/ Reconciler

Spec == Init /\ [][Next]_vars

\* The reconciler polls the CR for as long as it exists and writes status
\* at the end of each reconcile (lost writes are bounded); the Orchard API
\* does not fail forever: a GET that answers with the VM's state and its
\* IP comes through whenever reconciles keep coming.
Fairness ==
  /\ WF_vars(Reconciler)
  /\ SF_vars(\E o \in SessionOutcomes : ObserveStep(GetCode, TRUE, o))

FairSpec == Spec /\ Fairness

-----------------------------------------------------------------------------
(* Properties.                                                             *)

\* The Ready condition says Available for a VM with a startup script only
\* if the script has run to exit 0 on it (executeCloudInit and
\* handleCloudInit never report a failed or unfinished script as done).
AvailableMeansProvisioned ==
  (script /\ st.cond = "Available") => okRun

\* The startup script runs again only after a status write was lost:
\* once a run's outcome is persisted, handleCloudInit never starts another.
RerunsNeedLostWrites == runs <= lost + 1

\* Once the CR is gone (finalizer removed), no VM is left in Orchard:
\* Delete ran and succeeded, or Observe saw a 404.
NoOrphanVM == gone => vm = "absent"

\* A running VM with an IP and a reachable SSH server gets its startup
\* script's outcome recorded, unless it fails or is deleted first.
CloudInitSettles ==
  (script /\ vm = "running" /\ vmIP /\ sshUp)
    ~> (st.cis \in {"completed", "failed"} \/ vm # "running")

\* Spec: an error from the session layer is transient and retried; only
\* a non-zero exit of the script is a failure to report.
TransientErrorsRetried == st.cis = "failed" => lastRun = "exitNZ"

\* The startup script is executed at most once on a VM.
ScriptRunsOnce == runs <= 1

\* The startup script is never started on a VM whose CR is marked for
\* deletion (crossplane-runtime's contract for ExternalClient.Observe:
\* it must not modify the external resource; Observe is called before
\* Delete and its handleCloudInit runs the script over SSH).
NoRunOnDeletion == [][ runs' > runs => ~deleting ]_vars

\* The persisted cloud-init status implements CloudInitRecord: it moves
\* from "" through "pending" to one final "completed" or "failed" and
\* stays there, through lost status writes and re-executions, and reads
\* "completed" only after a run exited 0 (handleCloudInit executes the
\* script only from "" or "pending"; executeCloudInit overwrites
\* "running" on every path; the reconciler writes back what it read).
Record == INSTANCE CloudInitRecord WITH cis <- st.cis, ok <- okRun

CloudInitRecordSpec == Record!Spec

=============================================================================
