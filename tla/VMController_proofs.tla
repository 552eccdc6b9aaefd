------------------------- MODULE VMController_proofs -------------------------
(***************************************************************************)
(* Proofs, for every value of the bounds, of the three safety properties  *)
(* of the controller that lost status writes and stale reads threaten:    *)
(* the startup script runs again only after a lost status write           *)
(* (RerunsNeedLostWrites), no VM outlives its CR (NoOrphanVM), and a VM    *)
(* is reported Available only after its script exited 0                    *)
(* (AvailableMeansProvisioned); and that the persisted cloud-init status  *)
(* implements the abstract CloudInitRecord (CloudInitRecordSpec).          *)
(***************************************************************************)
EXTENDS VMController, TLAPS

\* A cloud-init status from which handleCloudInit executes the script
\* (or, for "running", would wait): no outcome has been recorded.
Redo(s) == s.cis \notin {"completed", "failed"}

\* RerunsNeedLostWrites is not inductive: a reconcile that has just run
\* the script holds the outcome in `mem` only, and the persisted status
\* still asks for an execution.  The strengthening says that whenever
\* the status the next reconcile will read asks for an execution, a
\* status write has been lost since the last run: runs <= lost.
RerunInv ==
  /\ runs <= lost + 1
  /\ (rpc = "idle" /\ ~gone /\ Redo(st)) => runs <= lost
  /\ (rpc # "idle" /\ Redo(mem)) => runs <= lost

\* NoOrphanVM is not inductive either: the finalizer is removed on the
\* strength of an Observe made earlier in the reconcile.  The VM is
\* absent while no external name is set (Create sets it before POST),
\* and from an Observe that saw no VM until the reconcile ends; once the
\* CR is gone no reconcile starts.
OrphanInv ==
  /\ ~ext => vm = "absent"
  /\ (rpc = "observed" /\ ~obs.err /\ ~obs.exists) => vm = "absent"
  /\ gone => (vm = "absent" /\ rpc = "idle")

-----------------------------------------------------------------------------
(* The handlers.                                                           *)

\* What the proofs need of a handler's Result r on status s: it is well
\* typed, an execution records an outcome, and a recorded outcome is
\* neither re-executed nor lost.
HandlerOK(r, s, o) ==
  /\ r.st \in Status /\ r.err \in BOOLEAN /\ r.exec \in BOOLEAN
  /\ r.exec => (~Redo(r.st) /\ o \in RunOutcomes)
  /\ ~Redo(s) => (~r.exec /\ ~Redo(r.st))

\* executeCloudInit records "completed" or "failed" whenever it calls
\* UploadAndRunScript.
LEMMA ExecuteFacts ==
  ASSUME NEW s \in Status, NEW o \in RunOutcomes \cup {"notReady"}
  PROVE  LET r == ExecuteCloudInit(s, o) IN
           /\ r.st \in Status /\ r.err \in BOOLEAN /\ r.exec \in BOOLEAN
           /\ r.exec => (~Redo(r.st) /\ o \in RunOutcomes)
BY DEF ExecuteCloudInit, Result, Status, Redo, CloudInitStatuses, Conds,
       RunOutcomes

\* handleCloudInit executes only from "" or "pending".
LEMMA HandleCloudInitFacts ==
  ASSUME NEW s \in Status, NEW o \in RunOutcomes \cup {"notReady"},
         script \in BOOLEAN
  PROVE  HandlerOK(HandleCloudInit(s, o), s, o)
<1>1. CASE ~script
  BY <1>1 DEF HandleCloudInit, HandlerOK, Result, Status, Redo, Conds
<1>2. CASE script /\ ~Redo(s)
  BY <1>2 DEF HandleCloudInit, HandlerOK, Result, Status, Redo, Conds,
              CloudInitStatuses
<1>3. CASE script /\ s.cis = "running"
  BY <1>3 DEF HandleCloudInit, HandlerOK, Result, Status, Redo, Conds,
              CloudInitStatuses
<1>4. CASE script /\ s.cis \in {"", "pending"}
  <2>1. HandleCloudInit(s, o) = ExecuteCloudInit(s, o)
    BY <1>4 DEF HandleCloudInit
  <2>2. Redo(s)
    BY <1>4 DEF Redo
  <2>. QED  BY <2>1, <2>2, ExecuteFacts DEF HandlerOK
<1>. QED  BY <1>1, <1>2, <1>3, <1>4 DEF Status, CloudInitStatuses, Redo

\* updateVMStatus sets the condition only.
LEMMA UpdateVMStatusFacts ==
  ASSUME NEW s \in Status
  PROVE  UpdateVMStatus(s) \in Status /\ UpdateVMStatus(s).cis = s.cis
BY DEF UpdateVMStatus, Status, Conds

\* The facts about Observe's result the invariants use: it is a handler
\* result with Boolean exists and upToDate, and "no VM, no error" comes
\* only from a 404 (or, for Observe, from a missing external name).
ObsOK(r, s, o) ==
  /\ HandlerOK(r, s, o)
  /\ r.exists \in BOOLEAN /\ r.upToDate \in BOOLEAN

LEMMA HandleObserveResponseFacts ==
  ASSUME NEW s \in Status, NEW code, NEW ipOK \in BOOLEAN,
         NEW o \in RunOutcomes \cup {"notReady"},
         script \in BOOLEAN, vmIP \in BOOLEAN, drift \in BOOLEAN
  PROVE  LET r == HandleObserveResponse(s, code, ipOK, o) IN
           /\ ObsOK(r, s, o)
           /\ (~r.err /\ ~r.exists) => code = "404"
<1> DEFINE u == UpdateVMStatus(s)
           v == IF vm = "running" /\ ipOK /\ vmIP THEN [u EXCEPT !.ip = TRUE] ELSE u
           h == IF vm = "running" /\ v.ip THEN HandleCloudInit(v, o)
                                          ELSE Result(v, FALSE, FALSE)
<1>1. CASE code = "404"
  BY <1>1 DEF HandleObserveResponse, Obs, Result, ObsOK, HandlerOK
<1>2. CASE code = "200"
  <2>1. u \in Status /\ u.cis = s.cis
    BY UpdateVMStatusFacts
  <2>2. v \in Status /\ v.cis = s.cis
    BY <2>1 DEF Status
  <2>3. HandlerOK(h, v, o)
    <3>1. CASE vm = "running" /\ v.ip
      BY <2>2, <3>1, HandleCloudInitFacts
    <3>2. CASE ~(vm = "running" /\ v.ip)
      BY <2>2, <3>2 DEF HandlerOK, Result
    <3>. QED  BY <3>1, <3>2
  <2>4. HandlerOK(h, s, o)
    BY <2>2, <2>3 DEF HandlerOK, Redo
  <2>5. HandleObserveResponse(s, code, ipOK, o) = Obs(h, TRUE, IsVMUpToDate)
    BY <1>2 DEF HandleObserveResponse
  <2> DEFINE rr == Obs(h, TRUE, IsVMUpToDate)
  <2>6. /\ rr.st = h.st /\ rr.err = h.err /\ rr.exec = h.exec
        /\ rr.exists = TRUE /\ rr.upToDate = ~drift
    BY DEF Obs, IsVMUpToDate
  <2>7. ObsOK(rr, s, o)
    BY <2>4, <2>6, Zenon DEF ObsOK, HandlerOK
  <2>. QED  BY <2>5, <2>6, <2>7
<1>3. CASE code \notin {"404", "200"}
  BY <1>3 DEF HandleObserveResponse, Obs, Result, ObsOK, HandlerOK
<1>. QED  BY <1>1, <1>2, <1>3

LEMMA ObserveFacts ==
  ASSUME NEW s \in Status, NEW code, NEW ipOK \in BOOLEAN,
         NEW o \in RunOutcomes \cup {"notReady"},
         script \in BOOLEAN, vmIP \in BOOLEAN, drift \in BOOLEAN
  PROVE  LET r == Observe(s, code, ipOK, o) IN
           /\ ObsOK(r, s, o)
           /\ (~r.err /\ ~r.exists) => (~ext \/ code = "404")
<1>1. CASE ~ext \/ code = "err"
  BY <1>1 DEF Observe, Obs, Result, ObsOK, HandlerOK
<1>2. CASE ext /\ code # "err"
  <2>1. Observe(s, code, ipOK, o) = HandleObserveResponse(s, code, ipOK, o)
    BY <1>2 DEF Observe
  <2>. QED  BY <2>1, HandleObserveResponseFacts
<1>. QED  BY <1>1, <1>2

-----------------------------------------------------------------------------
(* The inductive invariant.                                                *)

\* TypeOK, split into the part SMT proves and the Boolean part Zenon does.
TypeData ==
  /\ vm \in {"absent", "pending", "running", "failed"}
  /\ runs \in 0..MaxRuns
  /\ lastRun \in RunOutcomes \cup {"none"}
  /\ st \in Status
  /\ rpc \in {"idle", "observed", "write"}
  /\ mem \in Status
  /\ obs \in [err : BOOLEAN, exists : BOOLEAN, upToDate : BOOLEAN, del : BOOLEAN]
  /\ lost \in 0..MaxLost

TypeBools ==
  /\ vmIP \in BOOLEAN /\ sshUp \in BOOLEAN /\ drift \in BOOLEAN
  /\ okRun \in BOOLEAN /\ script \in BOOLEAN /\ ext \in BOOLEAN
  /\ deleting \in BOOLEAN /\ gone \in BOOLEAN

LEMMA TypeSplit == TypeOK <=> TypeData /\ TypeBools
BY Zenon DEF TypeOK, TypeData, TypeBools

Inv == TypeData /\ TypeBools /\ RerunInv /\ OrphanInv

LEMMA InitInv == Init => Inv
<1> SUFFICES ASSUME Init PROVE Inv
  OBVIOUS
<1>1. TypeBools
  BY Zenon DEF Init, TypeBools
<1>2. /\ st \in Status /\ mem \in Status
      /\ obs \in [err : BOOLEAN, exists : BOOLEAN, upToDate : BOOLEAN, del : BOOLEAN]
  BY Zenon DEF Init, Status, CloudInitStatuses, Conds
<1>5. /\ vm = "absent" /\ runs = 0 /\ lastRun = "none" /\ rpc = "idle"
      /\ lost = 0 /\ ~ext /\ ~gone
  BY Zenon DEF Init
<1>3. TypeData
  BY <1>2, <1>5, BoundsAssumption DEF TypeData
<1>4. RerunInv /\ OrphanInv
  BY <1>5 DEF RerunInv, OrphanInv
<1>. QED  BY <1>1, <1>3, <1>4 DEF Inv

\* A reconcile's Observe: it runs the script only from a status that asks
\* for it, and then holds the outcome in mem.
LEMMA ObserveStepInv ==
  ASSUME Inv, NEW code \in {GetCode} \cup ApiFaults, NEW ipOK \in BOOLEAN,
         NEW o \in SessionOutcomes, ObserveStep(code, ipOK, o)
  PROVE  Inv'
<1> DEFINE r == Observe(st, code, ipOK, o)
<1>1. o \in RunOutcomes \cup {"notReady"}
  BY DEF SessionOutcomes
<1>2. /\ ObsOK(r, st, o)
      /\ (~r.err /\ ~r.exists) => (~ext \/ code = "404")
  BY <1>1, ObserveFacts DEF Inv, TypeData, TypeBools
<1>3. /\ rpc = "idle" /\ ~gone /\ rpc' = "observed" /\ mem' = r.st
      /\ obs' = [err |-> r.err, exists |-> r.exists, upToDate |-> r.upToDate,
                 del |-> deleting]
      /\ runs' = IF Ran(r, o) THEN runs + 1 ELSE runs
      /\ Ran(r, o) => runs < MaxRuns
      /\ okRun' = (okRun \/ (r.exec /\ o = "exit0"))
      /\ lastRun' = IF r.exec THEN o ELSE lastRun
      /\ UNCHANGED <<vm, vmIP, sshUp, drift, script, ext, deleting, gone, st, lost>>
  BY Zenon DEF ObserveStep, crVars
<1>4. TypeBools'
  BY <1>2, <1>3, Zenon DEF Inv, TypeBools, ObsOK, HandlerOK
<1>5. obs' \in [err : BOOLEAN, exists : BOOLEAN, upToDate : BOOLEAN, del : BOOLEAN]
  BY <1>2, <1>3, Zenon DEF Inv, TypeBools, ObsOK, HandlerOK
<1>9. runs' \in 0..MaxRuns
  <2>1. CASE Ran(r, o)
    BY <1>3, <2>1, BoundsAssumption DEF Inv, TypeData
  <2>2. CASE ~Ran(r, o)
    BY <1>3, <2>2 DEF Inv, TypeData
  <2>. QED  BY <2>1, <2>2
<1>10. lastRun' \in RunOutcomes \cup {"none"}
  BY <1>2, <1>3, Zenon DEF Inv, TypeData, ObsOK, HandlerOK
<1>8. TypeData'
  BY <1>2, <1>3, <1>5, <1>9, <1>10 DEF Inv, TypeData, ObsOK, HandlerOK
<1>6. RerunInv'
  <2>1. CASE Redo(st)
    BY <1>2, <1>3, <2>1 DEF Inv, TypeData, RerunInv, ObsOK, HandlerOK, Ran
  <2>2. CASE ~Redo(st)
    BY <1>2, <1>3, <2>2 DEF Inv, TypeData, RerunInv, ObsOK, HandlerOK, Ran
  <2>. QED  BY <2>1, <2>2
<1>7. OrphanInv'
  BY <1>2, <1>3 DEF Inv, OrphanInv, GetCode, ApiFaults
<1>. QED  BY <1>4, <1>8, <1>6, <1>7 DEF Inv

\* Orchard and the user never touch the CR status, the reconcile, or a VM
\* that is absent.
LEMMA EnvironmentInv ==
  ASSUME Inv, Environment
  PROVE  Inv'
<1>1. CASE (VMBoots \/ VMGetsIP \/ GuestSSHUp \/ VMFails \/ UserEditsSpec)
             /\ UNCHANGED <<crVars, recVars>>
  <2>1. /\ UNCHANGED <<runs, okRun, lastRun, script, ext, deleting, gone, st,
                       rpc, mem, obs, lost>>
        /\ vm' \in {"absent", "pending", "running", "failed"}
        /\ vm' # vm => vm \in {"pending", "running"}
        /\ {vmIP', sshUp', drift'} \subseteq BOOLEAN
    BY <1>1, Zenon DEF VMBoots, VMGetsIP, GuestSSHUp, VMFails, UserEditsSpec,
                       crVars, recVars, Inv, TypeBools, TypeData
  <2>2. TypeBools'
    BY <2>1, Zenon DEF Inv, TypeBools
  <2>. QED  BY <2>1, <2>2 DEF Inv, TypeData, RerunInv, OrphanInv
<1>2. CASE UserDeletes /\ UNCHANGED <<orchardVars, recVars>>
  <2>1. /\ UNCHANGED <<vm, vmIP, sshUp, drift, runs, okRun, lastRun, script,
                       ext, gone, st, rpc, mem, obs, lost>>
        /\ deleting' = TRUE
    BY <1>2, Zenon DEF UserDeletes, orchardVars, recVars
  <2>2. TypeBools'
    BY <2>1, Zenon DEF Inv, TypeBools
  <2>. QED  BY <2>1, <2>2 DEF Inv, TypeData, RerunInv, OrphanInv
<1>. QED  BY <1>1, <1>2 DEF Environment

\* The steps that start or end a reconcile without running Observe.
LEMMA BoundaryStepsInv ==
  ASSUME Inv, ConnectFails \/ RemoveFinalizer \/ WriteStatus \/ StatusWriteLost
  PROVE  Inv'
<1>1. CASE ConnectFails
  <2>1. /\ rpc = "idle" /\ ~gone /\ rpc' = "write" /\ mem' = st
        /\ UNCHANGED <<vm, vmIP, sshUp, drift, runs, okRun, lastRun, script,
                       ext, deleting, gone, st, obs, lost>>
    BY <1>1, Zenon DEF ConnectFails, orchardVars, crVars
  <2>2. TypeBools'
    BY <2>1, Zenon DEF Inv, TypeBools
  <2>. QED  BY <2>1, <2>2 DEF Inv, TypeData, RerunInv, OrphanInv
<1>2. CASE RemoveFinalizer
  <2>1. /\ rpc = "observed" /\ ~obs.err /\ ~obs.exists
        /\ gone' = TRUE /\ rpc' = "idle"
        /\ UNCHANGED <<vm, vmIP, sshUp, drift, runs, okRun, lastRun, script,
                       ext, deleting, st, mem, obs, lost>>
    BY <1>2, Zenon DEF RemoveFinalizer, orchardVars
  <2>2. TypeBools'
    BY <2>1, Zenon DEF Inv, TypeBools
  <2>. QED  BY <2>1, <2>2 DEF Inv, TypeData, RerunInv, OrphanInv
<1>3. CASE WriteStatus
  <2>1. /\ rpc = "write" /\ st' = mem /\ rpc' = "idle"
        /\ UNCHANGED <<vm, vmIP, sshUp, drift, runs, okRun, lastRun, script,
                       ext, deleting, gone, mem, obs, lost>>
    BY <1>3, Zenon DEF WriteStatus, orchardVars
  <2>2. TypeBools'
    BY <2>1, Zenon DEF Inv, TypeBools
  <2>3. ~gone
    BY <2>1 DEF Inv, OrphanInv
  <2>. QED  BY <2>1, <2>2, <2>3 DEF Inv, TypeData, RerunInv, OrphanInv
<1>4. CASE StatusWriteLost
  <2>1. /\ rpc = "write" /\ lost < MaxLost /\ lost' = lost + 1 /\ rpc' = "idle"
        /\ UNCHANGED <<vm, vmIP, sshUp, drift, runs, okRun, lastRun, script,
                       ext, deleting, gone, st, mem, obs>>
    BY <1>4, Zenon DEF StatusWriteLost, orchardVars, crVars
  <2>2. TypeBools'
    BY <2>1, Zenon DEF Inv, TypeBools
  <2>. QED  BY <2>1, <2>2, BoundsAssumption DEF Inv, TypeData, RerunInv, OrphanInv
<1>. QED  BY <1>1, <1>2, <1>3, <1>4

\* The steps that act on Orchard after Observe keep the status held in
\* memory (but for its condition) and end in the status write.
LEMMA HandlerStepsInv ==
  ASSUME Inv, ObserveFailed \/ Create \/ Update \/ UpToDate \/ Delete
  PROVE  Inv'
<1>1. CASE ObserveFailed \/ UpToDate
  <2>1. /\ rpc = "observed" /\ rpc' = "write"
        /\ UNCHANGED <<vm, vmIP, sshUp, drift, runs, okRun, lastRun, script,
                       ext, deleting, gone, st, mem, obs, lost>>
    BY <1>1, Zenon DEF ObserveFailed, UpToDate, orchardVars, crVars
  <2>2. TypeBools'
    BY <2>1, Zenon DEF Inv, TypeBools
  <2>. QED  BY <2>1, <2>2 DEF Inv, TypeData, RerunInv, OrphanInv
<1>2. CASE Create
  <2>1. /\ rpc = "observed" /\ rpc' = "write" /\ ext' = TRUE
        /\ mem' = [mem EXCEPT !.cond = "Creating"]
        /\ vm' \in {vm, "pending"} /\ drift' \in {drift, FALSE}
        /\ UNCHANGED <<vmIP, sshUp, runs, okRun, lastRun, script, deleting,
                       gone, st, obs, lost>>
    BY <1>2, Zenon DEF Create
  <2>2. TypeBools'
    BY <2>1, Zenon DEF Inv, TypeBools
  <2>3. mem' \in Status /\ mem'.cis = mem.cis
    BY <2>1 DEF Inv, TypeData, Status, Conds
  <2>. QED  BY <2>1, <2>2, <2>3 DEF Inv, TypeData, RerunInv, OrphanInv, Redo
<1>3. CASE Update
  <2>1. /\ rpc = "observed" /\ rpc' = "write" /\ drift' \in {drift, FALSE}
        /\ UNCHANGED <<vm, vmIP, sshUp, runs, okRun, lastRun, script, ext,
                       deleting, gone, st, mem, obs, lost>>
    BY <1>3, Zenon DEF Update, crVars
  <2>2. TypeBools'
    BY <2>1, Zenon DEF Inv, TypeBools
  <2>. QED  BY <2>1, <2>2 DEF Inv, TypeData, RerunInv, OrphanInv
<1>4. CASE Delete
  <2>1. /\ rpc = "observed" /\ rpc' = "write"
        /\ mem' = [mem EXCEPT !.cond = "Deleting"]
        /\ \/ vm' = "absent" /\ vmIP' = FALSE /\ sshUp' = FALSE
           \/ UNCHANGED <<vm, vmIP, sshUp>>
        /\ UNCHANGED <<drift, runs, okRun, lastRun, script, ext, deleting,
                       gone, st, obs, lost>>
    BY <1>4, Zenon DEF Delete, crVars
  <2>2. TypeBools'
    BY <2>1, Zenon DEF Inv, TypeBools
  <2>3. mem' \in Status /\ mem'.cis = mem.cis
    BY <2>1 DEF Inv, TypeData, Status, Conds
  <2>. QED  BY <2>1, <2>2, <2>3 DEF Inv, TypeData, RerunInv, OrphanInv, Redo
<1>. QED  BY <1>1, <1>2, <1>3, <1>4

LEMMA NextInv == Inv /\ [Next]_vars => Inv'
<1> SUFFICES ASSUME Inv, [Next]_vars PROVE Inv'
  OBVIOUS
<1>1. CASE Environment
  BY <1>1, EnvironmentInv
<1>2. CASE Observed
  BY <1>2, ObserveStepInv DEF Observed
<1>3. CASE ConnectFails \/ RemoveFinalizer \/ WriteStatus \/ StatusWriteLost
  BY <1>3, BoundaryStepsInv
<1>4. CASE ObserveFailed \/ Create \/ Update \/ UpToDate \/ Delete
  BY <1>4, HandlerStepsInv
<1>5. CASE UNCHANGED vars
  <2>1. UNCHANGED <<vm, vmIP, sshUp, drift, runs, okRun, lastRun, script, ext,
                    deleting, gone, st, rpc, mem, obs, lost>>
    BY <1>5, Zenon DEF vars, orchardVars, crVars, recVars
  <2>2. TypeBools'
    BY <2>1, Zenon DEF Inv, TypeBools
  <2>. QED  BY <2>1, <2>2 DEF Inv, TypeData, RerunInv, OrphanInv, Redo
<1>. QED  BY <1>1, <1>2, <1>3, <1>4, <1>5 DEF Next, Reconciler

-----------------------------------------------------------------------------
(* AvailableMeansProvisioned.                                              *)

\* A status that tells the next reconcile the script is done: the Ready
\* condition Available, or cloud-init "completed" (from which
\* handleCloudInit sets Available without running anything).
Done(s) == s.cond = "Available" \/ s.cis = "completed"

\* AvailableMeansProvisioned is not inductive: Available is set in the
\* status held in memory first, and "completed" (which leads to
\* Available) must be covered too.  Both the persisted status and, during
\* a reconcile, the one in memory say "done" only after a run exited 0.
ProvisionInv ==
  /\ (script /\ Done(st)) => okRun
  /\ (script /\ rpc # "idle" /\ Done(mem)) => okRun

\* A handler reports the script done only if it was done before or it
\* has just run the script to exit 0.
ProvisionOK(r, s, o) ==
  (script /\ Done(r.st)) => (Done(s) \/ (r.exec /\ o = "exit0"))

LEMMA ExecuteProvision ==
  ASSUME NEW s \in Status, NEW o \in RunOutcomes \cup {"notReady"}
  PROVE  ProvisionOK(ExecuteCloudInit(s, o), s, o)
BY DEF ExecuteCloudInit, Result, ProvisionOK, Done, Status, RunOutcomes

\* handleCloudInit sets Available without a run only when there is no
\* script or cloud-init is already "completed".
LEMMA HandleCloudInitProvision ==
  ASSUME NEW s \in Status, NEW o \in RunOutcomes \cup {"notReady"},
         script \in BOOLEAN
  PROVE  ProvisionOK(HandleCloudInit(s, o), s, o)
<1>1. CASE ~script
  BY <1>1 DEF ProvisionOK
<1>2. CASE script /\ s.cis \in {"completed", "failed", "running"}
  BY <1>2 DEF HandleCloudInit, Result, ProvisionOK, Done, Status
<1>3. CASE script /\ s.cis \notin {"completed", "failed", "running"}
  <2>1. HandleCloudInit(s, o) = ExecuteCloudInit(s, o)
    BY <1>3 DEF HandleCloudInit
  <2>. QED  BY <2>1, ExecuteProvision
<1>. QED  BY <1>1, <1>2, <1>3

\* Observe reports the script done only after a run exited 0, or when the
\* status it started from already said so: updateVMStatus never sets
\* Available and leaves the cloud-init status alone.
LEMMA ObserveProvision ==
  ASSUME NEW s \in Status, NEW code, NEW ipOK \in BOOLEAN,
         NEW o \in RunOutcomes \cup {"notReady"},
         script \in BOOLEAN, vmIP \in BOOLEAN
  PROVE  ProvisionOK(Observe(s, code, ipOK, o), s, o)
<1> DEFINE u == UpdateVMStatus(s)
           v == IF vm = "running" /\ ipOK /\ vmIP THEN [u EXCEPT !.ip = TRUE] ELSE u
           h == IF vm = "running" /\ v.ip THEN HandleCloudInit(v, o)
                                          ELSE Result(v, FALSE, FALSE)
<1>1. CASE ~ext \/ code # "200"
  <2>1. Observe(s, code, ipOK, o).st = s
    BY <1>1 DEF Observe, HandleObserveResponse, Obs, Result
  <2>. QED  BY <2>1 DEF ProvisionOK
<1>2. CASE ext /\ code = "200"
  <2>1. Observe(s, code, ipOK, o) = Obs(h, TRUE, IsVMUpToDate)
    BY <1>2 DEF Observe, HandleObserveResponse
  <2>2. /\ v \in Status
        /\ Done(v) => Done(s)
    BY DEF UpdateVMStatus, Status, Conds, Done
  <2>3. ProvisionOK(h, v, o)
    <3>1. CASE vm = "running" /\ v.ip
      BY <2>2, <3>1, HandleCloudInitProvision
    <3>2. CASE ~(vm = "running" /\ v.ip)
      BY <3>2 DEF ProvisionOK, Result
    <3>. QED  BY <3>1, <3>2
  <2>4. ProvisionOK(h, s, o)
    BY <2>2, <2>3 DEF ProvisionOK
  <2> DEFINE rr == Obs(h, TRUE, IsVMUpToDate)
  <2>5. rr.st = h.st /\ rr.exec = h.exec
    BY DEF Obs
  <2>. QED  BY <2>1, <2>4, <2>5, Zenon DEF ProvisionOK
<1>. QED  BY <1>1, <1>2

\* Every step keeps ProvisionInv: okRun never goes back, only Observe
\* changes the status in memory beyond its condition, Create and Delete
\* set Creating and Deleting, and the status write copies memory.
LEMMA ProvisionStep ==
  ASSUME Inv, ProvisionInv, [Next]_vars
  PROVE  ProvisionInv'
<1>1. CASE Observed
  <2>1. PICK code \in {GetCode} \cup ApiFaults, ipOK \in BOOLEAN,
             o \in SessionOutcomes : ObserveStep(code, ipOK, o)
    BY <1>1 DEF Observed
  <2> DEFINE r == Observe(st, code, ipOK, o)
  <2>2. /\ rpc = "idle" /\ mem' = r.st
        /\ okRun' = (okRun \/ (r.exec /\ o = "exit0"))
        /\ UNCHANGED <<script, st>>
    BY <2>1, Zenon DEF ObserveStep, crVars
  <2>3. ProvisionOK(r, st, o)
    BY ObserveProvision DEF Inv, TypeData, TypeBools, SessionOutcomes
  <2>. QED  BY <2>2, <2>3 DEF ProvisionInv, ProvisionOK
<1>2. CASE Create \/ Delete
  <2>1. /\ rpc' = "write"
        /\ \/ mem' = [mem EXCEPT !.cond = "Creating"]
           \/ mem' = [mem EXCEPT !.cond = "Deleting"]
        /\ UNCHANGED <<okRun, script, st>>
    BY <1>2, Zenon DEF Create, Delete, crVars
  <2>2. rpc # "idle"
    BY <1>2 DEF Create, Delete
  <2>3. Done(mem') => Done(mem)
    BY <2>1 DEF Inv, TypeData, Status, Done
  <2>. QED  BY <2>1, <2>2, <2>3 DEF ProvisionInv
<1>3. CASE ConnectFails
  <2>1. mem' = st /\ UNCHANGED <<okRun, script, st>>
    BY <1>3, Zenon DEF ConnectFails, orchardVars, crVars
  <2>. QED  BY <2>1 DEF ProvisionInv
<1>4. CASE WriteStatus
  <2>1. rpc = "write" /\ st' = mem /\ rpc' = "idle" /\ UNCHANGED <<okRun, script>>
    BY <1>4, Zenon DEF WriteStatus, orchardVars
  <2>. QED  BY <2>1 DEF ProvisionInv
<1>5. CASE RemoveFinalizer \/ StatusWriteLost
  <2>1. rpc' = "idle" /\ UNCHANGED <<okRun, script, st>>
    BY <1>5, Zenon DEF RemoveFinalizer, StatusWriteLost, orchardVars, crVars
  <2>. QED  BY <2>1 DEF ProvisionInv
<1>6. CASE ObserveFailed \/ Update \/ UpToDate
  <2>1. rpc # "idle" /\ UNCHANGED <<okRun, script, st, mem>>
    BY <1>6, Zenon DEF ObserveFailed, Update, UpToDate, crVars, orchardVars
  <2>. QED  BY <2>1 DEF ProvisionInv
<1>7. CASE Environment \/ UNCHANGED vars
  <2>1. UNCHANGED <<okRun, script, st, rpc, mem>>
    BY <1>7, Zenon DEF Environment, VMBoots, VMGetsIP, GuestSSHUp, VMFails,
                       UserEditsSpec, UserDeletes, vars, orchardVars, crVars,
                       recVars
  <2>. QED  BY <2>1 DEF ProvisionInv
<1>. QED  BY <1>1, <1>2, <1>3, <1>4, <1>5, <1>6, <1>7 DEF Next, Reconciler

-----------------------------------------------------------------------------
(* The refinement of CloudInitRecord.                                      *)

\* The move of the cloud-init status from a to b that CloudInitRecord
\* allows, with k telling whether some run has exited 0: none, to
\* "pending" or "failed" from an open status, or to "completed" after a
\* successful run.
CisStep(a, b, k) ==
  \/ b = a
  \/ a \in Record!Open /\ b \in {"pending", "failed"}
  \/ a \in Record!Open /\ b = "completed" /\ k

\* The refinement is not a step-by-step fact of the persisted status: a
\* reconcile computes the new status in memory (Observe) and writes it
\* at the end.  So the status in memory must be a move CloudInitRecord
\* allows from the persisted one, and the persisted one never "running"
\* and "completed" only after a successful run.
RecordInv ==
  /\ st.cis # "running"
  /\ st.cis = "completed" => okRun
  /\ rpc # "idle" => CisStep(st.cis, mem.cis, okRun)

\* A handler's move of the cloud-init status from s to r.st: one that
\* CloudInitRecord allows, "completed" only by a run that exited 0.
RecordOK(r, s, o) ==
  \/ r.st.cis = s.cis
  \/ s.cis \in Record!Open /\ r.st.cis \in {"pending", "failed"}
  \/ s.cis \in Record!Open /\ r.st.cis = "completed" /\ r.exec /\ o = "exit0"

\* executeCloudInit: "running" is overwritten by "pending", "failed" or
\* "completed", the last only for exit code 0.
LEMMA ExecuteRecord ==
  ASSUME NEW s \in Status, NEW o \in RunOutcomes \cup {"notReady"},
         s.cis \in Record!Open
  PROVE  RecordOK(ExecuteCloudInit(s, o), s, o)
BY DEF ExecuteCloudInit, Result, RecordOK, Status, RunOutcomes

\* handleCloudInit executes only from "" or "pending", and otherwise
\* leaves the cloud-init status alone.
LEMMA HandleCloudInitRecord ==
  ASSUME NEW s \in Status, NEW o \in RunOutcomes \cup {"notReady"},
         script \in BOOLEAN
  PROVE  RecordOK(HandleCloudInit(s, o), s, o)
<1>1. CASE ~script \/ s.cis \in {"completed", "failed", "running"}
  BY <1>1 DEF HandleCloudInit, Result, RecordOK, Status
<1>2. CASE script /\ s.cis \notin {"completed", "failed", "running"}
  <2>1. HandleCloudInit(s, o) = ExecuteCloudInit(s, o)
    BY <1>2 DEF HandleCloudInit
  <2>2. s.cis \in Record!Open
    BY <1>2 DEF Status, CloudInitStatuses, Record!Open
  <2>. QED  BY <2>1, <2>2, ExecuteRecord
<1>. QED  BY <1>1, <1>2

\* Observe: updateVMStatus and the IP fetch leave the cloud-init status
\* alone; handleCloudInit moves it as CloudInitRecord allows.
LEMMA ObserveRecord ==
  ASSUME NEW s \in Status, NEW code, NEW ipOK \in BOOLEAN,
         NEW o \in RunOutcomes \cup {"notReady"},
         script \in BOOLEAN, vmIP \in BOOLEAN
  PROVE  RecordOK(Observe(s, code, ipOK, o), s, o)
<1> DEFINE u == UpdateVMStatus(s)
           v == IF vm = "running" /\ ipOK /\ vmIP THEN [u EXCEPT !.ip = TRUE] ELSE u
           h == IF vm = "running" /\ v.ip THEN HandleCloudInit(v, o)
                                          ELSE Result(v, FALSE, FALSE)
<1>1. CASE ~ext \/ code # "200"
  <2>1. Observe(s, code, ipOK, o).st = s
    BY <1>1 DEF Observe, HandleObserveResponse, Obs, Result
  <2>. QED  BY <2>1 DEF RecordOK
<1>2. CASE ext /\ code = "200"
  <2>1. Observe(s, code, ipOK, o) = Obs(h, TRUE, IsVMUpToDate)
    BY <1>2 DEF Observe, HandleObserveResponse
  <2>2. v \in Status /\ v.cis = s.cis
    BY DEF UpdateVMStatus, Status, Conds
  <2>3. RecordOK(h, v, o)
    <3>1. CASE vm = "running" /\ v.ip
      BY <2>2, <3>1, HandleCloudInitRecord
    <3>2. CASE ~(vm = "running" /\ v.ip)
      BY <3>2 DEF RecordOK, Result
    <3>. QED  BY <3>1, <3>2
  <2>4. RecordOK(h, s, o)
    BY <2>2, <2>3 DEF RecordOK
  <2> DEFINE rr == Obs(h, TRUE, IsVMUpToDate)
  <2>5. rr.st = h.st /\ rr.exec = h.exec
    BY DEF Obs
  <2>6. RecordOK(rr, s, o)
    BY <2>4, <2>5 DEF RecordOK
  <2>. QED  BY <2>1, <2>6
<1>. QED  BY <1>1, <1>2

\* Every step keeps RecordInv: Observe moves the status in memory as
\* CloudInitRecord allows and sets okRun with a successful run; Create
\* and Delete change the condition only; the status write copies memory.
LEMMA RecordStep ==
  ASSUME Inv, RecordInv, [Next]_vars
  PROVE  RecordInv'
<1>1. CASE Observed
  <2>1. PICK code \in {GetCode} \cup ApiFaults, ipOK \in BOOLEAN,
             o \in SessionOutcomes : ObserveStep(code, ipOK, o)
    BY <1>1 DEF Observed
  <2> DEFINE r == Observe(st, code, ipOK, o)
  <2>2. /\ rpc' = "observed" /\ mem' = r.st
        /\ okRun' = (okRun \/ (r.exec /\ o = "exit0"))
        /\ UNCHANGED st
    BY <2>1, Zenon DEF ObserveStep, crVars
  <2>3. RecordOK(r, st, o)
    BY ObserveRecord DEF Inv, TypeData, TypeBools, SessionOutcomes
  <2>4. okRun \in BOOLEAN
    BY DEF Inv, TypeBools
  <2>. QED  BY <2>2, <2>3, <2>4 DEF RecordInv, RecordOK, CisStep
<1>2. CASE Create \/ Delete
  <2>1. /\ rpc' = "write"
        /\ \/ mem' = [mem EXCEPT !.cond = "Creating"]
           \/ mem' = [mem EXCEPT !.cond = "Deleting"]
        /\ UNCHANGED <<okRun, st>>
    BY <1>2, Zenon DEF Create, Delete, crVars
  <2>2. rpc # "idle"
    BY <1>2 DEF Create, Delete
  <2>3. mem'.cis = mem.cis
    BY <2>1 DEF Inv, TypeData, Status
  <2>. QED  BY <2>1, <2>2, <2>3 DEF RecordInv
<1>3. CASE ConnectFails
  <2>1. mem' = st /\ UNCHANGED <<okRun, st>>
    BY <1>3, Zenon DEF ConnectFails, orchardVars, crVars
  <2>. QED  BY <2>1 DEF RecordInv, CisStep
<1>4. CASE WriteStatus
  <2>1. rpc = "write" /\ st' = mem /\ rpc' = "idle" /\ UNCHANGED okRun
    BY <1>4, Zenon DEF WriteStatus, orchardVars
  <2>. QED  BY <2>1 DEF RecordInv, CisStep, Record!Open
<1>5. CASE RemoveFinalizer \/ StatusWriteLost
  <2>1. rpc' = "idle" /\ UNCHANGED <<okRun, st>>
    BY <1>5, Zenon DEF RemoveFinalizer, StatusWriteLost, orchardVars, crVars
  <2>. QED  BY <2>1 DEF RecordInv
<1>6. CASE ObserveFailed \/ Update \/ UpToDate
  <2>2. rpc' # "idle" /\ UNCHANGED <<okRun, st, mem>>
    BY <1>6, Zenon DEF ObserveFailed, Update, UpToDate, crVars, orchardVars
  <2>3. rpc # "idle"
    BY <1>6 DEF ObserveFailed, Update, UpToDate
  <2>. QED  BY <2>2, <2>3 DEF RecordInv
<1>7. CASE Environment \/ UNCHANGED vars
  <2>1. UNCHANGED <<okRun, st, rpc, mem>>
    BY <1>7, Zenon DEF Environment, VMBoots, VMGetsIP, GuestSSHUp, VMFails,
                       UserEditsSpec, UserDeletes, vars, orchardVars, crVars,
                       recVars
  <2>. QED  BY <2>1 DEF RecordInv
<1>. QED  BY <1>1, <1>2, <1>3, <1>4, <1>5, <1>6, <1>7 DEF Next, Reconciler

\* Each step of the controller is a step of CloudInitRecord on the
\* persisted cloud-init status, or leaves it and okRun alone: Observe may
\* run the script to exit 0 (ScriptSucceeds); the status write records
\* the move Observe made in memory (Defer, Complete or Fail).
LEMMA RecordRefines ==
  ASSUME Inv, RecordInv, [Next]_vars
  PROVE  [Record!Next]_Record!recVars
<1>1. CASE Observed
  <2>1. PICK code \in {GetCode} \cup ApiFaults, ipOK \in BOOLEAN,
             o \in SessionOutcomes : ObserveStep(code, ipOK, o)
    BY <1>1 DEF Observed
  <2> DEFINE r == Observe(st, code, ipOK, o)
  <2>2. UNCHANGED st /\ okRun' = (okRun \/ (r.exec /\ o = "exit0"))
    BY <2>1, Zenon DEF ObserveStep, crVars
  <2>3. okRun \in BOOLEAN
    BY DEF Inv, TypeBools
  <2>4. okRun' = okRun \/ okRun' = TRUE
    BY <2>2, <2>3, Zenon
  <2>. QED  BY <2>2, <2>3, <2>4, Zenon DEF Record!Next, Record!ScriptSucceeds,
                                   Record!recVars
<1>2. CASE WriteStatus
  <2>1. rpc = "write" /\ st' = mem /\ UNCHANGED okRun
    BY <1>2, Zenon DEF WriteStatus, orchardVars
  <2>2. CisStep(st.cis, mem.cis, okRun)
    BY <2>1 DEF RecordInv
  <2>3. CASE mem.cis = st.cis \/ (st.cis = "pending" /\ mem.cis = "pending")
    BY <2>1, <2>3 DEF Record!recVars
  <2>4. CASE st.cis = "" /\ mem.cis = "pending"
    BY <2>1, <2>4 DEF Record!Next, Record!Defer
  <2>5. CASE st.cis \in Record!Open /\ mem.cis = "failed"
    BY <2>1, <2>5 DEF Record!Next, Record!Fail
  <2>6. CASE st.cis \in Record!Open /\ mem.cis = "completed" /\ okRun
    BY <2>1, <2>6 DEF Record!Next, Record!Complete
  <2>. QED  BY <2>2, <2>3, <2>4, <2>5, <2>6 DEF CisStep, Record!Open
<1>3. CASE ~Observed /\ ~WriteStatus
  <2>1. UNCHANGED <<st, okRun>>
    BY <1>3, Zenon DEF Next, Reconciler, Environment, VMBoots, VMGetsIP,
                       GuestSSHUp, VMFails, UserEditsSpec, UserDeletes,
                       ConnectFails, ObserveFailed, Create, Update, UpToDate,
                       Delete, RemoveFinalizer, StatusWriteLost, vars,
                       orchardVars, crVars, recVars
  <2>. QED  BY <2>1 DEF Record!recVars
<1>. QED  BY <1>1, <1>2, <1>3

-----------------------------------------------------------------------------
(* Theorems.                                                               *)

\* The invariant holds in every reachable state of the controller, for
\* every bound on script runs and lost status writes.
THEOREM ControllerInvariant == Spec => []Inv
BY InitInv, NextInv, PTL DEF Spec

\* Every variable of the controller model keeps its type.
THEOREM ControllerTypeCorrect == Spec => []TypeOK
<1>1. Inv => TypeOK
  BY TypeSplit DEF Inv
<1>. QED  BY <1>1, ControllerInvariant, PTL

\* handleCloudInit never starts the startup script a second time unless a
\* status write was lost after the previous run: the script runs at most
\* once per lost write, plus once.
THEOREM RerunsNeedLostWritesThm == Spec => []RerunsNeedLostWrites
<1>1. Inv => RerunsNeedLostWrites
  BY DEF Inv, RerunInv, RerunsNeedLostWrites
<1>. QED  BY <1>1, ControllerInvariant, PTL

\* The reconciler removes the finalizer only when no VM is left in
\* Orchard: a deleted CR never orphans its VM.
THEOREM NoOrphanVMThm == Spec => []NoOrphanVM
<1>1. Inv => NoOrphanVM
  BY DEF Inv, OrphanInv, NoOrphanVM
<1>. QED  BY <1>1, ControllerInvariant, PTL

\* The Ready condition of a VM with a startup script says Available only
\* once the script has run to exit 0: handleCloudInit and
\* executeCloudInit never report a failed, pending or lost run as done,
\* whatever Orchard answers and whichever status writes are lost.
THEOREM AvailableMeansProvisionedThm == Spec => []AvailableMeansProvisioned
<1>1. Init => ProvisionInv
  <2> SUFFICES ASSUME Init PROVE ProvisionInv
    OBVIOUS
  <2>1. st = [ip |-> FALSE, cis |-> "", cond |-> "none"] /\ rpc = "idle"
    BY Zenon DEF Init
  <2>. QED  BY <2>1 DEF ProvisionInv, Done
<1>2. Inv /\ ProvisionInv /\ [Next]_vars => ProvisionInv'
  BY ProvisionStep
<1>3. ProvisionInv => AvailableMeansProvisioned
  BY DEF ProvisionInv, Done, AvailableMeansProvisioned
<1>. QED  BY <1>1, <1>2, <1>3, ControllerInvariant, PTL DEF Spec

\* The controller implements CloudInitRecord: the cloud-init status the CR
\* records goes from "" through "pending" to one final "completed" or
\* "failed", never records "running", never leaves a final status, and
\* says "completed" only after a run exited 0, whatever Orchard answers
\* and whichever status writes are lost, for every bound.
THEOREM CloudInitRecordThm == Spec => CloudInitRecordSpec
<1>1. Init => RecordInv /\ Record!Init
  <2> SUFFICES ASSUME Init PROVE RecordInv /\ Record!Init
    OBVIOUS
  <2>1. st = [ip |-> FALSE, cis |-> "", cond |-> "none"] /\ rpc = "idle"
        /\ okRun = FALSE
    BY Zenon DEF Init
  <2>. QED  BY <2>1 DEF RecordInv, Record!Init
<1>2. Inv /\ RecordInv /\ [Next]_vars => RecordInv'
  BY RecordStep
<1>3. Inv /\ RecordInv /\ [Next]_vars => [Record!Next]_Record!recVars
  BY RecordRefines
<1>4. Spec => [](Inv /\ RecordInv)
  BY <1>1, <1>2, InitInv, NextInv, PTL DEF Spec
<1>. QED  BY <1>1, <1>3, <1>4, PTL DEF Spec, CloudInitRecordSpec, Record!Spec

=============================================================================
