# Formal models of provider-orchard

TLA+ models of the Crossplane provider for Orchard, the orchestrator of
macOS VMs. The provider reaches a VM's SSH server through a WebSocket
port-forward of the Orchard API. It uses that path to check that a VM is
reachable, and to upload and run a startup ("cloud-init") script once
the VM is running. TLC checks the models on small instances, and TLAPS
proves the main safety properties for every value of the constants.

## The system and how its parts interact

| Part | Code | What it does |
|---|---|---|
| Stream adapter | `src/unnamed/part_001` (`wsNetConn`) | Presents a WebSocket connection, which carries whole binary messages, as a `net.Conn` byte stream for the SSH client. |
| Tunnel dial | `src/internal/ssh/tunnel.go`, `options.go` | Dials `…/vms/{name}/port-forward`, maps HTTP statuses to the sentinel errors, and wraps the connection in a `wsNetConn`. |
| VMSession | `src/internal/ssh/session.go` | SSH handshake over the stream, `ExecuteCommand`/`ExecuteScript`, `UploadFile` with a lazily created SFTP client, and `Close` (SFTP, then SSH, then stream). |
| Facades | `session.go` (`RunCloudInit`, `UploadAndRunScript`), `vm.go` (`isSSHReady`) | Open a session, use it once, close it on every path. |
| VM controller | `src/internal/controller/vm/vm.go` | Crossplane external client: `Observe` (which also runs cloud-init), `Create`, `Update` and `Delete` against the Orchard REST API. |

A reconcile of a VM CR calls `Observe`. Once the Orchard VM is running
and has an IP, `Observe` calls `handleCloudInit`. That calls
`isSSHReady` and `UploadAndRunScript`, and each of those opens a
`VMSession` over a freshly dialled `wsNetConn`. The cloud-init outcome
lives only in the CR status, which the crossplane-runtime reconciler
writes after `Observe` returns.

## Modules

| Module | Models | State | Actions |
|---|---|---|---|
| `ByteStream` | What a `net.Conn` promises its reader (abstract). | bytes sent, bytes received, local close, peer hang-up, read failed | `PeerWrite`, `PeerHangUp`, `Recv`, `CloseLocal`, `Fail` |
| `SessionLifecycle` | What a `VMSession` promises its caller (abstract). | `life` (new, ready, failed, closed), `busy` (a call in progress), `held` (some connection, client, channel or file open) | `Begin`, `Work`, `Opened`, `OpenFailed` (holding nothing), `Return` (holding the connection), `Closed` (holding nothing, final) |
| `CloudInitRecord` | What the CR's recorded cloud-init status promises (abstract). | the recorded status `cis`, and `ok` (some run exited 0) | `ScriptSucceeds`, `Defer` (`""` to `pending`), `Complete` (only after `ok`), `Fail`; `completed` and `failed` are final |
| `WsNetConn` | `wsNetConn` with the WebSocket library's message reader, and the peer. | the bytes the peer sent (`sent`) and its message boundaries (`ends`), `fetched` messages, the carry-over reader (`reader`, `rpos`), `got`, Write's `out`, `ctxDone`, `wsClosed` | `PeerSend`, `PeerClose`, `ReadPartial` (lines 59-73), `ReadPartialCanceled`, `ReadNext` (75-81), `ReadNextFails`, `Write`, `Close`, `ParentCancel` |
| `VMSession` | One session: `NewVMSession` with `dialWebSocket`, `ExecuteCommand`/`ExecuteScript`, `UploadFile` with `ensureSFTP`, and `Close`. | `phase`, the step of the method in progress, each resource (`ws`, `sshc`, `sftpc`, `chan`, `file`) as none/open/closed (the file also closed-with-error), `closeErrs`, `ret`, `calls` | one action per blocking library call (`Dial`, `Handshake`, `NewSession`, `Run`, `EnsureSftp`, `Mkdir`, `Create`, `Copy`, `Chmod`, `CloseSftp`, `CloseSsh`, `CloseWs`); any of them may fail |
| `SessionFacade` | `RunCloudInit`, `UploadAndRunScript` and `isSSHReady`, each a sequential program over `VMSession`. | `fn`, `fpc`, `fret` | `FOpen`, `FOpenFailed`, `FUpload`, `FExecute`, `FClose`, `FDone` |
| `VMController` | `Observe` (`handleObserveResponse`, `updateVMStatus`, the IP fetch, `handleCloudInit`, `executeCloudInit`), `Create`, `Update`, `Delete`, and a failing `Connect`, driven by the reconciler. | Orchard: `vm`, `vmIP`, `sshUp`, `drift`, and the script's `runs`/`okRun`/`lastRun`. The CR: `script`, `ext`, `deleting`, `gone`, persisted status `st`. The reconcile: `rpc`, in-memory status `mem`, `obs`, `lost`. | Environment: `VMBoots`, `VMGetsIP`, `GuestSSHUp`, `VMFails`, `UserEditsSpec`, `UserDeletes`. Reconciler: `ConnectFails`, `ObserveStep`, `ObserveFailed`, `Create`, `Update`, `UpToDate`, `Delete`, `RemoveFinalizer`, `WriteStatus`, `StatusWriteLost`. |
| `WsNetConn_proofs`, `WsNetConn_refinement`, `VMSession_proofs`, `SessionFacade_proofs`, `VMController_proofs` | TLAPS proofs. | | |
| `MC_*` | Instances for TLC. | | |

`PROJECT.json` maps every definition that models code to the source
lines it translates.

Modelling choices:

- **Stream history.** The peer's messages are kept as one immutable
  history `sent` with boundaries `ends`, not as a queue. That lets a
  property compare what `Read` returned with what was sent.
- **Library behaviour.**
  - The message reader of the WebSocket library returns between 1 and
    `min(len(b), left)` bytes, and then `(0, io.EOF)`.
  - Closing the SSH client closes the `net.Conn` it runs on.
  - A second `ws.Close` fails.
  - Closing the remote file may fail: `f.Close()` sends `SSH_FXP_CLOSE`
    and the server's close of the written file can report an error.
- **Crossplane reconciler.** crossplane-runtime is not part of this
  repository. It is modelled as the environment:
  - one reconcile at a time;
  - Connect, then Observe, then Create, Update, Delete or finalizer
    removal;
  - a final status write carrying every change Observe made, which may
    be lost to a conflict or a restart, and which is the only way status
    persists;
  - `Create` persists the external name with the critical annotations,
    whatever `PostVms` returns.
- **Sessions in the controller** are abstracted to what the facades
  return. `isSSHReady` is true once sshd is up. `UploadAndRunScript`
  ends in exit 0, a non-zero exit, an error before the script started,
  or an error while it ran.

## Runs

| Run | Expect | Checks | States | What it shows |
|---|---|---|---|---|
| `wsconn_stream` | pass | `StreamIntegrity`, `AllSentDelivered` | 74,184 | `Read` never loses, duplicates or reorders a byte across message boundaries, whatever the buffer sizes (1, 2) cut messages of 0-2 bytes. With the read loop running, every byte is eventually returned. |
| `wsconn_refines` | pass | `ByteStreamSpec` | 59,660 | With non-empty messages, `wsNetConn` implements `ByteStream`. This includes `Close` and `ParentCancel` racing a `Read`. |
| `wsconn_emptymsg` | violation | `ByteStreamSpec` | | An empty binary message makes `Read` return `io.EOF` mid-stream. |
| `session` | pass | `TypeOK`, `CloseOrder`, `SessionLifecycleSpec` | 1,525 | `Close` closes SFTP, then SSH, then the stream, and goes on after failures. The session implements `SessionLifecycle`, so a failed `NewVMSession` holds nothing and `Close` releases every layer. |
| `session_close_error` | violation | `CloseErrorsAreReal` | | `Close` reports an error on the happy path, from the second `ws.Close`. |
| `session_upload_close` | violation | `UploadCloseErrorReported` | | `UploadFile` returns nil when the deferred `f.Close()` of the written file fails. |
| `facades` | pass | `NoLeakOnReturn` | 331 | No facade returns with a connection, client, channel or file open, on any path. |
| `facades_timeout` | violation | `TimeoutReported` | | A deadline is never reported as `ErrTimeout`. |
| `controller` | pass | `AvailableMeansProvisioned`, `RerunsNeedLostWrites`, `NoOrphanVM`, `CloudInitSettles`, `CloudInitRecordSpec` | 14,164 | See below. |
| `controller_transient` | violation | `TransientErrorsRetried` | | A session error marks cloud-init failed for good. |
| `controller_rerun` | violation | `ScriptRunsOnce` | | A lost status write after the script ran makes the next reconcile run it again. |
| `controller_delete` | violation | `NoRunOnDeletion` | | `Observe` starts the startup script on a VM whose CR is being deleted. |

The `controller` run shows five things:

- Available is reported for a VM with a script only if the script
  exited 0.
- The script reruns only after a lost status write.
- A CR whose finalizer was removed leaves no VM in Orchard.
- Once the VM is running with an IP and sshd is up, the cloud-init
  outcome is eventually recorded.
- The recorded cloud-init status implements `CloudInitRecord`. It goes
  from `""` through `pending` to one final `completed` or `failed`, and
  is `completed` only after a run exited 0. Lost writes and reruns do
  not change this. A failed status that was executed again would break
  it.

Each property of a passing run has a mutant in `PROJECT.json`: a
plausible bug in the mapped code that TLC catches with the run's own
configuration. Examples:

- not keeping the message reader in `c.reader` (`part_001:80`), so the
  rest of a message longer than the buffer is lost;
- not closing the `wsNetConn` when the SSH handshake fails;
- closing SSH before SFTP;
- taking a 500 from Orchard for "not found".

All runs set `CHECK_DEADLOCK FALSE`, each for a real reason:

- the peer and the caller stop sending;
- a session has a bounded number of calls;
- a facade returns;
- a deleted CR is never reconciled again.

### Bounds and why they suffice

- **`WsNetConn`.** Two byte values, messages of 0 to 2 bytes, buffers
  of 1 and 2 bytes, 3 messages, 1 write. Every relation between a
  message and a buffer occurs: shorter, equal, longer, and empty. A
  message split across two Reads is followed by a further message.
- **`VMSession`.**
  - Dial outcomes: ok, 404, 503, 400, 500, no response, deadline.
  - Exit codes 0 and 42.
  - Up to 5 calls. That is enough for open, an upload creating SFTP, a
    second upload reusing it, and Close, each failing at any step.
- **`VMController`.** A VM with and without a script, and every Orchard
  and API outcome. There is one lost status write, and three runs, so
  the cap never binds for correct code. `MaxLost = 1` reaches the rerun
  and a later successful write. The inductive invariants were also
  checked with `MaxLost = 2` (32,063 states).

### Fairness

- **`WsNetConn`: `WF(ReadStep)`.** The SSH transport's read loop calls
  `Read` again as long as it got no error. The peer and the caller are
  left unfair.
- **`VMController`.** The reconciler polls a CR while it exists
  (`WF(Reconciler)`). A GET of the VM, with its IP, gets through
  whenever reconciles keep coming (`SF` on a successful
  `ObserveStep`): API faults are transient, and the poll interval
  retries. Lost writes are bounded. Orchard and the user are left
  unfair; `CloudInitSettles` assumes the VM running with an IP and sshd
  up.

## What is proved (TLAPS)

All proofs check with `tlapm` (306 obligations in `WsNetConn_proofs`,
238 in `WsNetConn_refinement`, 579 in `VMController_proofs`, 175 in `VMSession_proofs`, 100 in
`SessionFacade_proofs`).

**`WsNetConn_proofs`**

- The assumptions are `Messages ⊆ Seq(Byte)`, `BufSizes ⊆ Nat \ {0}`
  and `MaxMsgs, MaxWrites ∈ Nat`.
- `ReadInvariant: Spec => []ReadInv`. `ReadInv` is `TypeOK` plus four
  facts:
  - `got` has length `rpos` and is the prefix of `sent`;
  - message ends are monotone and within `sent`;
  - `rpos` lies within the message the reader holds;
  - without a reader, `rpos` is at that message's end.
- The strengthening is needed because `StreamIntegrity` says nothing
  about the carry-over reader. A Read that continues a message is
  correct only because `rpos` tracks where the last one stopped.
- From it: `TypeCorrect` and `StreamIntegrityThm`
  (`StreamIntegrity`), for every number and size of messages and
  buffers.
- Sequence lemmas about `SubSeq` and `\o` are proved in the module
  itself. The library's `SequenceTheorems` reaches a recursive operator,
  so the module cannot use it.

**`WsNetConn_refinement`**

- `ByteStreamRefinement: ASSUME NoEmptyMessages PROVE Spec => ByteStreamSpec`.
  `NoEmptyMessages` (`<<>> \notin Messages`) is a hypothesis of the
  theorem, not an assumption of the module. The `wsconn_emptymsg` run
  shows that the refinement fails without it (finding 1).
- The inductive invariant `RefInv` is `ReadInv` plus two facts about
  the message boundaries. TLC checked it on the `wsconn_refines`
  instance (59,660 states) before the proof.
  - `SentEnds`: the last message ends at the end of `sent`. This makes
    a failed `ws.Reader` after the peer's close frame the end of the
    stream (`got = sent`), which `Fail` requires.
  - `StrictEnds`: every message ends after the previous one. This makes
    every `ReadNext` return at least one byte, so it is a `Recv`.
- The step proof has one lemma per action:
  - `PeerSend` is `PeerWrite`;
  - `ReadPartial` and `ReadNext` are `Recv`;
  - `ReadPartialCanceled` and `ReadNextFails` are `Fail`;
  - `Close` and `ParentCancel` are `CloseLocal` or a stutter;
  - `PeerClose` is `PeerHangUp`;
  - `Write` is a stutter.
- The last step combines them by PTL, as in the TLAPS two-phase example.

**`VMController_proofs`**

- The assumption is `MaxRuns, MaxLost ∈ Nat`.
- Lemmas about the handlers:
  - `executeCloudInit` records completed or failed whenever it runs the
    script;
  - `handleCloudInit` executes only from `""` or `"pending"`;
  - `Observe` yields "no VM, no error" only from a 404 or a missing
    external name.
- `ControllerInvariant: Spec => []Inv`, where `Inv` is `TypeOK`,
  `RerunInv` and `OrphanInv`.
  - `RerunInv`: whenever the status the next reconcile will read asks
    for an execution, `runs <= lost`. It is needed because right after
    a run the outcome is only in `mem`.
  - `OrphanInv`: without an external name there is no VM. From an
    Observe that saw no VM until the reconcile ends, there is no VM.
    Once the CR is gone, no reconcile runs.
- From it: `ControllerTypeCorrect`, `RerunsNeedLostWritesThm` and
  `NoOrphanVMThm`, for every bound.
- `AvailableMeansProvisionedThm`. The property is not inductive:
  `Available` is first set in the in-memory status, and a persisted
  `"completed"` makes the next `handleCloudInit` set `Available`
  without running anything. `ProvisionInv` says that the persisted
  status, and the in-memory one during a reconcile, are "done"
  (Available or completed) for a VM with a script only if `okRun`.
  The handler lemmas show that `Observe` reports "done" only when its
  input status already was, or when it has just run the script to exit
  0 (`updateVMStatus` never sets Available and leaves the cloud-init
  status alone). The theorem combines this with `ControllerInvariant`.
- `CloudInitRecordThm: Spec => CloudInitRecordSpec`. The persisted
  status `st.cis` and `okRun` implement `CloudInitRecord`. The
  refinement is not step by step on `st`, because `Observe` computes
  the new status in memory and the reconciler writes it at the end.
  `RecordInv` carries that:
  - the in-memory status is a move `CloudInitRecord` allows from the
    persisted one (`CisStep`);
  - the persisted status is never `running`;
  - a persisted `completed` implies `okRun`.
  The handler lemmas `ExecuteRecord`, `HandleCloudInitRecord` and
  `ObserveRecord` show that `Observe` makes only such moves. Then
  `Observe` maps to `ScriptSucceeds` or a stutter, `WriteStatus` to
  `Defer`, `Complete`, `Fail` or a stutter, and every other step to a
  stutter. TLC checked `RecordInv` before the proof.

**`VMSession_proofs`**

- The assumptions are `0 ∈ ExitCodes ⊆ Nat`, `MaxCalls ∈ Nat` and
  `"ok" ∈ DialOutcomes`.
- `SessionInvariant: Spec => []SessionInv`, where `SessionInv` is
  `TypeOK`, `HalfOpenInv` and `CloseInv`.
  - `HalfOpenInv`: before `NewVMSession` returns there is no SSH or
    SFTP client, and the `wsNetConn` is open only during the handshake.
    A failed session has no step in progress. This is needed because
    "a failed session holds nothing" speaks only of the failed phase,
    and the failure comes from a step that started earlier.
  - `CloseInv`: the exec channel is open only during `Run`, and the
    file only between `Create` and its deferred close. During `Close`,
    every layer above the one being closed is already closed. A closed
    session has nothing open.
- From it: `SessionTypeCorrect` and the action
  property `CloseOrderThm`, for every caller of the session and every
  bound on calls.
- `SessionLifecycleThm: Spec => SessionLifecycleSpec`. The mapping is
  `life <- phase`, `busy <- step # "idle"`, and `held <- "open" \in
  {ws, sshc, sftpc, chan, file}`. `LifeInv` adds two facts to
  `SessionInv`, and TLC checked it first:
  - the handshake runs on an open `wsNetConn`;
  - an opened session keeps its SSH client open until `CloseSsh`.
  With these facts:
  - a call is `Begin`;
  - a step inside a method is `Work`;
  - the end of the handshake is `Opened` or `OpenFailed`, and a failed
    dial is `OpenFailed`;
  - the end of a method is `Return`, with the SSH client still held;
  - `CloseWs` is `Closed`: `CloseInv` shows that nothing else is open
    then.

**`SessionFacade_proofs`**

- `NoLeakOnReturnThm: FSpec => []NoLeakOnReturn`. `FacadeInv` ties the
  facade's program counter to the session. After `Close` is called, the
  session is closing or closed. A facade returns only with no step in
  progress, from a failed open or a closed session. With `SessionInv`,
  that leaves nothing open.
- `FacadeIsSessionCaller: FSpec => Spec`. Every facade step is a
  caller step of `VMSession` (`FOpen` is `CallNewVMSession`, `FExecute`
  is `CallExecute`, `FUpload` is `CallUploadFile(TRUE, TRUE)`, `FClose`
  is `CallClose`), a session step, or a return that leaves the session
  alone. So every theorem about the session holds for the session a
  facade drives. In particular:
- `FacadeLifecycleThm: FSpec => SessionLifecycleSpec` follows from it
  and `SessionLifecycleThm`.

## Checked by TLC only

- **Liveness:** `AllSentDelivered`, `CloudInitSettles`. The prover does
  not handle fairness or `ENABLED`.
- **Refinement:** none. `ByteStreamSpec`, `SessionLifecycleSpec` and
  `CloudInitRecordSpec` are all proved. `ByteStreamSpec` is proved under `NoEmptyMessages`, the
  hypothesis the `wsconn_refines` run also makes.
- **The findings.** The violation runs show them as TLC traces; they
  are not theorems.

## Findings

1. **Empty messages end the stream** (`part_001:81`). A zero-length
   binary message is returned to the SSH client as `io.EOF`, which ends
   the transport.
2. **`Close` fails when nothing failed** (`session.go:251`). The SSH
   client has already closed the `wsNetConn`, so the second
   `ws.Close` fails and `Close` returns "errors during close" on every
   clean teardown.
3. **`ErrTimeout` is never returned** (`options.go:29`, `tunnel.go:65`).
   A deadline surfaces as a connection or SSH error.
4. **Session errors fail cloud-init permanently** (`vm.go:692`). An
   error from `UploadAndRunScript` marks cloud-init failed, and it is
   never retried. The spec calls such errors transient.
5. **A lost status write reruns the script** (`vm.go:675`). The
   `running` status is never persisted, so the running guard of
   `handleCloudInit` is dead. A lost status write after the script ran
   makes the next reconcile run it again.
6. **An upload whose close failed is reported as done**
   (`session.go:212`). `UploadFile` closes the remote file with
   `defer f.Close()` and drops the error. A failed close on the server
   leaves `UploadFile` returning nil, and `UploadAndRunScript` goes on
   to execute a script whose upload was not confirmed.
7. **Deletion races the first cloud-init run** (`vm.go:287`). The
   reconciler calls `Observe` before `Delete`, and `Observe` runs the
   startup script on any running VM with an IP. A CR deleted before
   cloud-init ran gets its script executed on the VM about to go.
   crossplane-runtime's contract says `Observe` must not modify the
   external resource.

## Not modelled

- **Left out of the modules:**
  - the Orchard REST client (`orchard.go`), whose calls enter as
    outcomes;
  - `Setup`/`SetupGated`;
  - `buildVMSpec`, `getSSHCredentials`, `buildTunnelConfig`,
    `buildWebSocketURL`, `SetDefaults`, `truncateMessage`: data and
    formatting glue;
  - the shell quoting of `ExecuteScript`;
  - the older controller in `part_000`;
  - the Makefile and the e2e scripts.
- **Concurrency inside `VMSession`.** The model runs one call at a
  time. The session is documented as not safe for concurrent use, and
  every caller is sequential.

## Plan

- State an abstract specification of a facade call (one call that
  returns holding nothing) and prove `SessionFacade` refines it; the
  session side is done (`FacadeIsSessionCaller`).
- Model the reconciler's create-pending annotations, whose loss could
  orphan a VM, once crossplane-runtime's behaviour is pinned down.
- Compose `VMController` with `SessionFacade` instead of the abstract
  session outcomes.
