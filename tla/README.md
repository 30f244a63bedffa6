# TLA+ models of the tpm2-tss command path

This directory holds TLA+ models of the TPM2 software stack's command path as it
appears in this source tree. It also holds the TLC configurations that
model-check the models, and TLAPS proofs of the main safety properties.

## The system and its parts

A caller drives a TPM through three layers.

* **ESAPI** (`src/src/tss2-esys/api/Esys_PCR_SetAuthPolicy.c`) has one
  `ESYS_CONTEXT` per connection. `_Async` checks that the context is in
  `Init`. It prepares the command through SAPI, computes the session
  authorizations and sends the command; the state becomes `Sent`. `_Finish`
  receives the answer and classifies it:
  * not ready: `TRY_AGAIN`, and the state stays `Sent`;
  * RETRY, TESTING or YIELDED: the command is resubmitted, up to
    `ESYS_MAX_SUBMISSIONS` times;
  * any other TPM error: the state returns to `Init`;
  * a transport or structural error: the state becomes `InternalError`;
  * success: the HMAC check and SAPI `Complete` run.

  The one-call function `Esys_PCR_SetAuthPolicy` calls `_Async`. It then sets
  the timeout to "block", loops on `_Finish` while the result is `TRY_AGAIN`,
  and restores the timeout.
* **SAPI** (`src/src/tss2-sys/api/Tss2_Sys_*.c`, eight commands) works on one
  `TSS2_SYS_CONTEXT`.
  * `Tss2_Sys_<Cmd>_Prepare` checks pointers. It then runs
    `CommonPreparePrologue` and marshals each parameter, returning early on
    any failure. A NULL TPM2B is written as `UINT16 0`, and in some files this
    also sets `decryptNull`. Finally it stores `decryptAllowed`,
    `encryptAllowed` and `authAllowed` and calls `CommonPrepareEpilogue`.
  * `_Complete` calls `CommonComplete` and unmarshals the outputs.
  * The one-call function runs Prepare, then `CommonOneCall`, then Complete.
* **The HMAC integration test** (`src/test/integration/esys-hmac.int.c`) is
  one program using ESAPI. It creates a primary keyed-hash object, sets its
  auth value, computes an HMAC, verifies it and flushes the object. Every
  failure jumps to a cleanup that flushes the object if `CreatePrimary`
  returned a handle.
* **The TPM behind a transport.** In the tests this is
  `src/test/helper/tpm_cmd_tcti_dummy.c`, a child process. It reads one command
  from stdin and writes a canned response: good, a header size smaller than
  the payload, a size bigger than the payload, or a response shorter than a
  header.

The SAPI `Common*` functions, `Tss2_Sys_ExecuteAsync`/`ExecuteFinish`, the
`Tss2_MU_*` wire codec and the session engine are not in this tree. Where the
models need them, they are modelled from the contract in `spec.md`. Their map
entries are marked `spec_modelled`.

## Modules

| Module | Models | State |
|---|---|---|
| `EsysCommand` | ESAPI Async/Finish and the one-call loop, the SAPI stage, the transport and the TPM | `state`, `submissionCount`, `timeout` (the context's fields); `stage` (SAPI `previousStage`); `toTpm`/`fromTpm` (the FIFO transport); `caller`, `savedTimeout` (the one-call wrapper); ghost counters `sent`, `executed` and the set of handed-out `outputs` |
| `EsysCommandAbstract` | what one ESAPI context promises: commands one after the other, each acted on at most once, a result only after the TPM acted and only once | `current`, `done`, `results` |
| `EsysCommandProofs` | TLAPS proofs about `EsysCommand` | — |
| `EsysRefinementProofs` | TLAPS proof that `EsysCommand` implements `EsysCommandAbstract` | — |
| `EsysHmacTest` | the HMAC test on top of `EsysCommand` | `pc` (the test's program point), `primaryHandle`, `kind` (the command each Async call prepared), `loaded` (the TPM's object table) |
| `EsysHmacTestProofs` | TLAPS proofs about `EsysHmacTest` | — |
| `SysContractAbstract` | what the SAPI promises the caller of one context: the held command, its phase (idle, prepared, in flight, answered) and which command the held answer belongs to; a transmit may fail and leave the command prepared, and a TPM error sends it back to prepared | `held`, `phase`, `answer` |
| `SysCommandsProofs` | TLAPS proofs about `SysCommands`, including that it implements `SysContractAbstract` | — |
| `SysCommands` | the eight SAPI command files on one context | `stage`, `cmd`, the three capability flags, `decryptNull` (the context's fields); ghosts `firstParamNull` (the caller's first argument was NULL) and `sentCmd` (the command code the last exchange carried); `rspRc`, `rc` |
| `MCEsysCommand`, `MCSysCommands`, `MCEsysHmacTest` | constant values for TLC | — |

### EsysCommand

Each function of the C file is one action or a disjunct of one, guarded by the
function's checks and early returns:

* `Async` is `_Async`. It has the BAD_SEQUENCE return, the early error returns
  and the transmit. The early returns (session feasibility, handle lookup,
  Prepare, session table, auths) become the constant set `AsyncFaults`. Each
  fault leaves the SAPI stage where the code leaves it.
* `Finish` is `_Finish`. Its outcome sub-actions are `NotReady`, `Resubmit`,
  `TpmErrorReturn`, `OtherErrorReturn` and `CheckAndComplete`, in the order of
  the code's `if` chain.
* `OneCallBegin` and `OneCallFinish` are the one-call function. The `do ...
  while` loop is one `OneCallFinish` step per iteration, and the timeout is
  restored when the loop exits.
* `TpmExecute` is the TPM. It takes the oldest command and appends an answer
  from `Answers`. `Answers` contains the dummy TCTI's response shapes and the
  response codes a real TPM returns. A RETRY-class answer means the TPM did not
  act on the command.
* Command identity is the number of the Async call. A response carries the id
  of the command it answers, so a late answer is visible.

The refinement mapping sends `current` to `cmd`, `done` to the commands with a
positive `executed` count, and `results` to the commands of `outputs`. A
resubmission, a not-ready answer, a TPM error and all transport traffic are
abstract stutters.

### EsysHmacTest

The test is one thread. Each ESAPI call goes through `OneCallBegin` and
`OneCallFinish` of `EsysCommand`, so every retry, timeout and resubmission of
the context happens inside the test's calls.
* `TestCall` is the call at a call site, and `TestFinish` is one iteration of
  its loop. When the call returns, `AfterCall` gives the next point: the
  `goto_if_error` to `error`, or the next statement.
* `TestSetAuth` is `Esys_TR_SetAuth`. It does not reach the TPM.
* `TestError` is the `error:` label. It flushes the object only when
  `primaryHandle` is set.
* `TestTpm` is `TpmExecute` with the object table. A successful
  `CreatePrimary` loads the object, and a successful `FlushContext` unloads
  it. The TPM's side is not in this tree, so it is `spec_modelled`.

### SysCommands

Each command file becomes a record. The record gives:

* how many marshal calls the Prepare body makes;
* whether the first parameter after the handle is an optional TPM2B;
* whether its NULL branch sets `decryptNull`;
* whether a required pointer is checked;
* how many unmarshal calls Complete makes, and whether the first one reads a
  TPM2B;
* the three flags.

`Prepare`, `Complete` and `OneCall` are the shape every file shares, written
once. `BadReference`, `PrologueBadSequence` and `MarshalFailure` are the early
returns; `PrepareOk` is the full body. A marshal failure is chosen
nondeterministically at any of the body's calls.

The exchange follows the SAPI contract of `spec.md`, with the transport
abstracted to its outcomes. `ExecuteAsync` sends a prepared command, or fails
with a transport error and leaves it prepared (the TPM may already have read
it, so the last command the TPM saw is either one). `ExecuteFinish` reads a
response: success or a malformed response leaves the command `Received` for
`Complete`, a TPM error code sends it back to `Prepared`. A receive failure,
or `TRY_AGAIN` from a non-blocking call, leaves it `Sent`. `OneCall` is
Prepare, `ExecuteAsync`, `ExecuteFinish` and `Complete` in one step, and it
stops at whichever of them fails. The models do not track
buffer sizes. Any call can overflow for a large enough argument, so allowing a
failure at every call over-approximates the real cases.

## Runs

| Run | Checks | Result |
|---|---|---|
| `esys_command` (`MCEsysCommand.cfg`) | `TypeOK`, `OutputsMatchCommand`, `NoDuplicateExecution`, `ResubmissionBound`, `IInv`, `OneCallReturns`, `AbstractSpec`, `SendsOnlyUnexecuted`, `TimeoutRestored` under `FairSpec` | passes, 8121 states |
| `esys_resubmit_transport_failure` (`MCEsysCommandDispatch.cfg`) | `TransportFailureIsTerminal` | violated (finding 1) |
| `esys_hmac_test` (`MCEsysHmacTest.cfg`) | `TestTypeOK`, `TestSuccessSound`, `TestTerminates` under `TestSpec` | passes, 21502 states |
| `esys_hmac_cleanup` (`MCEsysHmacTestCleanup.cfg`) | `CleanupReleasesPrimary` | violated (finding 3) |
| `sys_commands` (`MCSysCommands.cfg`) | `TypeOK`, `FlagsMatchLayout`, `ResponseBelongsToCommand`, `ContractSpec` | passes, 2529 states |
| `sys_decrypt_null` (`MCSysCommandsDecryptNull.cfg`) | `DecryptNullWhenFirstNull` | violated (finding 2) |

What the properties say:

* `OutputsMatchCommand`: every result Finish hands out is the verified answer
  to the command the caller started, and each command has at most one result.
  Two mechanisms protect this. A failed Async transmit makes the context
  unusable. A resubmission happens only when the TPM did not act on the
  command.
* `NoDuplicateExecution`: the TPM never executes a command twice.
* `ResubmissionBound`: a command reaches the TPM at most
  `ESYS_MAX_SUBMISSIONS + 1` times. A retry code reaches the caller only after
  the last of those sends.
* `OneCallReturns`: the one-call loop ends.
* `AbstractSpec`: the context implements `EsysCommandAbstract`. No command is
  acted on after a later one started, and no result comes for an old command.
* `SendsOnlyUnexecuted` (an action property): every transmission, the first
  send of `_Async` (line 211) or a resubmission of `_Finish` (line 286),
  carries the current command, and only while the TPM has not executed it.
* `TimeoutRestored`: whatever timeout the context had, the one-call function
  gives it back on every return, the error returns included (lines 84-85 save
  it and set the blocking one, line 104 restores it before `return r`).
* `TestSuccessSound`: when the HMAC test returns `EXIT_SUCCESS`, the TPM
  executed `CreatePrimary`, `HMAC`, `VerifySignature` and `FlushContext`, in
  that order and each once, and the object is unloaded.
* `TestTerminates`: the test always returns.
* `FlagsMatchLayout`: while a command is prepared, in flight or answered,
  `decryptAllowed` and `encryptAllowed` match its parameter layout. Command
  decryption is allowed exactly when the first parameter is a TPM2B. Response
  encryption is allowed exactly when the first output is a TPM2B. A failed
  Prepare must not leave flags from an earlier command.
* `ResponseBelongsToCommand`: a received response belongs to the command the
  context holds. A Prepare that fails half way must not let Complete read the
  old response.
* `ContractSpec`: the context implements `SysContractAbstract` under the
  mapping `held <- cmd`, `phase <- PhaseOf[stage]`, `answer <- sentCmd`.
  A Prepare, whether it succeeds or not, begins its command, and only while
  none is in flight. Only a prepared command is sent. A failed transmit leaves
  the command prepared, and the TPM may or may not have read it. A TPM error
  code sends the command back to prepared, so that the same bytes can be sent
  again (the resubmission at `Esys_PCR_SetAuthPolicy.c:286`). A failed
  receive or a not-ready answer leaves it in flight. A failed Prepare leaves
  the new command idle, never answered with the old response. The one-call
  function answers exactly the command it prepared.

Each property of a passing run has a mutant in `PROJECT.json`, and TLC finds
the property violated under the mutant:

* the post-increment bound test written as `>`;
* the submission counter not reset to 0;
* resubmission on every TPM error;
* a failed transmit that leaves the context in `Init`;
* a loop condition of "until success";
* flags copied from another command;
* a prologue that does not reset the stage;
* the `goto_if_error` after `VerifySignature` dropped;
* a one-call function that restores the timeout only on success
  (`TimeoutRestored`);
* a prologue without the stage check (`ContractSpec`).

`SendsOnlyUnexecuted` is broken by the same "resubmit on every TPM error"
mutant as `NoDuplicateExecution`.

### Bounds

* `MCEsysCommand` has two commands, `ESYS_MAX_SUBMISSIONS = 2`, two retry
  codes, both transport errors, three Async faults, and the timeouts
  {block, 0}. That covers:
  * a resubmission that hits the bound, and one that does not;
  * a second command that starts while a late answer to the first could still
    be in the transport;
  * the not-ready path, which only a finite timeout reaches.

  The proofs cover every value of the constants.
* `MCSysCommands` has all eight commands and every combination of NULL
  arguments and failing marshal call. Every stage is reached, and every
  command follows every other one.

* `MCEsysHmacTest` has five commands (four calls and the cleanup flush) and
  `ESYS_MAX_SUBMISSIONS = 1`. It has one retry code, both transport errors,
  two Async faults, and the timeouts {block, 0}. Every call site can fail in
  each way, including after its command reached the TPM.

### Fairness

`FairSpec` assumes weak fairness of `OneCallFinish` and of `TpmExecute`.
* `OneCallFinish`: the one-call function is a single thread that calls
  `_Finish` again as long as the loop condition holds.
* `TpmExecute`: with the blocking timeout, `Tss2_Sys_ExecuteFinish` waits until
  the TPM answers, and the dummy TPM answers every command it reads.

`TestSpec` assumes weak fairness of the test's own steps, of `TestFinish` and
of `TestTpm`. The test is a single thread that runs to its return.

Direct calls of Async and Finish by the caller get no fairness, because a
caller may stop at any time. Both passing runs also check for deadlock. SysCommands
is never stuck: Prepare is always enabled except while a command is in flight,
and at that point ExecuteFinish is enabled.

## Findings

1. **The resubmit transmit failure is not terminal.** The code is
   `Esys_PCR_SetAuthPolicy.c:285-291`. When `Tss2_Sys_ExecuteAsync` fails
   during a resubmission, `_Finish` returns the transport error and the state
   stays `ESYS_STATE_RESUBMISSION`. The comment at line 289 says the state of
   `_async` is inherited, but line 285 has just set the state. The
   specification (4.4, 6) says a dispatch failure leaves the context in
   `InternalError`. In this state the caller may call `_Finish` again and
   wait for an answer to a command that may never have been sent.
2. **`decryptNull` is missing in two commands.** They are
   `Tss2_Sys_PCR_SetAuthValue.c:38-41` and `Tss2_Sys_EncryptDecrypt2.c:42-45`.
   Both commands allow decryption, and both marshal a NULL first TPM2B as
   `UINT16 0` without setting `decryptNull`. `PolicyAuthorize` and
   `SequenceComplete` do set it. The contract (4.2 step 2) says an absent
   optional parameter sets the flag so that parameter decryption skips it.

3. **The HMAC test's cleanup can leak the object.** The code is
   `esys-hmac.int.c:88-93` and `:140-144`. Suppose `Esys_CreatePrimary` fails
   with a transport error after its command reached the TPM. The TPM then
   creates the object, but `primaryHandle` stays `ESYS_TR_NONE`. The cleanup
   skips the flush, and the test returns with the object still loaded,
   although the cleanup exists to release it. A second path: a later call
   fails with a transport error, the context is left in `InternalError`, and
   the cleanup's `Esys_FlushContext` returns `BAD_SEQUENCE`, which is only
   logged. The shortest trace is one IO
   error on the `CreatePrimary` transmit.

## Proofs

`EsysCommandProofs` proves the following with TLAPS, for all constants that
satisfy `Assumptions` (`ESYS_MAX_SUBMISSIONS` and the command bound are
positive naturals, and the code sets are the ones named):
* `IInvInvariant` (`Spec => []IInv`);
* `TypeCorrect`;
* `OutputsMatchCommandInvariant`;
* `NoDuplicateExecutionInvariant`;
* `ResubmissionBoundInvariant`.

The safety properties are not inductive on their own. They talk about results
and execution counts, but whether the next step breaks them depends on what is
still in the transport. `IInv` adds that:
* `InvInFlight`: at most one message of the context is in the transport, only
  while a command is outstanding, and it belongs to the current command. A
  command in transit has not been executed. A RETRY-class answer in transit
  means the TPM did not act.
* `InvSubmissions`: earlier commands are frozen. The current command's sends
  equal `submissionCount + 1` while the last transmit succeeded.
* `InvOutputs`: there is one result per command, and the result of the current
  command ends its exchange.

The proof has three parts:
* `InitIInv`;
* one lemma per action and per Finish outcome (`AsyncIInv`, `NotReadyIInv`,
  `ResubmitIInv`, `TpmErrorReturnIInv`, `OtherErrorReturnIInv`,
  `CheckAndCompleteIInv`, `TpmExecuteIInv`), combined in `NextIInv`;
* a temporal step `BY PTL`.

Each property then follows from `IInv`.

`SysCommandsProofs` proves `SInvInvariant`, `FlagsMatchLayoutInvariant`
and `ResponseBelongsToCommandInvariant` for every
set of commands drawn from the eight files and every pair of non-empty
marshal and unmarshal error sets. `ResponseBelongsToCommand` alone is not
inductive. `ExecuteFinish` keeps it only if the command in flight is already
the held one, and `FlagsMatchLayout` needs `cmd` to name a command of the set.
`SInv` adds both facts:
* outside `"Initialized"`, `cmd` is a code of the set;
* in `"Sent"` or `"Received"`, `sentCmd = cmd`.

The proof has three parts:
* lemmas about the command table: `CommandFacts` (each file's flags follow
  its layout), `CodesUnique` and `DescOfCode`;
* one lemma per action;
* the PTL step.

`EsysRefinementProofs` proves `RInvInvariant` and `Refinement`
(`Spec => AbstractSpec`). The mapped `Execute` and `Deliver` steps need one
more fact on top of `IInv`. `InvAnswered` says a well-formed success answer in
the transport is for a command the TPM acted on. With it, `CheckAndComplete`
hands out a result only for an executed command. The proof shows that
`InitRefines` holds and that each action maps to an abstract step or a
stutter (`AsyncRefines`, `FinishRefines`, `TpmExecuteRefines`). A PTL step
then concludes.

`SysCommandsProofs` also proves `TypeCorrect` from `SInv`, and
`ContractRefinement` (`Spec => ContractSpec`). The refinement needs only
`TypeOK`, so that `previousStage` has a phase. `InitContract` maps the first
state. One lemma per action gives the abstract step:
* a failed or complete Prepare is `Begin`;
* a successful `ExecuteAsync` is `Send`, a failed one `SendFails`;
* `ExecuteFinish` with a response is `Receive`; a failed receive or
  `TRY_AGAIN` is a stutter;
* the one-call function is `Exchange`;
* an early return or `Complete` is a stutter (`ReturnOnlyContract`).

`ContractPromise` then proves `Spec => []Contract!AnswerIsHeld`: what the
mapped context has in flight or answered is the exchange of the held command.

`EsysCommandProofs` proves `TimeoutRestoredProperty`
(`Spec => TimeoutRestored`). For a fixed initial timeout `t`,
`TimeoutKept(t)` says `savedTimeout = t` and, while no one-call function is
running, `timeout = t`. It holds initially, and `NextTimeoutKept` shows every
action keeps it: `OneCallBegin` saves `t` and sets the blocking timeout,
`OneCallFinish` restores `savedTimeout` on every return, and no other action
touches either variable. A PTL step concludes.

`EsysCommandProofs` also proves the action property `SendsOnlyUnexecuted`
(`SendsOnlyUnexecutedProperty`) from `IInv`. `AsyncSends` and `FinishSends`
show the step property for each action, and a PTL step lifts it. The
resubmission case is the one that needs the invariant. `Outcome` says a retry
code can come only from a well-formed answer. `InvInFlight` says that such an
answer means the TPM did not act on the command.

`EsysHmacTestProofs` proves `TestSuccessSoundTheorem` and `TestTypeCorrect`
for every value of the constants. The test's steps are steps of the context
(`TestNextIsNext`), so `RInv` holds. `TestInv` adds the test's own facts:
* `InvProgress`: at a point reached without error, the first `Completed(pc)`
  commands are the expected ones, each executed once. Inside a call the
  current command is the next one. Between calls the context is back in
  `Init`.
* `InvCaller`: the test is inside a one-call loop only at a call site.
* `InvKinds`: no command beyond the current one was prepared.
* `InvLoaded`: a well-formed flush success in the transport means the TPM
  unloaded the object.

The key lemma is `FinishSuccess`. `_Finish` returns `SUCCESS` only after it
consumed a verified success answer to the current command, which the TPM
executed once.

Only TLC checks the following:
* **Liveness.** `OneCallReturns` depends on fairness and `ENABLED`, which the
  prover does not handle.
* **`TestTerminates`**, for the same reason.
* **The three findings.**

## Not modelled

* The wire codec: only the success or failure of each call is modelled.
* Session cryptography: HMAC verification is a bit of the response.
* The TCTI loader.
* The other integration tests.
* The dummy TCTI's process exits on malformed input. The client sees them as
  transport errors, and the model includes transport errors.
