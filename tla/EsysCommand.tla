---------------------------- MODULE EsysCommand ----------------------------
(***************************************************************************)
(* One ESYS_CONTEXT executing TPM2_PCR_SetAuthPolicy through the ESAPI     *)
(* Async / Finish state machine and its one-call wrapper                   *)
(* (src/tss2-esys/api/Esys_PCR_SetAuthPolicy.c), on top of the SAPI        *)
(* Prepare / ExecuteAsync / ExecuteFinish / Complete contract and a TPM    *)
(* reached through a FIFO transport.                                       *)
(*                                                                         *)
(* Data is abstracted: a command is the number of the Async call that      *)
(* prepared it, a response is a record of its response code, the shape of *)
(* its header and whether its response HMAC verifies.                      *)
(***************************************************************************)
EXTENDS Naturals, Sequences, Functions

CONSTANTS
    MaxSubmissions,   \* ESYS_MAX_SUBMISSIONS
    MaxCommands,      \* bound on the Async calls that prepare a command
    Timeouts,         \* the timeouts the caller may have configured
    RetryRcs,         \* TPM2_RC_RETRY, TPM2_RC_TESTING, TPM2_RC_YIELDED
    TransportErrors,  \* TCTI return codes of a failed transmit / receive
    AsyncFaults       \* the early error returns of the Async function

\* TSS2_TCTI_TIMEOUT_BLOCK: the one-call wrapper's "wait forever"
Block == -1

ASSUME Assumptions ==
    /\ MaxSubmissions \in Nat \ {0}
    /\ MaxCommands \in Nat \ {0}
    /\ Timeouts \subseteq Int
    /\ Block \in Timeouts
    /\ TransportErrors \subseteq {"TCTI_IO_ERROR", "TCTI_TRY_AGAIN"}
    /\ "TCTI_IO_ERROR" \in TransportErrors
    /\ RetryRcs # {}
    /\ RetryRcs \subseteq {"TPM_RC_RETRY", "TPM_RC_TESTING", "TPM_RC_YIELDED"}
    /\ AsyncFaults \subseteq {"MULTIPLE_DECRYPT_SESSIONS", "BAD_TR",
                              "PREPARE_FAILED", "SESSION_TAB", "GEN_AUTHS",
                              "SET_CMD_AUTHS"}

EsysStates == {"Init", "Sent", "Resubmission", "InternalError"}
SysStages  == {"Initialized", "Prepared", "Sent", "Received"}

\* Response codes a well-formed TPM response may carry.
TpmRcs == {"SUCCESS", "TPM_RC_FAILURE"} \cup RetryRcs

\* What the TPM (or a corrupted transport) can hand back for a command.
Answers ==
    [rc : TpmRcs, hdr : {"ok"}, hmacOk : BOOLEAN]
      \cup [rc : {"SUCCESS"}, hdr : {"short", "badsize"}, hmacOk : {TRUE}]

Responses == [id : 1..MaxCommands, rc : TpmRcs,
              hdr : {"ok", "short", "badsize"}, hmacOk : BOOLEAN]

\* Every code a call of the model can return to its caller.
RetCodes ==
    TpmRcs \cup TransportErrors \cup AsyncFaults
      \cup {"NONE", "BAD_SEQUENCE", "TRY_AGAIN", "INSUFFICIENT_RESPONSE",
            "MALFORMED_RESPONSE", "RSP_AUTH_FAILED"}

\* base_rc(r) == TSS2_BASE_RC_TRY_AGAIN, whatever layer r comes from.
IsTryAgain(r) == r \in {"TRY_AGAIN", "TCTI_TRY_AGAIN"}

\* iesys_tpm_error: a response code of the TPM layer.
IsTpmError(r) == r \in TpmRcs \ {"SUCCESS"}

VARIABLES
    state,            \* esysContext->state
    submissionCount,  \* esysContext->submissionCount
    timeout,          \* esysContext->timeout
    cmd,              \* the command in the SAPI command buffer
    stage,            \* the SAPI context's previousStage
    toTpm,            \* commands in the transport towards the TPM
    fromTpm,          \* responses in the transport towards the context
    caller,           \* "Idle", or "OneCall" inside the one-call loop
    savedTimeout,     \* timeouttmp of the one-call wrapper
    ret,              \* what the last call returned to the caller
    sent,             \* sent[c]: how often command c reached the TPM
    executed,         \* executed[c]: how often the TPM acted on c
    outputs           \* results handed out: [cmd |-> .., rsp |-> ..]

vars == <<state, submissionCount, timeout, cmd, stage, toTpm, fromTpm,
          caller, savedTimeout, ret, sent, executed, outputs>>

Init ==
    /\ state = "Init"
    /\ submissionCount = 0
    /\ timeout \in Timeouts
    /\ cmd = 0
    /\ stage = "Initialized"
    /\ toTpm = <<>>
    /\ fromTpm = <<>>
    /\ caller = "Idle"
    /\ savedTimeout = timeout
    /\ ret = "NONE"
    /\ sent = [c \in 1..MaxCommands |-> 0]
    /\ executed = [c \in 1..MaxCommands |-> 0]
    /\ outputs = {}

-----------------------------------------------------------------------------
(* SAPI and transport.                                                     *)

\* Tss2_Sys_ExecuteAsync on a prepared buffer holding command c: the
\* transmit either succeeds, or fails with a transport error after the
\* command did or did not reach the TPM.
ExecuteAsync(c, rc) ==
    \/ /\ rc = "SUCCESS"
       /\ toTpm' = Append(toTpm, c)
       /\ sent' = [sent EXCEPT ![c] = @ + 1]
    \/ /\ rc \in TransportErrors
       /\ \/ /\ toTpm' = Append(toTpm, c)
             /\ sent' = [sent EXCEPT ![c] = @ + 1]
          \/ UNCHANGED <<toTpm, sent>>

\* The SAPI stage after ExecuteAsync returned rc.
StageAfterSend(rc) == IF rc = "SUCCESS" THEN "Sent" ELSE "Prepared"

\* Classification of a received response by its header before anything
\* else is read from it.
ResponseRc(r) ==
    CASE r.hdr = "short"   -> "INSUFFICIENT_RESPONSE"
      [] r.hdr = "badsize" -> "MALFORMED_RESPONSE"
      [] OTHER             -> r.rc

NoRsp == [id |-> 0, rc |-> "NONE", hdr |-> "none", hmacOk |-> FALSE]

\* The outcomes of Tss2_Sys_ExecuteFinish(sys, timeout): the return code
\* and the response consumed from the transport (NoRsp if none).
ReceiveOutcomes ==
    IF stage # "Sent"
    THEN {[rc |-> "BAD_SEQUENCE", rsp |-> NoRsp]}
    ELSE {[rc |-> "TCTI_IO_ERROR", rsp |-> NoRsp]}
         \cup (IF fromTpm = <<>> /\ timeout # Block
               THEN {[rc |-> "TRY_AGAIN", rsp |-> NoRsp]} ELSE {})
         \cup (IF fromTpm # <<>>
               THEN {[rc |-> ResponseRc(Head(fromTpm)), rsp |-> Head(fromTpm)]}
               ELSE {})

\* The SAPI stage after ExecuteFinish: a TPM error response leaves the
\* command buffer ready to be sent again.
StageAfterReceive(o) ==
    IF o.rsp = NoRsp THEN stage
    ELSE IF IsTpmError(o.rc) THEN "Prepared" ELSE "Received"

-----------------------------------------------------------------------------
(* ESAPI: Esys_PCR_SetAuthPolicy_Async.                                    *)

\* Mutant of CheckSequenceAsync: the counter restarts at 1.
CheckSequenceAsyncOne ==
    /\ state = "Init"
    /\ submissionCount' = 1

\* iesys_check_sequence_async: a new command starts only from "Init" and
\* with its submission counter reset.
CheckSequenceAsync ==
    /\ state = "Init"
    /\ submissionCount' = 0

\* Mutant of StateAfterAsyncSend: a failed transmit leaves the context
\* reusable although the command may have reached the TPM.
StateAfterAsyncSendInit(rc) == IF rc = "SUCCESS" THEN "Sent" ELSE "Init"

\* The state Async leaves after Tss2_Sys_ExecuteAsync returned rc.
StateAfterAsyncSend(rc) == IF rc = "SUCCESS" THEN "Sent" ELSE "InternalError"

Async ==
    \/ /\ state # "Init"
       /\ ret' = "BAD_SEQUENCE"
       /\ UNCHANGED <<state, submissionCount, cmd, stage, toTpm, fromTpm,
                      sent, executed, outputs>>
    \/ /\ CheckSequenceAsync
       /\ cmd < MaxCommands
       /\ cmd' = cmd + 1
       /\ UNCHANGED <<fromTpm, executed, outputs>>
       /\ \/ \E f \in AsyncFaults :
                /\ ret' = f
                /\ state' = "Init"
                /\ stage' = CASE f \in {"MULTIPLE_DECRYPT_SESSIONS", "BAD_TR"}
                                   -> stage
                              [] f = "PREPARE_FAILED" -> "Initialized"
                              [] OTHER -> "Prepared"
                /\ UNCHANGED <<toTpm, sent>>
          \/ \E rc \in {"SUCCESS"} \cup TransportErrors :
                /\ ExecuteAsync(cmd', rc)
                /\ stage' = StageAfterSend(rc)
                /\ state' = StateAfterAsyncSend(rc)
                /\ ret' = rc

-----------------------------------------------------------------------------
(* ESAPI: Esys_PCR_SetAuthPolicy_Finish.                                   *)

\* Mutant of IsResubmitRc: every TPM error triggers a resubmission.
IsResubmitRcAny(r) == IsTpmError(r)

\* The retry-class codes on which Finish resubmits the command (line 277).
IsResubmitRc(r) == r \in RetryRcs

\* ExecuteFinish reported TRY_AGAIN (no response yet): wait again.
NotReady(o) ==
    /\ IsTryAgain(o.rc)
    /\ state' = "Sent"
    /\ ret' = o.rc
    /\ stage' = StageAfterReceive(o)
    /\ UNCHANGED <<submissionCount, toTpm, sent, outputs>>

\* Mutant of Resubmit: the bound test is "submissionCount++ > MAX".
ResubmitGt(o) ==
    /\ IsResubmitRc(o.rc)
    /\ submissionCount' = submissionCount + 1
    /\ UNCHANGED outputs
    /\ \/ /\ submissionCount > MaxSubmissions
          /\ state' = "Init"
          /\ ret' = o.rc
          /\ stage' = StageAfterReceive(o)
          /\ UNCHANGED <<toTpm, sent>>
       \/ /\ submissionCount <= MaxSubmissions
          /\ state' = "Resubmission"
          /\ \E rc \in {"SUCCESS"} \cup TransportErrors :
                /\ ExecuteAsync(cmd, rc)
                /\ stage' = StageAfterSend(rc)
                /\ ret' = IF rc = "SUCCESS" THEN "TRY_AGAIN" ELSE rc

\* The TPM asked for the command again: resubmit it, or give up once
\* submissionCount++ >= ESYS_MAX_SUBMISSIONS.  A failed transmit keeps the
\* state "Resubmission".
Resubmit(o) ==
    /\ IsResubmitRc(o.rc)
    /\ submissionCount' = submissionCount + 1
    /\ UNCHANGED outputs
    /\ \/ /\ submissionCount >= MaxSubmissions
          /\ state' = "Init"
          /\ ret' = o.rc
          /\ stage' = StageAfterReceive(o)
          /\ UNCHANGED <<toTpm, sent>>
       \/ /\ submissionCount < MaxSubmissions
          /\ state' = "Resubmission"
          /\ \E rc \in {"SUCCESS"} \cup TransportErrors :
                /\ ExecuteAsync(cmd, rc)
                /\ stage' = StageAfterSend(rc)
                /\ ret' = IF rc = "SUCCESS" THEN "TRY_AGAIN" ELSE rc

\* Any other TPM error: the context is reusable.
TpmErrorReturn(o) ==
    /\ IsTpmError(o.rc)
    /\ ~IsResubmitRc(o.rc)
    /\ state' = "Init"
    /\ ret' = o.rc
    /\ stage' = StageAfterReceive(o)
    /\ UNCHANGED <<submissionCount, toTpm, sent, outputs>>

\* A non-TPM error (transport, malformed or short response, sequence).
OtherErrorReturn(o) ==
    /\ ~IsTpmError(o.rc)
    /\ ~IsTryAgain(o.rc)
    /\ o.rc # "SUCCESS"
    /\ state' = "InternalError"
    /\ ret' = o.rc
    /\ stage' = StageAfterReceive(o)
    /\ UNCHANGED <<submissionCount, toTpm, sent, outputs>>

\* Success: iesys_check_response verifies the response HMAC, then the SAPI
\* Complete function hands out the result.
CheckAndComplete(o) ==
    /\ o.rc = "SUCCESS"
    /\ stage' = StageAfterReceive(o)
    /\ UNCHANGED <<submissionCount, toTpm, sent>>
    /\ \/ /\ ~o.rsp.hmacOk
          /\ state' = "InternalError"
          /\ ret' = "RSP_AUTH_FAILED"
          /\ UNCHANGED outputs
       \/ /\ o.rsp.hmacOk
          /\ state' = "Init"
          /\ ret' = "SUCCESS"
          /\ outputs' = outputs \cup {[cmd |-> cmd, rsp |-> o.rsp]}

Finish ==
    \/ /\ state \notin {"Sent", "Resubmission"}
       /\ ret' = "BAD_SEQUENCE"
       /\ UNCHANGED <<state, submissionCount, cmd, stage, toTpm, fromTpm,
                      sent, executed, outputs>>
    \/ /\ state \in {"Sent", "Resubmission"}
       /\ UNCHANGED <<cmd, executed>>
       /\ \E o \in ReceiveOutcomes :
          /\ fromTpm' = IF o.rsp = NoRsp THEN fromTpm ELSE Tail(fromTpm)
          /\ \/ NotReady(o)
             \/ Resubmit(o)
             \/ TpmErrorReturn(o)
             \/ OtherErrorReturn(o)
             \/ CheckAndComplete(o)

-----------------------------------------------------------------------------
(* The caller: direct use of Async and Finish, or the one-call function.   *)

AsyncCall ==
    /\ caller = "Idle"
    /\ Async
    /\ UNCHANGED <<caller, timeout, savedTimeout>>

FinishCall ==
    /\ caller = "Idle"
    /\ Finish
    /\ UNCHANGED <<caller, timeout, savedTimeout>>

\* Esys_PCR_SetAuthPolicy up to the loop: Async, then timeout := -1.
OneCallBegin ==
    /\ caller = "Idle"
    /\ Async
    /\ IF ret' = "SUCCESS"
       THEN /\ caller' = "OneCall"
            /\ savedTimeout' = timeout
            /\ timeout' = Block
       ELSE UNCHANGED <<caller, timeout, savedTimeout>>

\* One iteration of the do { Finish } while (TRY_AGAIN) loop; on leaving
\* the loop the timeout is restored.
\* Mutant of ContinueLoop: the loop runs until Finish succeeds.
ContinueLoopUntilSuccess(r) == r # "SUCCESS"

\* The loop condition: base_rc(r) == TSS2_BASE_RC_TRY_AGAIN.
ContinueLoop(r) == IsTryAgain(r)

\* Mutant of OneCallFinish: the timeout is restored after return_if_error,
\* so only when Finish succeeded.
OneCallFinishRestoreOnSuccess ==
    /\ caller = "OneCall"
    /\ Finish
    /\ IF ContinueLoop(ret')
       THEN UNCHANGED <<caller, timeout, savedTimeout>>
       ELSE /\ caller' = "Idle"
            /\ timeout' = IF ret' = "SUCCESS" THEN savedTimeout ELSE timeout
            /\ UNCHANGED savedTimeout

OneCallFinish ==
    /\ caller = "OneCall"
    /\ Finish
    /\ IF ContinueLoop(ret')
       THEN UNCHANGED <<caller, timeout, savedTimeout>>
       ELSE /\ caller' = "Idle"
            /\ timeout' = savedTimeout
            /\ UNCHANGED savedTimeout

-----------------------------------------------------------------------------
(* The TPM takes the oldest command off the transport and answers it.  A   *)
(* retry-class answer means it did not act on the command; a corrupted     *)
(* answer may or may not hide an execution.                                *)

TpmExecute ==
    /\ toTpm # <<>>
    /\ toTpm' = Tail(toTpm)
    /\ \E a \in Answers :
         /\ fromTpm' = Append(fromTpm, [id |-> Head(toTpm), rc |-> a.rc,
                                        hdr |-> a.hdr, hmacOk |-> a.hmacOk])
         /\ \/ /\ a.rc \in RetryRcs
               /\ UNCHANGED executed
            \/ /\ a.rc \notin RetryRcs
               /\ executed' = [executed EXCEPT ![Head(toTpm)] = @ + 1]
            \/ /\ a.hdr # "ok"
               /\ UNCHANGED executed
    /\ UNCHANGED <<state, submissionCount, timeout, cmd, stage, caller,
                   savedTimeout, ret, sent, outputs>>

Next ==
    \/ AsyncCall
    \/ FinishCall
    \/ OneCallBegin
    \/ OneCallFinish
    \/ TpmExecute

\* The one-call loop runs as long as its thread does, and the TPM answers
\* every command it receives.
Fairness == WF_vars(OneCallFinish) /\ WF_vars(TpmExecute)

Spec == Init /\ [][Next]_vars

FairSpec == Spec /\ Fairness

-----------------------------------------------------------------------------
(* Properties.                                                             *)

TypeOK ==
    /\ state \in EsysStates
    /\ submissionCount \in 0..MaxSubmissions + 1
    /\ timeout \in Timeouts
    /\ cmd \in 0..MaxCommands
    /\ stage \in SysStages
    /\ toTpm \in Seq(1..MaxCommands)
    /\ fromTpm \in Seq(Responses)
    /\ caller \in {"Idle", "OneCall"}
    /\ savedTimeout \in Timeouts
    /\ ret \in RetCodes
    /\ sent \in [1..MaxCommands -> 0..MaxSubmissions + 1]
    /\ executed \in [1..MaxCommands -> 0..MaxSubmissions + 1]
    /\ outputs \subseteq [cmd : 1..MaxCommands, rsp : Responses]

\* A result Finish hands out is the TPM's verified answer to the command the
\* caller started, never a late answer to an earlier command, and each
\* command yields at most one result (Async dispatch failure, line 211, and
\* the resubmission path, line 286, both decide what may still be in
\* flight when the next command starts).
OutputsMatchCommand ==
    \A o \in outputs :
        /\ o.rsp.id = o.cmd
        /\ o.rsp.hmacOk
        /\ \A o2 \in outputs : o2.cmd = o.cmd => o2 = o

\* The TPM never acts twice on one command: Finish only resubmits after an
\* answer saying the TPM did not act on it (lines 277-296).
NoDuplicateExecution ==
    \A c \in 1..MaxCommands : executed[c] <= 1

\* A command reaches the TPM at most ESYS_MAX_SUBMISSIONS + 1 times, and a
\* retry-class code reaches the caller only after exactly
\* ESYS_MAX_SUBMISSIONS resubmissions (line 280).
ResubmissionBound ==
    /\ \A c \in 1..MaxCommands : sent[c] <= MaxSubmissions + 1
    /\ ret \in RetryRcs => sent[cmd] = MaxSubmissions + 1

\* Every transmission to the TPM, the first one of Async (line 211) or a
\* resubmission of Finish (line 286), carries the command the caller is
\* waiting on, and only while the TPM has not acted on it: a command the
\* TPM executed is never sent again.
SendsOnlyUnexecuted ==
    [][\A c \in 1..MaxCommands :
          sent'[c] # sent[c] => c = cmd' /\ executed[c] = 0]_vars

\* Every call of the one-call function returns (the loop of lines 93-100
\* ends).
OneCallReturns == caller = "OneCall" ~> caller = "Idle"

\* The one-call function sets esysContext->timeout to -1 for its loop
\* (lines 84-85) and must give the caller back its own timeout on every
\* way out, the error returns included (line 104): whenever no one-call
\* function is running, the timeout is the one the context started with.
\* A timeout left at -1 would make a later _Finish of the caller block.
TimeoutRestored ==
    \A t \in Timeouts : timeout = t => [](caller = "Idle" => timeout = t)

\* After a failed transmit the context is unusable (spec 4.4, 6): the
\* command may or may not have reached the TPM.
TransportFailureIsTerminal == ret = "TCTI_IO_ERROR" => state = "InternalError"

-----------------------------------------------------------------------------
(* The inductive invariant behind the safety properties: at most one       *)
(* message of the context is in the transport, and only while a command is *)
(* outstanding; it belongs to the current command, which the TPM has not   *)
(* acted on while it travels; the submissions of the current command are   *)
(* counted by submissionCount.                                             *)

\* Only the current command travels, and at most one message at a time.
InvInFlight ==
    /\ Len(toTpm) + Len(fromTpm) <= 1
    /\ \A i \in 1..Len(toTpm) : toTpm[i] = cmd /\ executed[cmd] = 0
    /\ \A i \in 1..Len(fromTpm) :
          /\ fromTpm[i].id = cmd
          /\ fromTpm[i].rc \in RetryRcs /\ fromTpm[i].hdr = "ok"
               => executed[cmd] = 0
    /\ state = "Init" => toTpm = <<>> /\ fromTpm = <<>>
    /\ Len(toTpm) + Len(fromTpm) = 1 => cmd \in 1..MaxCommands

\* Submissions: frozen for earlier commands, none for later ones, and for
\* the current one one more than submissionCount while the last transmit
\* succeeded.
InvSubmissions ==
    /\ \A c \in 1..MaxCommands :
          /\ c > cmd => sent[c] = 0 /\ executed[c] = 0
          /\ sent[c] <= MaxSubmissions + 1
          /\ executed[c] <= 1
    /\ state \in {"Sent", "Resubmission"} =>
          /\ cmd \in 1..MaxCommands
          /\ submissionCount <= MaxSubmissions
    /\ cmd \in 1..MaxCommands =>
          /\ sent[cmd] <= submissionCount + 1
          /\ state \in {"Sent", "Resubmission"} /\ stage = "Sent"
               => sent[cmd] = submissionCount + 1
    /\ ret \in RetryRcs => cmd \in 1..MaxCommands
                           /\ sent[cmd] = MaxSubmissions + 1

\* Results: one per command, each for a command already started, and the
\* current command's result ends its exchange.
InvOutputs ==
    \A o \in outputs :
        /\ o.rsp.id = o.cmd
        /\ o.rsp.hmacOk
        /\ o.cmd <= cmd
        /\ o.cmd = cmd => state = "Init"
        /\ \A o2 \in outputs : o2.cmd = o.cmd => o2 = o

IInv == TypeOK /\ InvInFlight /\ InvSubmissions /\ InvOutputs

-----------------------------------------------------------------------------
(* Refinement: the context implements the abstract promise of              *)
(* EsysCommandAbstract.  The current command is the number of the last     *)
(* Async call, the TPM has acted on a command when its execution count is  *)
(* positive, and a command has a result when Finish handed one out.        *)

\* The commands the TPM has acted on.
ExecutedCmds == {c \in 1..MaxCommands : executed[c] # 0}

\* The commands whose result Finish handed out.
AnsweredCmds == {o.cmd : o \in outputs}

Abstract == INSTANCE EsysCommandAbstract WITH
                current <- cmd,
                done    <- ExecutedCmds,
                results <- AnsweredCmds

\* Every behaviour of the context is one of the abstract promise: the TPM
\* acts only on the command of the last Async call and at most once, and
\* Finish hands out one result of that command after the TPM acted on it;
\* a command that a later Async call superseded is never executed or
\* answered late (Async lines 166-217, Finish lines 261-326).
AbstractSpec == Abstract!ASpec

=============================================================================
