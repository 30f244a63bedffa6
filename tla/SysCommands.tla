---------------------------- MODULE SysCommands ----------------------------
(***************************************************************************)
(* One TSS2_SYS_CONTEXT driven through the SAPI Prepare / Execute /        *)
(* Complete contract by the per-command functions of src/tss2-sys/api/:    *)
(* Tss2_Sys_<Cmd>_Prepare, Tss2_Sys_<Cmd>_Complete and the one-call        *)
(* Tss2_Sys_<Cmd>.                                                         *)
(*                                                                         *)
(* Each command is described by a record that abstracts its file: how     *)
(* many Tss2_MU_*_Marshal calls its Prepare body makes, whether its first  *)
(* parameter is an optional TPM2B and whether a NULL one sets decryptNull, *)
(* whether a required pointer argument is checked, how many                *)
(* Tss2_MU_*_Unmarshal calls its Complete makes and the three capability   *)
(* flags it stores.  The argument values are abstracted to which pointers  *)
(* are NULL and at which marshal call, if any, the buffer overflows.       *)
(*                                                                         *)
(* CommonPreparePrologue, CommonPrepareEpilogue, CommonComplete and        *)
(* CommonOneCall are not part of this source tree; they are modelled from  *)
(* the SAPI contract (Prologue resets the context and records the command *)
(* code, Epilogue marks it prepared, Complete requires a received success *)
(* response, OneCall is one exchange with the TPM).                        *)
(***************************************************************************)
EXTENDS Naturals

CONSTANTS
    Commands,        \* the commands a caller may issue on the context
    MarshalRcs,      \* what a failing Tss2_MU_*_Marshal call returns
    UnmarshalRcs     \* what a failing Tss2_MU_*_Unmarshal call returns

NoCmd == "none"

\* The response codes a TPM answer may carry, and the errors among them.
TpmRcs == {"SUCCESS", "TPM_RC_FAILURE"}
TpmErrorRcs == {"TPM_RC_FAILURE"}

\* What ExecuteFinish reads from a response: the TPM's code, or a header
\* that does not parse.
ResponseRcs == TpmRcs \cup {"MALFORMED_RESPONSE"}

\* What Tss2_Tcti_Transmit / Tss2_Tcti_Receive return when they fail.
TransportErrors == {"TCTI_IO_ERROR"}

Stages == {"Initialized", "Prepared", "Sent", "Received"}

(***************************************************************************)
(* The command files.  marshals counts the body's marshal calls (the      *)
(* handle included), firstTpm2b says the parameter after the handle is an  *)
(* optional TPM2B marshalled as UINT16 0 when NULL, setsNull says the NULL *)
(* branch sets ctx->decryptNull, required says a pointer argument must not *)
(* be NULL, unmarshals counts Complete's unmarshal calls and firstOutTpm2b *)
(* says the first of them reads a TPM2B.                                   *)
(***************************************************************************)
Startup ==
    [cc |-> "Startup", marshals |-> 1, firstTpm2b |-> FALSE, setsNull |-> FALSE,
     required |-> FALSE, unmarshals |-> 0, firstOutTpm2b |-> FALSE,
     decryptAllowed |-> 0, encryptAllowed |-> 0, authAllowed |-> 0]

TestParms ==
    [cc |-> "TestParms", marshals |-> 1, firstTpm2b |-> FALSE, setsNull |-> FALSE,
     required |-> TRUE, unmarshals |-> 0, firstOutTpm2b |-> FALSE,
     decryptAllowed |-> 0, encryptAllowed |-> 0, authAllowed |-> 1]

ClockRateAdjust ==
    [cc |-> "ClockRateAdjust", marshals |-> 2, firstTpm2b |-> FALSE,
     setsNull |-> FALSE, required |-> FALSE, unmarshals |-> 0, firstOutTpm2b |-> FALSE,
     decryptAllowed |-> 0, encryptAllowed |-> 0, authAllowed |-> 1]

PCR_Extend ==
    [cc |-> "PCR_Extend", marshals |-> 2, firstTpm2b |-> FALSE,
     setsNull |-> FALSE, required |-> TRUE, unmarshals |-> 0, firstOutTpm2b |-> FALSE,
     decryptAllowed |-> 0, encryptAllowed |-> 0, authAllowed |-> 1]

PCR_SetAuthValue ==
    [cc |-> "PCR_SetAuthValue", marshals |-> 2, firstTpm2b |-> TRUE,
     setsNull |-> FALSE, required |-> FALSE, unmarshals |-> 0, firstOutTpm2b |-> FALSE,
     decryptAllowed |-> 1, encryptAllowed |-> 0, authAllowed |-> 1]

\* Mutant of PolicyAuthorize: the flag block copied from SequenceComplete.
PolicyAuthorizeEncrypt ==
    [cc |-> "PolicyAuthorize", marshals |-> 5, firstTpm2b |-> TRUE,
     setsNull |-> TRUE, required |-> TRUE, unmarshals |-> 0, firstOutTpm2b |-> FALSE,
     decryptAllowed |-> 1, encryptAllowed |-> 1, authAllowed |-> 1]

PolicyAuthorize ==
    [cc |-> "PolicyAuthorize", marshals |-> 5, firstTpm2b |-> TRUE,
     setsNull |-> TRUE, required |-> TRUE, unmarshals |-> 0, firstOutTpm2b |-> FALSE,
     decryptAllowed |-> 1, encryptAllowed |-> 0, authAllowed |-> 1]

EncryptDecrypt2 ==
    [cc |-> "EncryptDecrypt2", marshals |-> 5, firstTpm2b |-> TRUE,
     setsNull |-> FALSE, required |-> FALSE, unmarshals |-> 2, firstOutTpm2b |-> TRUE,
     decryptAllowed |-> 1, encryptAllowed |-> 1, authAllowed |-> 1]

SequenceComplete ==
    [cc |-> "SequenceComplete", marshals |-> 3, firstTpm2b |-> TRUE,
     setsNull |-> TRUE, required |-> FALSE, unmarshals |-> 2, firstOutTpm2b |-> TRUE,
     decryptAllowed |-> 1, encryptAllowed |-> 1, authAllowed |-> 1]

AllCommands ==
    {Startup, TestParms, ClockRateAdjust, PCR_Extend, PCR_SetAuthValue,
     PolicyAuthorize, EncryptDecrypt2, SequenceComplete}

ASSUME Assumptions ==
    /\ Commands \subseteq AllCommands
    /\ Commands # {}
    /\ MarshalRcs # {}
    /\ UnmarshalRcs # {}

Codes == {c.cc : c \in Commands}
Desc(cc) == CHOOSE c \in Commands : c.cc = cc

(***************************************************************************)
(* The caller's arguments: which pointers are NULL and which marshal call *)
(* (0: none) runs out of buffer.  The first parameter can be NULL only     *)
(* where it is an optional TPM2B.                                          *)
(***************************************************************************)
Args(c) ==
    [ctxNull : BOOLEAN, firstNull : IF c.firstTpm2b THEN BOOLEAN ELSE {FALSE},
     requiredNull : IF c.required THEN BOOLEAN ELSE {FALSE},
     failAt : 0..c.marshals]

VARIABLES
    stage,           \* ctx->previousStage
    cmd,             \* ctx->commandCode, the command last prologued
    decryptAllowed,  \* ctx->decryptAllowed
    encryptAllowed,  \* ctx->encryptAllowed
    authAllowed,     \* ctx->authAllowed
    decryptNull,     \* ctx->decryptNull
    firstParamNull,  \* the caller passed NULL for the prepared first parameter
    sentCmd,         \* the command code of the buffer last sent to the TPM
    rspRc,           \* the response code of the response last received
    rc               \* what the last call returned to its caller

vars == <<stage, cmd, decryptAllowed, encryptAllowed, authAllowed,
          decryptNull, firstParamNull, sentCmd, rspRc, rc>>

RetCodes ==
    ResponseRcs \cup TransportErrors \cup MarshalRcs \cup UnmarshalRcs
        \cup {"BAD_REFERENCE", "BAD_SEQUENCE", "TRY_AGAIN"}

TypeOK ==
    /\ stage \in Stages
    /\ cmd \in Codes \cup {NoCmd}
    /\ {decryptAllowed, encryptAllowed, authAllowed, decryptNull} \subseteq {0, 1}
    /\ firstParamNull \in BOOLEAN
    /\ sentCmd \in Codes \cup {NoCmd}
    /\ rspRc \in ResponseRcs
    /\ rc \in RetCodes

Init ==
    /\ stage = "Initialized"
    /\ cmd = NoCmd
    /\ decryptAllowed = 0 /\ encryptAllowed = 0 /\ authAllowed = 0
    /\ decryptNull = 0
    /\ firstParamNull = FALSE
    /\ sentCmd = NoCmd
    /\ rspRc = "SUCCESS"
    /\ rc = "SUCCESS"

-----------------------------------------------------------------------------
(* Prepare: the early BAD_REFERENCE return, the prologue, the body of      *)
(* marshal calls (each aborting Prepare on failure) and the flags and      *)
(* epilogue.                                                               *)

\* Mutant of PrologueAllowed: the prologue does not check the stage.
PrologueAllowedAny == TRUE

\* CommonPreparePrologue refuses to start a command while one is in flight.
PrologueAllowed == stage # "Sent"

\* ctx->decryptNull after the body: the prologue clears it, and a NULL
\* first TPM2B sets it (before that parameter is marshalled) where the
\* command's file does so.
\* Mutant of DecryptNullAfter: the flag is counted up and never cleared.
DecryptNullAfterInc(c, a) ==
    IF c.setsNull /\ a.firstNull /\ (a.failAt = 0 \/ a.failAt >= 2)
    THEN decryptNull + 1 ELSE decryptNull

DecryptNullAfter(c, a) ==
    IF c.setsNull /\ a.firstNull /\ (a.failAt = 0 \/ a.failAt >= 2)
    THEN 1 ELSE 0

\* "if (!ctx || !<required>) return TSS2_SYS_RC_BAD_REFERENCE;"
BadReference(c, a) ==
    /\ a.ctxNull \/ a.requiredNull
    /\ rc' = "BAD_REFERENCE"
    /\ UNCHANGED <<stage, cmd, decryptAllowed, encryptAllowed, authAllowed,
                   decryptNull, firstParamNull, sentCmd, rspRc>>

\* The prologue's stage check fails.
PrologueBadSequence(c, a) ==
    /\ ~a.ctxNull /\ ~a.requiredNull
    /\ ~PrologueAllowed
    /\ rc' = "BAD_SEQUENCE"
    /\ UNCHANGED <<stage, cmd, decryptAllowed, encryptAllowed, authAllowed,
                   decryptNull, firstParamNull, sentCmd, rspRc>>

\* Mutant of MarshalFailure: the prologue does not reset the stage.
MarshalFailureKeepsStage(c, a) ==
    /\ ~a.ctxNull /\ ~a.requiredNull /\ PrologueAllowed
    /\ a.failAt # 0
    /\ cmd' = c.cc
    /\ decryptAllowed' = 0 /\ encryptAllowed' = 0 /\ authAllowed' = 0
    /\ decryptNull' = DecryptNullAfter(c, a)
    /\ firstParamNull' = a.firstNull
    /\ rc' \in MarshalRcs
    /\ UNCHANGED <<stage, sentCmd, rspRc>>

\* The prologue has reset the context and recorded the command code, then
\* marshal call number failAt of the body fails and Prepare returns its
\* code before the flags are stored.
MarshalFailure(c, a) ==
    /\ ~a.ctxNull /\ ~a.requiredNull /\ PrologueAllowed
    /\ a.failAt # 0
    /\ stage' = "Initialized"
    /\ cmd' = c.cc
    /\ decryptAllowed' = 0 /\ encryptAllowed' = 0 /\ authAllowed' = 0
    /\ decryptNull' = DecryptNullAfter(c, a)
    /\ firstParamNull' = a.firstNull
    /\ rc' \in MarshalRcs
    /\ UNCHANGED <<sentCmd, rspRc>>

\* The ways Prepare can fail.
PrepareFails(c, a) ==
    \/ BadReference(c, a)
    \/ PrologueBadSequence(c, a)
    \/ MarshalFailure(c, a)

\* The whole body is marshalled: the flags are stored and the epilogue
\* marks the context prepared.
PrepareOk(c, a) ==
    /\ ~a.ctxNull /\ ~a.requiredNull /\ PrologueAllowed
    /\ a.failAt = 0
    /\ cmd' = c.cc
    /\ decryptAllowed' = c.decryptAllowed
    /\ encryptAllowed' = c.encryptAllowed
    /\ authAllowed' = c.authAllowed
    /\ decryptNull' = DecryptNullAfter(c, a)
    /\ firstParamNull' = a.firstNull

\* Tss2_Sys_<Cmd>_Prepare.
Prepare(c, a) ==
    \/ PrepareFails(c, a)
    \/ /\ PrepareOk(c, a)
       /\ stage' = "Prepared"
       /\ rc' = "SUCCESS"
       /\ UNCHANGED <<sentCmd, rspRc>>

-----------------------------------------------------------------------------
(* The exchange with the TPM (Tss2_Sys_ExecuteAsync / ExecuteFinish).  The  *)
(* transport is abstracted to its outcome: a response read answers the     *)
(* buffer last sent.                                                       *)

\* The stage after a response with code r was read: a TPM error leaves the
\* command buffer ready to be sent again, anything else leaves the
\* response for Complete.
StageAfterResponse(r) == IF r \in TpmErrorRcs THEN "Prepared" ELSE "Received"

\* Tss2_Sys_ExecuteAsync: the prepared buffer is transmitted; a failed
\* transmit leaves it prepared, and it may or may not have reached the TPM.
ExecuteAsync ==
    \/ /\ stage = "Prepared"
       /\ stage' = "Sent"
       /\ sentCmd' = cmd
       /\ rc' = "SUCCESS"
       /\ UNCHANGED <<cmd, decryptAllowed, encryptAllowed, authAllowed,
                      decryptNull, firstParamNull, rspRc>>
    \/ /\ stage = "Prepared"
       /\ rc' \in TransportErrors
       /\ sentCmd' \in {sentCmd, cmd}
       /\ UNCHANGED <<stage, cmd, decryptAllowed, encryptAllowed, authAllowed,
                      decryptNull, firstParamNull, rspRc>>
    \/ /\ stage # "Prepared"
       /\ rc' = "BAD_SEQUENCE"
       /\ UNCHANGED <<stage, cmd, decryptAllowed, encryptAllowed, authAllowed,
                      decryptNull, firstParamNull, sentCmd, rspRc>>

\* Tss2_Sys_ExecuteFinish with a blocking or a finite timeout: a response
\* is read and classified, or the receive fails, or (finite timeout only)
\* nothing has arrived yet; the last two leave the command in flight.
ExecuteFinish(blocking) ==
    \/ /\ stage = "Sent"
       /\ \E r \in ResponseRcs :
             /\ stage' = StageAfterResponse(r)
             /\ rspRc' = r
             /\ rc' = r
       /\ UNCHANGED <<cmd, decryptAllowed, encryptAllowed, authAllowed,
                      decryptNull, firstParamNull, sentCmd>>
    \/ /\ stage = "Sent"
       /\ rc' \in TransportErrors \cup (IF blocking THEN {} ELSE {"TRY_AGAIN"})
       /\ UNCHANGED <<stage, cmd, decryptAllowed, encryptAllowed, authAllowed,
                      decryptNull, firstParamNull, sentCmd, rspRc>>
    \/ /\ stage # "Sent"
       /\ rc' = "BAD_SEQUENCE"
       /\ UNCHANGED <<stage, cmd, decryptAllowed, encryptAllowed, authAllowed,
                      decryptNull, firstParamNull, sentCmd, rspRc>>

-----------------------------------------------------------------------------
(* Complete and the one-call function.                                     *)

\* What Complete returns after a response with code r was read: the
\* response's error, or the result of the unmarshal calls.
CompleteRcs(c, r) ==
    IF r # "SUCCESS" THEN {r}
    ELSE {"SUCCESS"} \cup (IF c.unmarshals > 0 THEN UnmarshalRcs ELSE {})

\* Tss2_Sys_<Cmd>_Complete: the NULL check, CommonComplete (a success
\* response must have been received) and the unmarshal calls.
Complete(c, ctxNull) ==
    /\ \/ /\ ctxNull
          /\ rc' = "BAD_REFERENCE"
       \/ /\ ~ctxNull
          /\ stage = "Received" /\ rspRc = "SUCCESS"
          /\ rc' \in CompleteRcs(c, "SUCCESS")
       \/ /\ ~ctxNull
          /\ ~(stage = "Received" /\ rspRc = "SUCCESS")
          /\ rc' = "BAD_SEQUENCE"
    /\ UNCHANGED <<stage, cmd, decryptAllowed, encryptAllowed, authAllowed,
                   decryptNull, firstParamNull, sentCmd, rspRc>>

\* Tss2_Sys_<Cmd>: Prepare, then CommonOneCall: Tss2_Sys_Execute
\* (ExecuteAsync, then ExecuteFinish with a blocking timeout), each failure
\* returned as it is, and Complete after a success response.
OneCall(c, a) ==
    \/ PrepareFails(c, a)
    \/ /\ PrepareOk(c, a)
       /\ \/ /\ stage' = "Prepared"
             /\ sentCmd' \in {sentCmd, c.cc}
             /\ rc' \in TransportErrors
             /\ UNCHANGED rspRc
          \/ /\ stage' = "Sent"
             /\ sentCmd' = c.cc
             /\ rc' \in TransportErrors
             /\ UNCHANGED rspRc
          \/ /\ sentCmd' = c.cc
             /\ \E r \in ResponseRcs :
                   /\ stage' = StageAfterResponse(r)
                   /\ rspRc' = r
                   /\ rc' \in CompleteRcs(c, r)

Next ==
    \E c \in Commands :
        \/ \E a \in Args(c) : Prepare(c, a) \/ OneCall(c, a)
        \/ \E b \in BOOLEAN : Complete(c, b)
    \/ ExecuteAsync
    \/ \E b \in BOOLEAN : ExecuteFinish(b)

Spec == Init /\ [][Next]_vars

-----------------------------------------------------------------------------
(* The context seen through the SAPI contract of SysContractAbstract: the   *)
(* held command is ctx->commandCode, its phase is ctx->previousStage and   *)
(* the answer held is the answer to the command last sent.                  *)

PhaseOf ==
    [Initialized |-> "idle", Prepared |-> "prepared",
     Sent |-> "inflight", Received |-> "answered"]

Contract ==
    INSTANCE SysContractAbstract
        WITH Cmds <- Codes, held <- cmd, phase <- PhaseOf[stage], answer <- sentCmd

-----------------------------------------------------------------------------
(* Properties.                                                             *)

\* While a command is prepared, in flight or answered, the parameter
\* encryption flags the Prepare functions store say what the command's
\* layout allows: command decryption exactly when its first parameter is a
\* TPM2B, response encryption exactly when its first output is one; a
\* failed Prepare of another command must not leave them stale.
FlagsMatchLayout ==
    stage # "Initialized" =>
        /\ decryptAllowed = (IF Desc(cmd).firstTpm2b THEN 1 ELSE 0)
        /\ encryptAllowed = (IF Desc(cmd).firstOutTpm2b THEN 1 ELSE 0)

\* The response Complete may unmarshal is the answer to the command the
\* context holds: a Prepare that fails half way after an exchange must not
\* let Complete read the old response as the new command's outputs.
ResponseBelongsToCommand ==
    stage = "Received" => sentCmd = cmd

\* A NULL optional first parameter sets decryptNull, so that parameter
\* decryption skips the absent parameter (SAPI contract, 4.2 step 2).
DecryptNullWhenFirstNull ==
    stage # "Initialized" /\ firstParamNull => decryptNull = 1

\* The context keeps the SAPI contract: no Prepare begins a command while
\* one is in flight, only a prepared command is sent, a failed Prepare
\* leaves the new command unprepared rather than answered, a TPM error
\* leaves the command prepared for another send, and whatever is answered
\* or in flight is the command the context holds.
ContractSpec == Contract!ASpec

-----------------------------------------------------------------------------
(* The inductive invariant behind the safety properties and the contract: *)
(* "Initialized" the context holds a command of the caller's set, and an    *)
(* exchange in flight or answered carries that command.                    *)

SInv ==
    /\ TypeOK
    /\ stage # "Initialized" => cmd \in Codes
    /\ stage \in {"Sent", "Received"} => sentCmd = cmd
    /\ FlagsMatchLayout
=============================================================================
