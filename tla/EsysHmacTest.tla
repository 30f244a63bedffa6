----------------------------- MODULE EsysHmacTest -----------------------------
(***************************************************************************)
(* The ESAPI HMAC integration test (test/integration/esys-hmac.int.c)      *)
(* running on one ESYS_CONTEXT and a TPM.  The test creates a primary      *)
(* keyed-hash object, sets its auth value, computes an HMAC, verifies it   *)
(* and flushes the object; every failure jumps to a cleanup that flushes   *)
(* the object if CreatePrimary returned a handle.                          *)
(*                                                                         *)
(* Each ESAPI call is a one-call function of the generated shape that      *)
(* EsysCommand models (Async, the TRY_AGAIN loop over Finish, the timeout  *)
(* restore), so the test drives OneCallBegin / OneCallFinish of that       *)
(* module; the TPM's object table records what the TPM's executions of     *)
(* CreatePrimary and FlushContext did.                                     *)
(***************************************************************************)
EXTENDS EsysCommand

\* The ESAPI commands the test issues.
Kinds == {"CreatePrimary", "HMAC", "VerifySignature", "FlushContext"}

\* The test's program points: the call sites, the two jumps and the two
\* returns.
CallSites == {"create", "hmac", "verify", "flush", "cleanup"}
Points == CallSites \cup {"setauth", "error", "done", "failed"}

\* The command each call site issues.
SiteKind ==
    [s \in CallSites |->
        CASE s = "create"  -> "CreatePrimary"
          [] s = "hmac"    -> "HMAC"
          [] s = "verify"  -> "VerifySignature"
          [] OTHER         -> "FlushContext"]

VARIABLES
    pc,             \* the test's program point
    primaryHandle,  \* primaryHandle != ESYS_TR_NONE
    kind,           \* kind[c]: the command the c-th Async call prepared
    loaded          \* the primary object is loaded in the TPM

testVars == <<pc, primaryHandle, kind, loaded>>
allVars == <<vars, testVars>>

TestInit ==
    /\ Init
    /\ pc = "create"
    /\ primaryHandle = FALSE
    /\ kind = [c \in 1..MaxCommands |-> "none"]
    /\ loaded = FALSE

\* Mutant of AfterCall: the goto_if_error after VerifySignature is dropped.
AfterCallNoVerifyCheck(s, r) ==
    IF s = "cleanup" THEN "failed"
    ELSE IF r # "SUCCESS" /\ s # "verify" THEN "error"
    ELSE CASE s = "create" -> "setauth"
           [] s = "hmac"   -> "verify"
           [] s = "verify" -> "flush"
           [] OTHER        -> "done"

\* Where the test goes when the one-call function at site s returned r:
\* goto_if_error(r, ..., error), or on to the next statement; the cleanup
\* flush only logs its failure.
AfterCall(s, r) ==
    IF s = "cleanup" THEN "failed"
    ELSE IF r # "SUCCESS" THEN "error"
    ELSE CASE s = "create" -> "setauth"
           [] s = "hmac"   -> "verify"
           [] s = "verify" -> "flush"
           [] OTHER        -> "done"

\* The test leaves the one-call function at site s with result r: only a
\* successful CreatePrimary hands out the object's ESYS_TR.
Return(s, r) ==
    /\ pc' = AfterCall(s, r)
    /\ primaryHandle' = (primaryHandle \/ (s = "create" /\ r = "SUCCESS"))

\* The test calls the one-call function of site s: Async, and if it
\* succeeded the loop over Finish; a failed Async returns at once.
TestCall ==
    /\ pc \in CallSites
    /\ OneCallBegin
    /\ kind' = IF cmd' = cmd THEN kind
               ELSE [kind EXCEPT ![cmd'] = SiteKind[pc]]
    /\ UNCHANGED loaded
    /\ IF caller' = "OneCall"
       THEN UNCHANGED <<pc, primaryHandle>>
       ELSE Return(pc, ret')

\* One iteration of the one-call loop; when it ends the test takes the
\* result.
TestFinish ==
    /\ OneCallFinish
    /\ UNCHANGED <<kind, loaded>>
    /\ IF caller' = "Idle"
       THEN Return(pc, ret')
       ELSE UNCHANGED <<pc, primaryHandle>>

\* Esys_TR_SetAuth stores the auth value in the context's resource record;
\* it does not reach the TPM and cannot fail for the handle CreatePrimary
\* returned.
TestSetAuth ==
    /\ pc = "setauth"
    /\ pc' = "hmac"
    /\ UNCHANGED <<vars, primaryHandle, kind, loaded>>

\* error: flush the primary object only if CreatePrimary returned it.
TestError ==
    /\ pc = "error"
    /\ pc' = IF primaryHandle THEN "cleanup" ELSE "failed"
    /\ UNCHANGED <<vars, primaryHandle, kind, loaded>>

\* The TPM acts on a command: a successful CreatePrimary loads the object,
\* a successful FlushContext unloads it.
TestTpm ==
    /\ TpmExecute
    /\ LET c      == Head(toTpm)
           acted  == executed'[c] # executed[c]
           ok     == fromTpm'[Len(fromTpm')].rc = "SUCCESS"
       IN  loaded' = CASE acted /\ ok /\ kind[c] = "CreatePrimary" -> TRUE
                       [] acted /\ ok /\ kind[c] = "FlushContext"  -> FALSE
                       [] OTHER                                     -> loaded
    /\ UNCHANGED <<pc, primaryHandle, kind>>

\* The test has returned EXIT_SUCCESS or EXIT_FAILURE.
Returned == pc \in {"done", "failed"} /\ UNCHANGED allVars

TestNext ==
    \/ TestCall
    \/ TestFinish
    \/ TestSetAuth
    \/ TestError
    \/ TestTpm
    \/ Returned

\* The test runs as one thread that keeps calling, and the TPM answers
\* every command it receives.
TestFairness ==
    /\ WF_allVars(TestCall \/ TestSetAuth \/ TestError)
    /\ WF_allVars(TestFinish)
    /\ WF_allVars(TestTpm)

TestSpec == TestInit /\ [][TestNext]_allVars /\ TestFairness

-----------------------------------------------------------------------------
(* Properties.                                                             *)

TestTypeOK ==
    /\ TypeOK
    /\ pc \in Points
    /\ primaryHandle \in BOOLEAN
    /\ kind \in [1..MaxCommands -> Kinds \cup {"none"}]
    /\ loaded \in BOOLEAN

\* EXIT_SUCCESS means what the test claims: the TPM executed CreatePrimary,
\* HMAC, VerifySignature and FlushContext, in that order and each exactly
\* once, and the object is no longer loaded, whatever retries, timeouts and
\* resubmissions the one-call loops went through.
TestSuccessSound ==
    pc = "done" =>
        /\ cmd = 4
        /\ kind = [c \in 1..MaxCommands |->
                     IF c <= 4
                     THEN <<"CreatePrimary", "HMAC", "VerifySignature",
                            "FlushContext">>[c]
                     ELSE "none"]
        /\ \A c \in 1..4 : executed[c] = 1
        /\ ~loaded

\* The test always returns: every one-call loop ends and the cleanup runs
\* at most once.
TestTerminates == <>(pc \in {"done", "failed"})

\* When the test has returned and nothing it sent is still on the way to
\* the TPM, the primary object it created is no longer loaded (the cleanup
\* at lines 140-144).
CleanupReleasesPrimary ==
    pc \in {"done", "failed"} /\ toTpm = <<>> => ~loaded

=============================================================================
