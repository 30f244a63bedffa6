------------------------- MODULE EsysHmacTestProofs -------------------------
(***************************************************************************)
(* Proof that the HMAC integration test only returns EXIT_SUCCESS when the *)
(* TPM executed CreatePrimary, HMAC, VerifySignature and FlushContext in   *)
(* that order, each exactly once, and the object is unloaded               *)
(* (TestSuccessSound), for every value of the constants.                   *)
(*                                                                         *)
(* The test's steps are steps of the ESAPI context, so RInv of             *)
(* EsysRefinementProofs holds.  On top of it, TestInv relates the test's   *)
(* program point to the context: at a point reached without error the     *)
(* calls made so far are the first Completed(pc) commands, each executed   *)
(* once; inside a call the current command is the next one; and a flush    *)
(* success still in the transport was preceded by the TPM unloading the    *)
(* object.                                                                 *)
(***************************************************************************)
EXTENDS EsysHmacTest, EsysRefinementProofs

\* The commands of a run without error, in order.
Expected == <<"CreatePrimary", "HMAC", "VerifySignature", "FlushContext">>

\* The program points reached without an error, and how many calls
\* succeeded before each.
Happy == {"create", "setauth", "hmac", "verify", "flush", "done"}

Completed(p) ==
    CASE p = "create"              -> 0
      [] p \in {"setauth", "hmac"} -> 1
      [] p = "verify"              -> 2
      [] p = "flush"               -> 3
      [] p = "done"                -> 4

TestVarsOK ==
    /\ pc \in Points
    /\ primaryHandle \in BOOLEAN
    /\ kind \in [1..MaxCommands -> Kinds \cup {"none"}]
    /\ loaded \in BOOLEAN

\* No command beyond the current one has been prepared.
InvKinds == \A c \in 1..MaxCommands : c > cmd => kind[c] = "none"

\* Along a run without error, the calls made so far are the expected ones,
\* each executed once; inside a call the current command is the next one,
\* between calls the context is reusable.
InvProgress ==
    pc \in Happy =>
      /\ \A c \in 1..Completed(pc) : kind[c] = Expected[c] /\ executed[c] = 1
      /\ caller = "OneCall" => /\ pc \in CallSites
                               /\ cmd = Completed(pc) + 1
                               /\ kind[cmd] = SiteKind[pc]
      /\ caller = "Idle" => cmd = Completed(pc) /\ state = "Init"

\* The test is inside a one-call function only at a call site.
InvCaller == caller = "OneCall" => pc \in CallSites

\* A flush success on its way back means the TPM unloaded the object, and
\* at EXIT_SUCCESS the object is unloaded.
InvLoaded ==
    /\ \A i \in 1..Len(fromTpm) :
          /\ fromTpm[i].rc = "SUCCESS"
          /\ fromTpm[i].hdr = "ok"
          /\ kind[fromTpm[i].id] = "FlushContext"
          => ~loaded
    /\ pc = "done" => ~loaded

TestInv == TestVarsOK /\ InvKinds /\ InvProgress /\ InvCaller /\ InvLoaded

-----------------------------------------------------------------------------
(* The test's steps are steps of the context.                              *)

LEMMA TestNextIsNext == [TestNext]_allVars => [Next]_vars
BY DEF TestNext, TestCall, TestFinish, TestSetAuth, TestError, TestTpm,
       Returned, Next, allVars, vars

\* RInv holds in every reachable state of the test.
LEMMA TestRInv == TestSpec => []RInv
<1>1. TestInit => RInv
  BY InitRInv DEF TestInit
<1>2. RInv /\ [TestNext]_allVars => RInv'
  BY TestNextIsNext, NextRInv
<1> QED
  BY <1>1, <1>2, PTL DEF TestSpec

-----------------------------------------------------------------------------
(* Facts about the test's control flow.                                    *)

\* A failed call leads to the error label, or ends the cleanup.
LEMMA AfterCallFail ==
  ASSUME NEW s, NEW r, r # "SUCCESS"
  PROVE  AfterCall(s, r) \in {"error", "failed"}
BY DEF AfterCall

\* A successful call at a point reached without error moves to the next
\* such point, and it was the next expected command.
LEMMA AfterCallSuccess ==
  ASSUME NEW s \in CallSites \cap Happy
  PROVE  /\ AfterCall(s, "SUCCESS") \in Happy
         /\ Completed(AfterCall(s, "SUCCESS")) = Completed(s) + 1
         /\ SiteKind[s] = Expected[Completed(s) + 1]
         /\ AfterCall(s, "SUCCESS") = "done" => SiteKind[s] = "FlushContext"
<1>1. s \in {"create", "hmac", "verify", "flush"}
  BY DEF CallSites, Happy
<1>2. CASE s = "create"
  BY <1>2 DEF AfterCall, Happy, Completed, SiteKind, Expected, CallSites
<1>3. CASE s = "hmac"
  BY <1>3 DEF AfterCall, Happy, Completed, SiteKind, Expected, CallSites
<1>4. CASE s = "verify"
  BY <1>4 DEF AfterCall, Happy, Completed, SiteKind, Expected, CallSites
<1>5. CASE s = "flush"
  BY <1>5 DEF AfterCall, Happy, Completed, SiteKind, Expected, CallSites
<1> QED
  BY <1>1, <1>2, <1>3, <1>4, <1>5

\* Finish returns SUCCESS only after consuming a verified, well-formed
\* success response to the current command, which the TPM executed once;
\* the context is then reusable.
LEMMA FinishSuccess ==
  ASSUME RInv, Finish, ret' = "SUCCESS"
  PROVE  /\ state' = "Init"
         /\ UNCHANGED <<cmd, executed>>
         /\ cmd \in 1..MaxCommands
         /\ executed[cmd] = 1
         /\ Len(fromTpm) = 1
         /\ fromTpm[1].rc = "SUCCESS"
         /\ fromTpm[1].hdr = "ok"
         /\ fromTpm[1].id = cmd
<1>1. state \in {"Sent", "Resubmission"}
  BY DEF Finish
<1>2. PICK o \in ReceiveOutcomes :
         /\ fromTpm' = IF o.rsp = NoRsp THEN fromTpm ELSE Tail(fromTpm)
         /\ \/ NotReady(o)
            \/ Resubmit(o)
            \/ TpmErrorReturn(o)
            \/ OtherErrorReturn(o)
            \/ CheckAndComplete(o)
  BY <1>1 DEF Finish
<1>3. UNCHANGED <<cmd, executed>>
  BY <1>1 DEF Finish
<1>4. Outcome(o)
  BY <1>1, ReceiveFacts DEF RInv
<1>5. ~NotReady(o)
  BY DEF NotReady, IsTryAgain
<1>6. ~Resubmit(o)
  <2>1. "SUCCESS" \notin RetryRcs
    BY RetryRcsDistinct
  <2> QED
    BY <2>1 DEF Resubmit, IsResubmitRc
<1>7. ~TpmErrorReturn(o) /\ ~OtherErrorReturn(o)
  BY DEF TpmErrorReturn, OtherErrorReturn, IsTpmError
<1>8. CheckAndComplete(o) /\ o.rsp.hmacOk /\ state' = "Init"
      /\ o.rc = "SUCCESS"
  BY <1>2, <1>5, <1>6, <1>7 DEF CheckAndComplete
<1>9. /\ Len(fromTpm) = 1
      /\ o.rsp = fromTpm[1]
      /\ o.rsp.id = cmd
      /\ o.rsp.hdr = "ok" /\ o.rsp.rc = "SUCCESS"
      /\ cmd \in 1..MaxCommands
  <2>1. "SUCCESS" \notin {"BAD_SEQUENCE", "TCTI_IO_ERROR", "TRY_AGAIN"}
        /\ "SUCCESS" \in TpmRcs
    BY DEF TpmRcs
  <2> QED
    BY <1>4, <1>8, <2>1 DEF Outcome
<1>10. executed[cmd] = 1
  <2>1. executed[cmd] # 0
    BY <1>9 DEF RInv, InvAnswered
  <2>2. executed[cmd] \in Nat /\ executed[cmd] <= 1
    BY <1>9 DEF RInv, IInv, TypeOK, InvSubmissions
  <2> QED
    BY <2>1, <2>2
<1> QED
  BY <1>3, <1>8, <1>9, <1>10

-----------------------------------------------------------------------------
(* TestInv holds initially and is kept by every step of the test.          *)

LEMMA TestInitInv == TestInit => TestInv
<1> SUFFICES ASSUME TestInit PROVE TestInv
  OBVIOUS
<1>1. Len(fromTpm) = 0
  BY EmptySeq DEF TestInit, Init
<1>2. TestVarsOK
  BY DEF TestInit, TestVarsOK, Points, CallSites
<1>3. InvProgress
  BY DEF TestInit, Init, InvProgress, Completed
<1>4. InvKinds
  BY DEF TestInit, InvKinds
<1>5. InvCaller /\ InvLoaded
  BY <1>1 DEF TestInit, Init, InvCaller, InvLoaded
<1> QED
  BY <1>2, <1>3, <1>4, <1>5 DEF TestInv

\* The calls completed at a point of the error-free path.
LEMMA CompletedRange ==
  ASSUME NEW p \in Happy
  PROVE  Completed(p) \in 0..4
BY DEF Happy, Completed

\* The point after an error is off the error-free path and not a call
\* site, so nothing about the context is claimed there.
LEMMA OffPath ==
  ASSUME NEW p \in {"error", "failed", "cleanup"}
  PROVE  p \notin Happy /\ p # "done" /\ p \in Points
BY DEF Happy, Points, CallSites

\* Esys_TR_SetAuth moves to the HMAC call with the context unchanged.
LEMMA TestSetAuthStep ==
  ASSUME RInv, TestInv, TestSetAuth
  PROVE  TestInv'
<1>1. caller = "Idle"
  BY DEF TestSetAuth, TestInv, InvCaller, CallSites, RInv, IInv, TypeOK
<1>2. Completed("hmac") = Completed("setauth") /\ "setauth" \in Happy
      /\ "hmac" \in Happy \cap CallSites \cap Points
  BY DEF Completed, Happy, CallSites, Points
<1>3. InvProgress'
  BY <1>1, <1>2 DEF TestSetAuth, TestInv, InvProgress, vars
<1> QED
  BY <1>1, <1>2, <1>3 DEF TestSetAuth, TestInv, TestVarsOK, InvKinds,
                          InvCaller, InvLoaded, vars

\* The error label flushes the object or gives up, off the error-free path.
LEMMA TestErrorStep ==
  ASSUME RInv, TestInv, TestError
  PROVE  TestInv'
<1>1. caller = "Idle"
  BY DEF TestError, TestInv, InvCaller, CallSites, RInv, IInv, TypeOK
<1>2. pc' \in {"cleanup", "failed"}
  BY DEF TestError
<1>3. pc' \notin Happy /\ pc' # "done" /\ pc' \in Points
  BY <1>2, OffPath
<1> QED
  BY <1>1, <1>3 DEF TestError, TestInv, TestVarsOK, InvKinds, InvProgress,
                    InvCaller, InvLoaded, vars

\* The TPM acts on the command of the call in progress: the commands before
\* it keep their executions, and a flush success it answers follows the
\* unloading of the object.
LEMMA TestTpmStep ==
  ASSUME RInv, TestInv, TestTpm
  PROVE  TestInv'
<1>1. TpmExecute /\ UNCHANGED <<pc, primaryHandle, kind>>
  BY DEF TestTpm
<1>2. /\ UNCHANGED <<cmd, outputs, caller, state>>
      /\ cmd \in 1..MaxCommands
      /\ executed[cmd] = 0
      /\ \/ executed' = executed
         \/ executed' = [executed EXCEPT ![cmd] = 1]
      /\ Len(fromTpm') = 1
      /\ fromTpm'[1].id = cmd
      /\ fromTpm'[1].rc = "SUCCESS" /\ fromTpm'[1].hdr = "ok"
           => executed' = [executed EXCEPT ![cmd] = 1]
      /\ Head(toTpm) = cmd
      /\ state # "Init"
  BY <1>1, TpmExecuteEffects DEF RInv, TpmExecute
<1>4. pc \in Happy => caller = "OneCall" /\ cmd = Completed(pc) + 1
  BY <1>2 DEF TestInv, InvProgress, RInv, IInv, TypeOK
<1>5. pc # "done"
  BY <1>4 DEF Happy, TestInv, InvCaller, CallSites
<1>6. executed \in [1..MaxCommands -> Nat]
  BY DEF RInv, IInv, TypeOK
<1>7. InvProgress'
  <2> SUFFICES ASSUME pc \in Happy
               PROVE  \A c \in 1..Completed(pc) :
                         kind[c] = Expected[c] /\ executed'[c] = 1
    BY <1>1, <1>2, <1>4 DEF TestInv, InvProgress
  <2>1. Completed(pc) \in Nat /\ Completed(pc) < cmd
    BY <1>2, <1>4, CompletedRange
  <2>2. \A c \in 1..Completed(pc) : executed'[c] = executed[c]
    <3>1. CASE executed' = executed
      BY <3>1
    <3>2. CASE executed' = [executed EXCEPT ![cmd] = 1]
      BY <3>2, <1>6, <2>1
    <3> QED
      BY <1>2, <3>1, <3>2
  <2> QED
    BY <2>2, <1>1 DEF TestInv, InvProgress
<1>8. loaded' \in BOOLEAN
  BY DEF TestTpm, TestInv, TestVarsOK
<1>9. fromTpm'[1].rc = "SUCCESS" /\ fromTpm'[1].hdr = "ok"
      /\ kind[cmd] = "FlushContext" => ~loaded'
  <2> SUFFICES ASSUME fromTpm'[1].rc = "SUCCESS", fromTpm'[1].hdr = "ok",
                      kind[cmd] = "FlushContext"
               PROVE  ~loaded'
    OBVIOUS
  <2>1. executed'[cmd] # executed[cmd]
    BY <1>2, <1>6
  <2>2. fromTpm'[Len(fromTpm')].rc = "SUCCESS"
    BY <1>2
  <2> QED
    BY <2>1, <2>2, <1>2 DEF TestTpm
<1>10. InvLoaded'
  BY <1>1, <1>2, <1>5, <1>9 DEF InvLoaded
<1> QED
  BY <1>1, <1>2, <1>7, <1>8, <1>10
     DEF TestInv, TestVarsOK, InvKinds, InvCaller

\* Async either refuses with BAD_SEQUENCE, or starts the next command from
\* a reusable context, whose transport is then empty.
LEMMA AsyncCases ==
  ASSUME IInv, Async
  PROVE  /\ UNCHANGED <<fromTpm, executed>>
         /\ \/ cmd' = cmd /\ ret' = "BAD_SEQUENCE"
            \/ /\ cmd' = cmd + 1
               /\ cmd < MaxCommands
               /\ fromTpm = << >>
<1>1. UNCHANGED <<fromTpm, executed>>
  BY AsyncEffects
<1>2. CASE state # "Init" /\ ret' = "BAD_SEQUENCE" /\ cmd' = cmd
  BY <1>1, <1>2
<1>3. CASE CheckSequenceAsync /\ cmd < MaxCommands /\ cmd' = cmd + 1
  BY <1>1, <1>3 DEF CheckSequenceAsync, IInv, InvInFlight
<1> QED
  BY <1>1, <1>2, <1>3 DEF Async

\* A call's Async: it fails at once and the test jumps off the error-free
\* path, or the command is prepared for the call site and the test enters
\* the one-call loop.
LEMMA TestCallStep ==
  ASSUME RInv, TestInv, TestCall
  PROVE  TestInv'
<1>0. /\ cmd \in 0..MaxCommands /\ MaxCommands \in Nat
      /\ loaded' = loaded /\ loaded \in BOOLEAN
  <2>1. cmd \in 0..MaxCommands /\ MaxCommands \in Nat
    BY BoundsPositive DEF RInv, IInv, TypeOK
  <2>2. loaded' = loaded /\ loaded \in BOOLEAN
    BY Zenon DEF TestCall, TestInv, TestVarsOK
  <2> QED
    BY <2>1, <2>2
<1>1. /\ caller = "Idle" /\ Async /\ pc \in CallSites
  BY DEF TestCall, OneCallBegin
<1>2. UNCHANGED <<fromTpm, executed>>
      /\ \/ cmd' = cmd /\ ret' = "BAD_SEQUENCE"
         \/ cmd' = cmd + 1 /\ cmd < MaxCommands /\ fromTpm = << >>
  BY <1>1, AsyncCases DEF RInv
<1>3. ret' # "SUCCESS" => /\ caller' = "Idle"
                          /\ pc' \in {"error", "failed"}
                          /\ primaryHandle' \in BOOLEAN
  <2> SUFFICES ASSUME ret' # "SUCCESS"
               PROVE  caller' = "Idle" /\ pc' = AfterCall(pc, ret')
                      /\ primaryHandle' \in BOOLEAN
    BY AfterCallFail
  <2> QED
    BY <1>1 DEF TestCall, OneCallBegin, Return, TestInv, TestVarsOK
<1>4. ret' = "SUCCESS" => caller' = "OneCall" /\ UNCHANGED <<pc, primaryHandle>>
  BY DEF TestCall, OneCallBegin
<1>5. CASE cmd' = cmd /\ ret' = "BAD_SEQUENCE"
  <2>1. kind' = kind
    BY <1>5 DEF TestCall
  <2>2. pc' \notin Happy /\ pc' # "done" /\ pc' \in Points
    BY <1>3, <1>5, OffPath
  <2> QED
    BY <1>0, <1>2, <1>3, <1>5, <2>1, <2>2, <1>1
       DEF TestInv, TestVarsOK, InvKinds, InvProgress, InvCaller, InvLoaded
<1>6. CASE cmd' = cmd + 1 /\ cmd < MaxCommands /\ fromTpm = << >>
  <2>1. kind' = [kind EXCEPT ![cmd + 1] = SiteKind[pc]]
    BY <1>1, <1>6 DEF TestCall
  <2>2. /\ kind' \in [1..MaxCommands -> Kinds \cup {"none"}]
        /\ \A c \in 1..MaxCommands : c # cmd + 1 => kind'[c] = kind[c]
        /\ kind'[cmd + 1] = SiteKind[pc]
    <3>1. SiteKind[pc] \in Kinds
      BY <1>1 DEF SiteKind, Kinds, CallSites
    <3>2. cmd + 1 \in 1..MaxCommands
      BY <1>0, <1>6
    <3> QED
      BY <2>1, <3>1, <3>2 DEF TestInv, TestVarsOK
  <2>3. InvKinds'
    BY <1>0, <1>6, <2>2 DEF TestInv, InvKinds
  <2>4. InvLoaded'
    <3>1. Len(fromTpm') = 0
      BY <1>2, <1>6, EmptySeq
    <3>2. pc' # "done"
      BY <1>1, <1>3, <1>4, OffPath DEF CallSites
    <3> QED
      BY <3>1, <3>2 DEF InvLoaded
  <2>5. CASE ret' = "SUCCESS"
    <3>1. InvProgress'
      <4> SUFFICES ASSUME pc \in Happy
                   PROVE  /\ \A c \in 1..Completed(pc) :
                                kind'[c] = Expected[c] /\ executed[c] = 1
                          /\ cmd + 1 = Completed(pc) + 1
        BY <1>1, <1>2, <1>4, <2>2, <2>5, <1>6 DEF InvProgress
      <4>1. cmd = Completed(pc) /\ Completed(pc) \in 0..4
        BY <1>1, CompletedRange DEF TestInv, InvProgress
      <4> QED
        BY <1>0, <4>1, <2>2 DEF TestInv, InvProgress
    <3> QED
      BY <1>0, <1>1, <1>4, <2>2, <2>3, <2>4, <2>5, <3>1
         DEF TestInv, TestVarsOK, InvCaller
  <2>6. CASE ret' # "SUCCESS"
    <3>1. pc' \notin Happy /\ pc' \in Points
      BY <1>3, <2>6, OffPath
    <3> QED
      BY <1>0, <1>3, <2>2, <2>3, <2>4, <2>6, <3>1
         DEF TestInv, TestVarsOK, InvProgress, InvCaller
  <2> QED
    BY <2>5, <2>6
<1> QED
  BY <1>2, <1>5, <1>6

\* One iteration of the one-call loop: the test stays in the loop, leaves
\* it with an error, or leaves it with the call's success and moves to the
\* next point of the error-free path, the command having been executed.
LEMMA TestFinishStep ==
  ASSUME RInv, TestInv, TestFinish
  PROVE  TestInv'
<1>1. /\ caller = "OneCall" /\ Finish /\ pc \in CallSites
      /\ UNCHANGED <<kind, loaded>>
  BY DEF TestFinish, OneCallFinish, TestInv, InvCaller
<1>2. /\ UNCHANGED <<cmd, executed>>
      /\ fromTpm' = fromTpm \/ fromTpm' = << >>
  BY <1>1, FinishEffects
<1>3. caller' \in {"OneCall", "Idle"}
  BY DEF TestFinish, OneCallFinish
\* What a flush success in the transport says is kept when the transport
\* is kept or emptied.
<1>4. (\A i \in 1..Len(fromTpm') :
          /\ fromTpm'[i].rc = "SUCCESS"
          /\ fromTpm'[i].hdr = "ok"
          /\ kind'[fromTpm'[i].id] = "FlushContext"
          => ~loaded')
  <2>1. CASE fromTpm' = << >>
    BY <2>1, EmptySeq
  <2>2. CASE fromTpm' = fromTpm
    BY <1>1, <2>2 DEF TestInv, InvLoaded
  <2> QED
    BY <1>2, <2>1, <2>2
<1>5. TestVarsOK' /\ InvKinds' /\ InvCaller'
  <2>1. caller' = "OneCall" => UNCHANGED pc
    BY DEF TestFinish
  <2>2. pc' \in Points /\ primaryHandle' \in BOOLEAN
    <3>1. CASE caller' = "Idle"
      <4>1. pc' = AfterCall(pc, ret')
            /\ primaryHandle' \in BOOLEAN
        BY <3>1 DEF TestFinish, Return, TestInv, TestVarsOK
      <4>2. AfterCall(pc, ret') \in Points
        BY DEF AfterCall, Points, CallSites
      <4> QED
        BY <4>1, <4>2
    <3>2. CASE caller' = "OneCall"
      BY <3>2 DEF TestFinish, TestInv, TestVarsOK
    <3> QED
      BY <1>3, <3>1, <3>2
  <2> QED
    BY <1>1, <1>2, <1>3, <2>1, <2>2 DEF TestInv, TestVarsOK, InvKinds, InvCaller
<1>6. CASE caller' = "OneCall"
  <2>1. UNCHANGED pc
    BY <1>6 DEF TestFinish
  <2>2. InvProgress'
    BY <1>1, <1>2, <1>6, <2>1 DEF TestInv, InvProgress
  <2>3. InvLoaded'
    BY <1>4, <2>1, <1>1 DEF InvLoaded, CallSites
  <2> QED
    BY <1>5, <2>2, <2>3 DEF TestInv
<1>7. CASE caller' = "Idle" /\ ret' # "SUCCESS"
  <2>1. pc' = AfterCall(pc, ret')
    BY <1>7 DEF TestFinish, Return
  <2>2. pc' \notin Happy /\ pc' # "done"
    BY <1>7, <2>1, AfterCallFail, OffPath
  <2> QED
    BY <1>4, <1>5, <2>2 DEF TestInv, InvProgress, InvLoaded
<1>8. CASE caller' = "Idle" /\ ret' = "SUCCESS"
  <2>1. pc' = AfterCall(pc, "SUCCESS")
    BY <1>8 DEF TestFinish, Return
  <2>2. /\ state' = "Init"
        /\ cmd \in 1..MaxCommands
        /\ executed[cmd] = 1
        /\ Len(fromTpm) = 1
        /\ fromTpm[1].rc = "SUCCESS"
        /\ fromTpm[1].hdr = "ok"
        /\ fromTpm[1].id = cmd
    BY <1>1, <1>8, FinishSuccess
  <2>3. CASE pc = "cleanup"
    <3>1. pc' \notin Happy /\ pc' # "done"
      BY <2>1, <2>3, OffPath DEF AfterCall
    <3> QED
      BY <1>4, <1>5, <3>1 DEF TestInv, InvProgress, InvLoaded
  <2>4. CASE pc \in CallSites \cap Happy
    <3>1. /\ cmd = Completed(pc) + 1
          /\ kind[cmd] = SiteKind[pc]
          /\ \A c \in 1..Completed(pc) : kind[c] = Expected[c] /\ executed[c] = 1
      BY <1>1, <2>4 DEF TestInv, InvProgress
    <3>2. /\ pc' \in Happy
          /\ Completed(pc') = cmd
          /\ SiteKind[pc] = Expected[cmd]
          /\ pc' = "done" => SiteKind[pc] = "FlushContext"
      BY <2>1, <2>4, <3>1, AfterCallSuccess
    <3>3. Completed(pc) \in 0..4
      BY <2>4, CompletedRange
    <3>4. \A c \in 1..Completed(pc') : kind'[c] = Expected[c] /\ executed'[c] = 1
      BY <1>1, <1>2, <2>2, <3>1, <3>2, <3>3
    <3>5. InvProgress'
      BY <1>2, <1>8, <2>2, <3>2, <3>4 DEF InvProgress
    <3>6. pc' = "done" => ~loaded'
      BY <1>1, <2>2, <3>1, <3>2 DEF TestInv, InvLoaded
    <3> QED
      BY <1>4, <1>5, <3>5, <3>6 DEF TestInv, InvLoaded
  <2> QED
    BY <1>1, <2>3, <2>4 DEF CallSites, Happy
<1> QED
  BY <1>3, <1>6, <1>7, <1>8

\* Every step of the test keeps TestInv.
LEMMA TestNextInv ==
  ASSUME RInv, TestInv, [TestNext]_allVars
  PROVE  TestInv'
<1>1. CASE TestCall
  BY <1>1, TestCallStep
<1>2. CASE TestFinish
  BY <1>2, TestFinishStep
<1>3. CASE TestSetAuth
  BY <1>3, TestSetAuthStep
<1>4. CASE TestError
  BY <1>4, TestErrorStep
<1>5. CASE TestTpm
  BY <1>5, TestTpmStep
<1>6. CASE Returned \/ UNCHANGED allVars
  <2>1. UNCHANGED allVars
    BY <1>6 DEF Returned
  <2> QED
    BY <2>1 DEF allVars, vars, testVars, TestInv, TestVarsOK, InvKinds,
                InvProgress, InvCaller, InvLoaded
<1> QED
  BY <1>1, <1>2, <1>3, <1>4, <1>5, <1>6 DEF TestNext

-----------------------------------------------------------------------------
(* The theorems.                                                           *)

\* RInv and TestInv hold in every state the test reaches.
THEOREM TestInvariant == TestSpec => [](RInv /\ TestInv)
<1>1. TestInit => RInv /\ TestInv
  BY InitRInv, TestInitInv DEF TestInit
<1>2. RInv /\ TestInv /\ [TestNext]_allVars => (RInv /\ TestInv)'
  BY TestNextIsNext, NextRInv, TestNextInv
<1> QED
  BY <1>1, <1>2, PTL DEF TestSpec

\* The test's variables and the context's keep their types
\* (TestTypeOK of the run esys_hmac_test) for every value of the constants.
THEOREM TestTypeCorrect == TestSpec => []TestTypeOK
<1>1. RInv /\ TestInv => TestTypeOK
  BY DEF RInv, IInv, TestInv, TestVarsOK, TestTypeOK
<1> QED
  BY <1>1, TestInvariant, PTL

\* EXIT_SUCCESS of esys-hmac.int.c means that the TPM executed
\* CreatePrimary, HMAC, VerifySignature and FlushContext, in that order and
\* each once, and that the object is unloaded (TestSuccessSound of the run
\* esys_hmac_test), for every bound on commands and submissions and every
\* set of timeouts, retry codes, transport errors and Async faults.
THEOREM TestSuccessSoundTheorem == TestSpec => []TestSuccessSound
<1>1. RInv /\ TestInv => TestSuccessSound
  <2> SUFFICES ASSUME RInv, TestInv, pc = "done"
               PROVE  TestSuccessSound
    BY DEF TestSuccessSound
  <2>1. caller = "Idle"
    BY DEF TestInv, InvCaller, CallSites, RInv, IInv, TypeOK
  <2>2. /\ cmd = 4
        /\ \A c \in 1..4 : kind[c] = Expected[c] /\ executed[c] = 1
        /\ ~loaded
    BY <2>1 DEF TestInv, InvProgress, InvLoaded, Happy, Completed
  <2>3. /\ kind \in [1..MaxCommands -> Kinds \cup {"none"}]
        /\ \A c \in 1..MaxCommands : c > 4 => kind[c] = "none"
        /\ 4 <= MaxCommands
    BY <2>2 DEF TestInv, TestVarsOK, InvKinds, RInv, IInv, TypeOK
  <2>4. kind = [c \in 1..MaxCommands |->
                  IF c <= 4
                  THEN <<"CreatePrimary", "HMAC", "VerifySignature",
                         "FlushContext">>[c]
                  ELSE "none"]
    BY <2>2, <2>3 DEF Expected
  <2> QED
    BY <2>2, <2>4 DEF TestSuccessSound
<1> QED
  BY <1>1, TestInvariant, PTL

=============================================================================
