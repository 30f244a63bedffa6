------------------------- MODULE SysCommandsProofs -------------------------
(***************************************************************************)
(* Proofs that SInv is an inductive invariant of the SAPI per-command      *)
(* functions on one context, hence that FlagsMatchLayout and               *)
(* ResponseBelongsToCommand hold in every reachable state, and that the    *)
(* context implements the contract of SysContractAbstract, for every set   *)
(* of commands and error codes that satisfies Assumptions.                 *)
(***************************************************************************)
EXTENDS SysCommands, TLAPS

\* What a command file states: the flags follow the parameter layout, and
\* every field has the type the model uses.
CommandOk(c) ==
    /\ c.decryptAllowed = (IF c.firstTpm2b THEN 1 ELSE 0)
    /\ c.encryptAllowed = (IF c.firstOutTpm2b THEN 1 ELSE 0)
    /\ c.authAllowed \in {0, 1}
    /\ c.marshals \in Nat
    /\ c.unmarshals \in Nat
    /\ c.firstTpm2b \in BOOLEAN
    /\ c.setsNull \in BOOLEAN
    /\ c.required \in BOOLEAN

\* Every command file of the source tree states it.
LEMMA CommandFacts == \A c \in AllCommands : CommandOk(c)
<1>1. CommandOk(Startup)
  BY DEF CommandOk, Startup
<1>2. CommandOk(TestParms)
  BY DEF CommandOk, TestParms
<1>3. CommandOk(ClockRateAdjust)
  BY DEF CommandOk, ClockRateAdjust
<1>4. CommandOk(PCR_Extend)
  BY DEF CommandOk, PCR_Extend
<1>5. CommandOk(PCR_SetAuthValue)
  BY DEF CommandOk, PCR_SetAuthValue
<1>6. CommandOk(PolicyAuthorize)
  BY DEF CommandOk, PolicyAuthorize
<1>7. CommandOk(EncryptDecrypt2)
  BY DEF CommandOk, EncryptDecrypt2
<1>8. CommandOk(SequenceComplete)
  BY DEF CommandOk, SequenceComplete
<1> QED
  BY <1>1, <1>2, <1>3, <1>4, <1>5, <1>6, <1>7, <1>8, Zenon DEF AllCommands

\* No two command files share a command code.
LEMMA CodesUnique ==
    \A c1, c2 \in AllCommands : c1.cc = c2.cc => c1 = c2
<1>1. Startup.cc = "Startup"
  BY DEF Startup
<1>2. TestParms.cc = "TestParms"
  BY DEF TestParms
<1>3. ClockRateAdjust.cc = "ClockRateAdjust"
  BY DEF ClockRateAdjust
<1>4. PCR_Extend.cc = "PCR_Extend"
  BY DEF PCR_Extend
<1>5. PCR_SetAuthValue.cc = "PCR_SetAuthValue"
  BY DEF PCR_SetAuthValue
<1>6. PolicyAuthorize.cc = "PolicyAuthorize"
  BY DEF PolicyAuthorize
<1>7. EncryptDecrypt2.cc = "EncryptDecrypt2"
  BY DEF EncryptDecrypt2
<1>8. SequenceComplete.cc = "SequenceComplete"
  BY DEF SequenceComplete
<1> QED
  BY <1>1, <1>2, <1>3, <1>4, <1>5, <1>6, <1>7, <1>8 DEF AllCommands

\* The command code of a command leads back to its file.
LEMMA DescOfCode ==
    \A c \in Commands : Desc(c.cc) = c
<1> SUFFICES ASSUME NEW c \in Commands PROVE Desc(c.cc) = c
  OBVIOUS
<1>1. Commands \subseteq AllCommands
  BY Assumptions
<1>2. \E d \in Commands : d.cc = c.cc
  OBVIOUS
<1>3. Desc(c.cc) \in Commands /\ Desc(c.cc).cc = c.cc
  BY <1>2 DEF Desc
<1> QED
  BY <1>1, <1>3, CodesUnique

\* The values Prepare stores for command c called with arguments a.
LEMMA PrepareValues ==
    ASSUME NEW c \in Commands, NEW a \in Args(c)
    PROVE  /\ DecryptNullAfter(c, a) \in {0, 1}
           /\ DecryptNullAfter(c, a) = 1 => a.firstNull
           /\ a.firstNull \in BOOLEAN
           /\ c.cc \in Codes
           /\ Desc(c.cc) = c
           /\ c.decryptAllowed = (IF c.firstTpm2b THEN 1 ELSE 0)
           /\ c.encryptAllowed = (IF c.firstOutTpm2b THEN 1 ELSE 0)
           /\ c.authAllowed \in {0, 1}
<1>1. c \in AllCommands
  BY Assumptions
<1>2. a.firstNull \in BOOLEAN
  BY <1>1, CommandFacts DEF CommandOk, Args
<1> QED
  BY <1>1, <1>2, CommandFacts, DescOfCode DEF CommandOk, DecryptNullAfter, Codes

\* The codes Complete can return are return codes of the model.
LEMMA CompleteRcsType ==
    ASSUME NEW c \in Commands, NEW r \in ResponseRcs
    PROVE  CompleteRcs(c, r) \subseteq RetCodes
BY DEF CompleteRcs, RetCodes, ResponseRcs, TpmRcs

\* The stage after a response is one of the two the contract allows.
LEMMA StageAfterResponseValues ==
    ASSUME NEW r
    PROVE  StageAfterResponse(r) \in {"Prepared", "Received"}
BY DEF StageAfterResponse

\* The initial state satisfies the inductive invariant.
LEMMA InitSInv == Init => SInv
BY DEF Init, SInv, TypeOK, Stages, ResponseRcs, TpmRcs, RetCodes,
       FlagsMatchLayout

\* A step that only sets the return code to one of the model's codes
\* keeps the invariant.
LEMMA ReturnOnlySInv ==
    ASSUME SInv, rc' \in RetCodes,
           UNCHANGED <<stage, cmd, decryptAllowed, encryptAllowed,
                       authAllowed, decryptNull, firstParamNull, sentCmd,
                       rspRc>>
    PROVE  SInv'
BY DEF SInv, TypeOK, FlagsMatchLayout

\* A failed Prepare leaves the context "Initialized" or untouched.
LEMMA PrepareFailsSInv ==
    ASSUME SInv, NEW c \in Commands, NEW a \in Args(c), PrepareFails(c, a)
    PROVE  SInv'
<1>1. CASE BadReference(c, a)
  BY <1>1, ReturnOnlySInv DEF BadReference, RetCodes
<1>2. CASE PrologueBadSequence(c, a)
  BY <1>2, ReturnOnlySInv DEF PrologueBadSequence, RetCodes
<1>3. CASE MarshalFailure(c, a)
  <2>1. /\ stage' = "Initialized"
        /\ cmd' \in Codes
        /\ {decryptAllowed', encryptAllowed', authAllowed', decryptNull'}
             \subseteq {0, 1}
        /\ firstParamNull' \in BOOLEAN
        /\ rc' \in RetCodes
        /\ UNCHANGED <<sentCmd, rspRc>>
    BY <1>3, PrepareValues DEF MarshalFailure, RetCodes
  <2> QED
    BY <2>1 DEF SInv, TypeOK, Stages, FlagsMatchLayout
<1> QED
  BY <1>1, <1>2, <1>3 DEF PrepareFails

\* What a complete Prepare body leaves in the context.
LEMMA PrepareOkValues ==
    ASSUME NEW c \in Commands, NEW a \in Args(c), PrepareOk(c, a)
    PROVE  /\ cmd' \in Codes
           /\ {decryptAllowed', encryptAllowed', authAllowed', decryptNull'}
                \subseteq {0, 1}
           /\ firstParamNull' \in BOOLEAN
           /\ decryptAllowed' = (IF Desc(cmd').firstTpm2b THEN 1 ELSE 0)
           /\ encryptAllowed' = (IF Desc(cmd').firstOutTpm2b THEN 1 ELSE 0)
           /\ cmd' = c.cc
<1>1. cmd' = c.cc
  BY DEF PrepareOk
<1> QED
  BY <1>1, PrepareValues DEF PrepareOk

\* A step after a complete Prepare body keeps the invariant when it leaves
\* the context outside "Initialized" with a well-typed exchange that, in
\* flight or answered, carries the prepared command.
LEMMA AfterPrepareOkSInv ==
    ASSUME SInv, NEW c \in Commands, NEW a \in Args(c), PrepareOk(c, a),
           stage' \in Stages \ {"Initialized"},
           sentCmd' \in Codes \cup {NoCmd},
           stage' \in {"Sent", "Received"} => sentCmd' = c.cc,
           rspRc' \in ResponseRcs,
           rc' \in RetCodes
    PROVE  SInv'
BY PrepareOkValues DEF SInv, TypeOK, FlagsMatchLayout

\* Tss2_Sys_<Cmd>_Prepare keeps the invariant.
LEMMA PrepareSInv ==
    ASSUME SInv, NEW c \in Commands, NEW a \in Args(c), Prepare(c, a)
    PROVE  SInv'
<1>1. CASE PrepareFails(c, a)
  BY <1>1, PrepareFailsSInv
<1>2. CASE /\ PrepareOk(c, a)
           /\ stage' = "Prepared"
           /\ rc' = "SUCCESS"
           /\ UNCHANGED <<sentCmd, rspRc>>
  <2>1. rc' \in RetCodes /\ rspRc' \in ResponseRcs
        /\ sentCmd' \in Codes \cup {NoCmd}
    BY <1>2 DEF SInv, TypeOK, RetCodes, ResponseRcs, TpmRcs
  <2> QED
    BY <1>2, <2>1, AfterPrepareOkSInv DEF Stages
<1> QED
  BY <1>1, <1>2 DEF Prepare

\* The one-call function keeps the invariant: whatever part of its
\* exchange fails, the exchange it reports in flight or answered carries
\* the command it has just prepared.
LEMMA OneCallSInv ==
    ASSUME SInv, NEW c \in Commands, NEW a \in Args(c), OneCall(c, a)
    PROVE  SInv'
<1>1. CASE PrepareFails(c, a)
  BY <1>1, PrepareFailsSInv
<1>2. c.cc \in Codes /\ sentCmd \in Codes \cup {NoCmd} /\ rspRc \in ResponseRcs
  BY DEF Codes, SInv, TypeOK
<1>3. TransportErrors \subseteq RetCodes
  BY DEF TransportErrors, RetCodes
<1>4. CASE /\ PrepareOk(c, a)
           /\ stage' = "Prepared"
           /\ sentCmd' \in {sentCmd, c.cc}
           /\ rc' \in TransportErrors
           /\ UNCHANGED rspRc
  BY <1>2, <1>3, <1>4, AfterPrepareOkSInv DEF Stages
<1>5. CASE /\ PrepareOk(c, a)
           /\ stage' = "Sent"
           /\ sentCmd' = c.cc
           /\ rc' \in TransportErrors
           /\ UNCHANGED rspRc
  BY <1>2, <1>3, <1>5, AfterPrepareOkSInv DEF Stages
<1>6. CASE /\ PrepareOk(c, a)
           /\ sentCmd' = c.cc
           /\ \E r \in ResponseRcs :
                 /\ stage' = StageAfterResponse(r)
                 /\ rspRc' = r
                 /\ rc' \in CompleteRcs(c, r)
  <2>1. PICK r \in ResponseRcs :
                 /\ stage' = StageAfterResponse(r)
                 /\ rspRc' = r
                 /\ rc' \in CompleteRcs(c, r)
    BY <1>6
  <2>2. rc' \in RetCodes
    BY <2>1, CompleteRcsType
  <2>3. stage' \in Stages \ {"Initialized"}
    BY <2>1, StageAfterResponseValues DEF Stages
  <2> QED
    BY <1>2, <1>6, <2>1, <2>2, <2>3, AfterPrepareOkSInv
<1> QED
  BY <1>1, <1>4, <1>5, <1>6 DEF OneCall

\* Sending the prepared buffer records its command code; a failed
\* transmit keeps the command prepared.
LEMMA ExecuteAsyncSInv ==
    ASSUME SInv, ExecuteAsync
    PROVE  SInv'
<1>1. CASE /\ stage = "Prepared"
           /\ stage' = "Sent"
           /\ sentCmd' = cmd
           /\ rc' = "SUCCESS"
           /\ UNCHANGED <<cmd, decryptAllowed, encryptAllowed, authAllowed,
                          decryptNull, firstParamNull, rspRc>>
  <2>1. TypeOK'
    BY <1>1 DEF SInv, TypeOK, Stages, RetCodes, ResponseRcs, TpmRcs
  <2>2. FlagsMatchLayout'
    BY <1>1, Zenon DEF SInv, FlagsMatchLayout
  <2>3. (stage' # "Initialized" => cmd' \in Codes)
        /\ (stage' \in {"Sent", "Received"} => sentCmd' = cmd')
    BY <1>1 DEF SInv
  <2> QED
    BY <2>1, <2>2, <2>3 DEF SInv
<1>2. CASE /\ stage = "Prepared"
           /\ rc' \in TransportErrors
           /\ sentCmd' \in {sentCmd, cmd}
           /\ UNCHANGED <<stage, cmd, decryptAllowed, encryptAllowed,
                          authAllowed, decryptNull, firstParamNull, rspRc>>
  <2>1. TypeOK'
    BY <1>2 DEF SInv, TypeOK, Stages, RetCodes, TransportErrors
  <2>2. FlagsMatchLayout'
    BY <1>2, Zenon DEF SInv, FlagsMatchLayout
  <2>3. (stage' # "Initialized" => cmd' \in Codes)
        /\ (stage' \in {"Sent", "Received"} => sentCmd' = cmd')
    BY <1>2 DEF SInv
  <2> QED
    BY <2>1, <2>2, <2>3 DEF SInv
<1>3. CASE /\ stage # "Prepared"
           /\ rc' = "BAD_SEQUENCE"
           /\ UNCHANGED <<stage, cmd, decryptAllowed, encryptAllowed,
                          authAllowed, decryptNull, firstParamNull, sentCmd,
                          rspRc>>
  BY <1>3, ReturnOnlySInv DEF RetCodes
<1> QED
  BY <1>1, <1>2, <1>3 DEF ExecuteAsync

\* Receiving the answer keeps the command the buffer carried.
LEMMA ExecuteFinishSInv ==
    ASSUME SInv, NEW b \in BOOLEAN, ExecuteFinish(b)
    PROVE  SInv'
<1>1. CASE /\ stage = "Sent"
           /\ \E r \in ResponseRcs :
                 /\ stage' = StageAfterResponse(r)
                 /\ rspRc' = r
                 /\ rc' = r
           /\ UNCHANGED <<cmd, decryptAllowed, encryptAllowed, authAllowed,
                          decryptNull, firstParamNull, sentCmd>>
  <2>1. PICK r \in ResponseRcs :
                 /\ stage' = StageAfterResponse(r)
                 /\ rspRc' = r
                 /\ rc' = r
    BY <1>1
  <2>2. stage' \in Stages \ {"Initialized"} /\ rc' \in RetCodes
    BY <2>1, StageAfterResponseValues DEF Stages, RetCodes
  <2>3. TypeOK'
    BY <1>1, <2>1, <2>2 DEF SInv, TypeOK
  <2>4. FlagsMatchLayout'
    BY <1>1, <2>2, Zenon DEF SInv, FlagsMatchLayout
  <2>5. (stage' # "Initialized" => cmd' \in Codes)
        /\ (stage' \in {"Sent", "Received"} => sentCmd' = cmd')
    BY <1>1 DEF SInv
  <2> QED
    BY <2>3, <2>4, <2>5 DEF SInv
<1>2. CASE /\ rc' \in TransportErrors \cup (IF b THEN {} ELSE {"TRY_AGAIN"})
           /\ UNCHANGED <<stage, cmd, decryptAllowed, encryptAllowed,
                          authAllowed, decryptNull, firstParamNull, sentCmd,
                          rspRc>>
  <2>1. rc' \in RetCodes
    BY <1>2 DEF RetCodes, TransportErrors
  <2> QED
    BY <1>2, <2>1, ReturnOnlySInv
<1>3. CASE /\ stage # "Sent"
           /\ rc' = "BAD_SEQUENCE"
           /\ UNCHANGED <<stage, cmd, decryptAllowed, encryptAllowed,
                          authAllowed, decryptNull, firstParamNull, sentCmd,
                          rspRc>>
  BY <1>3, ReturnOnlySInv DEF RetCodes
<1> QED
  BY <1>1, <1>2, <1>3 DEF ExecuteFinish

\* Complete only returns a code.
LEMMA CompleteSInv ==
    ASSUME SInv, NEW c \in Commands, NEW b \in BOOLEAN, Complete(c, b)
    PROVE  SInv'
<1>1. rc' \in RetCodes
  BY CompleteRcsType DEF Complete, RetCodes, ResponseRcs, TpmRcs
<1> QED
  BY <1>1, ReturnOnlySInv DEF Complete

\* Every step of the model keeps the invariant.
LEMMA NextSInv == SInv /\ [Next]_vars => SInv'
<1> SUFFICES ASSUME SInv, [Next]_vars PROVE SInv'
  OBVIOUS
<1>1. CASE \E c \in Commands : \E a \in Args(c) : Prepare(c, a)
  BY <1>1, PrepareSInv
<1>2. CASE \E c \in Commands : \E a \in Args(c) : OneCall(c, a)
  BY <1>2, OneCallSInv
<1>3. CASE \E c \in Commands : \E b \in BOOLEAN : Complete(c, b)
  BY <1>3, CompleteSInv
<1>4. CASE ExecuteAsync
  BY <1>4, ExecuteAsyncSInv
<1>5. CASE \E b \in BOOLEAN : ExecuteFinish(b)
  BY <1>5, ExecuteFinishSInv
<1>6. CASE UNCHANGED vars
  BY <1>6 DEF vars, SInv, TypeOK, FlagsMatchLayout
<1> QED
  BY <1>1, <1>2, <1>3, <1>4, <1>5, <1>6 DEF Next

\* SInv holds in every reachable state of a SAPI context.
THEOREM SInvInvariant == Spec => []SInv
BY InitSInv, NextSInv, PTL DEF Spec

\* While a command is prepared, in flight or answered, the parameter
\* encryption flags stored by the Prepare functions match the command's
\* parameter layout, whatever failed Prepare calls came before.
THEOREM FlagsMatchLayoutInvariant == Spec => []FlagsMatchLayout
<1>1. SInv => FlagsMatchLayout
  BY DEF SInv
<1> QED
  BY <1>1, SInvInvariant, PTL

\* Complete can only read a response that answers the command the context
\* holds, even after a Prepare that failed half way.
THEOREM ResponseBelongsToCommandInvariant == Spec => []ResponseBelongsToCommand
<1>1. SInv => ResponseBelongsToCommand
  BY DEF SInv, ResponseBelongsToCommand
<1> QED
  BY <1>1, SInvInvariant, PTL

\* Every field of the SAPI context keeps its type in every reachable state,
\* through every early return of the Prepare and Complete functions.
THEOREM TypeCorrect == Spec => []TypeOK
<1>1. SInv => TypeOK
  BY DEF SInv
<1> QED
  BY <1>1, SInvInvariant, PTL

-----------------------------------------------------------------------------
(* Refinement of the SAPI contract.  Each step of the context is a step of  *)
(* SysContractAbstract under the mapping of Contract: a failed or complete  *)
(* Prepare is Begin, a successful ExecuteAsync is Send and a failed one     *)
(* SendFails, an ExecuteFinish that reads a response is Receive, the        *)
(* one-call function is Exchange, and an early return, a failed or empty   *)
(* receive, or Complete leaves the contract's state as it was.  Only       *)
(* TypeOK of SInv is needed, so that previousStage has a phase.             *)

AStep == [Contract!ANext]_Contract!avars

\* The phase of each stage.
LEMMA PhaseFacts ==
    ASSUME stage \in Stages
    PROVE  /\ PhaseOf[stage] = "inflight" <=> stage = "Sent"
           /\ PhaseOf["Initialized"] = "idle"
           /\ PhaseOf["Prepared"] = "prepared"
           /\ PhaseOf["Sent"] = "inflight"
           /\ PhaseOf["Received"] = "answered"
BY DEF PhaseOf, Stages

\* The phase after a response was read.
LEMMA PhaseAfterResponse ==
    ASSUME NEW r
    PROVE  PhaseOf[StageAfterResponse(r)] \in {"answered", "prepared"}
BY DEF PhaseOf, StageAfterResponse

\* The first state of a context is the contract's first state.
LEMMA InitContract == Init => Contract!AInit
BY DEF Init, Contract!AInit, PhaseOf, Contract!NoCmd, NoCmd

\* A step that changes neither stage, command nor sent command is a
\* stutter of the contract.
LEMMA ReturnOnlyContract ==
    ASSUME UNCHANGED <<stage, cmd, sentCmd>>
    PROVE  AStep
BY DEF AStep, Contract!avars

\* A Prepare, successful or not, begins its command.
LEMMA PrepareContract ==
    ASSUME TypeOK, NEW c \in Commands, NEW a \in Args(c), Prepare(c, a)
    PROVE  AStep
<1>1. CASE BadReference(c, a) \/ PrologueBadSequence(c, a)
  BY <1>1, ReturnOnlyContract DEF BadReference, PrologueBadSequence
<1>2. c.cc \in Codes
  BY DEF Codes
<1>3. CASE MarshalFailure(c, a)
  <2>1. PhaseOf[stage] # "inflight" /\ PhaseOf[stage'] = "idle"
    BY <1>3, PhaseFacts DEF TypeOK, MarshalFailure, PrologueAllowed
  <2>2. Contract!Begin(c.cc)
    BY <1>3, <2>1 DEF Contract!Begin, MarshalFailure
  <2> QED
    BY <1>2, <2>2 DEF AStep, Contract!ANext
<1>4. CASE /\ PrepareOk(c, a)
           /\ stage' = "Prepared"
           /\ UNCHANGED <<sentCmd, rspRc>>
  <2>1. PhaseOf[stage] # "inflight" /\ PhaseOf[stage'] = "prepared"
    BY <1>4, PhaseFacts DEF TypeOK, PrepareOk, PrologueAllowed
  <2>2. Contract!Begin(c.cc)
    BY <1>4, <2>1 DEF Contract!Begin, PrepareOk
  <2> QED
    BY <1>2, <2>2 DEF AStep, Contract!ANext
<1> QED
  BY <1>1, <1>3, <1>4 DEF Prepare, PrepareFails

\* The one-call function is one exchange of the command it prepared,
\* stopped wherever its transmit or receive fails.
LEMMA OneCallContract ==
    ASSUME TypeOK, NEW c \in Commands, NEW a \in Args(c), OneCall(c, a)
    PROVE  AStep
<1>1. CASE PrepareFails(c, a)
  BY <1>1, PrepareContract DEF Prepare
<1>2. CASE PrepareOk(c, a) /\ ~PrepareFails(c, a)
  <2>1. PhaseOf[stage] # "inflight" /\ cmd' = c.cc /\ c.cc \in Codes
    BY <1>2, PhaseFacts DEF TypeOK, PrepareOk, PrologueAllowed, Codes
  <2>2. \/ PhaseOf[stage'] \in {"inflight", "answered"} /\ sentCmd' = c.cc
        \/ PhaseOf[stage'] = "prepared" /\ sentCmd' \in {sentCmd, c.cc}
    <3>1. CASE stage' = "Prepared" /\ sentCmd' \in {sentCmd, c.cc}
      BY <3>1 DEF PhaseOf
    <3>2. CASE stage' = "Sent" /\ sentCmd' = c.cc
      BY <3>2 DEF PhaseOf
    <3>3. CASE sentCmd' = c.cc /\ \E r \in ResponseRcs : stage' = StageAfterResponse(r)
      BY <3>3, PhaseAfterResponse
    <3> QED
      BY <1>2, <3>1, <3>2, <3>3 DEF OneCall
  <2>3. Contract!Exchange(c.cc)
    BY <2>1, <2>2 DEF Contract!Exchange
  <2> QED
    BY <2>1, <2>3 DEF AStep, Contract!ANext
<1> QED
  BY <1>1, <1>2 DEF OneCall

\* ExecuteAsync sends the prepared command, or fails and leaves it
\* prepared.
LEMMA ExecuteAsyncContract ==
    ASSUME TypeOK, ExecuteAsync
    PROVE  AStep
<1>1. CASE /\ stage = "Prepared"
           /\ stage' = "Sent"
           /\ sentCmd' = cmd
           /\ UNCHANGED cmd
  <2>1. Contract!Send
    BY <1>1, PhaseFacts DEF TypeOK, Stages, Contract!Send
  <2> QED
    BY <2>1 DEF AStep, Contract!ANext
<1>2. CASE /\ stage = "Prepared"
           /\ sentCmd' \in {sentCmd, cmd}
           /\ UNCHANGED <<stage, cmd>>
  <2>1. Contract!SendFails
    BY <1>2, PhaseFacts DEF TypeOK, Stages, Contract!SendFails
  <2> QED
    BY <2>1 DEF AStep, Contract!ANext
<1>3. CASE UNCHANGED <<stage, cmd, sentCmd>>
  BY <1>3, ReturnOnlyContract
<1> QED
  BY <1>1, <1>2, <1>3 DEF ExecuteAsync

\* ExecuteFinish reads the answer to the command in flight, or returns
\* without one.
LEMMA ExecuteFinishContract ==
    ASSUME TypeOK, NEW b \in BOOLEAN, ExecuteFinish(b)
    PROVE  AStep
<1>1. CASE /\ stage = "Sent"
           /\ \E r \in ResponseRcs : stage' = StageAfterResponse(r)
           /\ UNCHANGED <<cmd, sentCmd>>
  <2>1. Contract!Receive
    BY <1>1, PhaseFacts, PhaseAfterResponse DEF TypeOK, Stages, Contract!Receive
  <2> QED
    BY <2>1 DEF AStep, Contract!ANext
<1>2. CASE UNCHANGED <<stage, cmd, sentCmd>>
  BY <1>2, ReturnOnlyContract
<1> QED
  BY <1>1, <1>2 DEF ExecuteFinish

\* Every step of a context is a step of the contract or leaves it as it is.
LEMMA NextContract == TypeOK /\ [Next]_vars => AStep
<1> SUFFICES ASSUME TypeOK, [Next]_vars PROVE AStep
  OBVIOUS
<1>1. CASE \E c \in Commands : \E a \in Args(c) : Prepare(c, a)
  BY <1>1, PrepareContract
<1>2. CASE \E c \in Commands : \E a \in Args(c) : OneCall(c, a)
  BY <1>2, OneCallContract
<1>3. CASE \E c \in Commands : \E b \in BOOLEAN : Complete(c, b)
  BY <1>3, ReturnOnlyContract DEF Complete
<1>4. CASE ExecuteAsync
  BY <1>4, ExecuteAsyncContract
<1>5. CASE \E b \in BOOLEAN : ExecuteFinish(b)
  BY <1>5, ExecuteFinishContract
<1>6. CASE UNCHANGED vars
  BY <1>6, ReturnOnlyContract DEF vars
<1> QED
  BY <1>1, <1>2, <1>3, <1>4, <1>5, <1>6 DEF Next

\* A SAPI context keeps the contract of SysContractAbstract, with the
\* transmit and receive failures and the TPM error that sends a command
\* back to prepared: no Prepare begins a command while one is in flight,
\* only a prepared command is sent, a failed Prepare leaves its command
\* unprepared, and the one-call function exchanges the command it prepared
\* (ContractSpec of the run sys_commands).
THEOREM ContractRefinement == Spec => ContractSpec
<1>1. Init => Contract!AInit
  BY InitContract
<1>2. TypeOK /\ [Next]_vars => [Contract!ANext]_Contract!avars
  BY NextContract DEF AStep
<1> QED
  BY <1>1, <1>2, TypeCorrect, PTL DEF Spec, ContractSpec, Contract!ASpec


\* The contract's promise holds of the context: an exchange in flight or
\* answered is the exchange of the command ctx->commandCode names.
THEOREM ContractPromise == Spec => []Contract!AnswerIsHeld
<1>1. SInv => Contract!AnswerIsHeld
  BY DEF SInv, TypeOK, Stages, Contract!AnswerIsHeld, PhaseOf
<1> QED
  BY <1>1, SInvInvariant, PTL

=============================================================================
