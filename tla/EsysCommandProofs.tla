------------------------- MODULE EsysCommandProofs -------------------------
(***************************************************************************)
(* Proofs that IInv is an inductive invariant of the ESAPI command state   *)
(* machine, and hence that TypeOK, OutputsMatchCommand,                    *)
(* NoDuplicateExecution and ResubmissionBound hold in every reachable      *)
(* state, for every value of the constants that satisfies Assumptions.     *)
(***************************************************************************)
EXTENDS EsysCommand, SequenceTheorems, TLAPS

\* The bounds of the model are positive numbers.
LEMMA BoundsPositive ==
    MaxSubmissions \in Nat \ {0} /\ MaxCommands \in Nat \ {0}
BY Assumptions

USE BoundsPositive

\* The retry-class codes are TPM errors, distinct from success and from the
\* codes of the other layers.
LEMMA RetryRcsDistinct ==
    \A r \in RetryRcs :
        /\ r \in TpmRcs \ {"SUCCESS"}
        /\ r \notin {"TPM_RC_FAILURE", "TRY_AGAIN", "TCTI_TRY_AGAIN",
                      "TCTI_IO_ERROR", "NONE", "BAD_SEQUENCE",
                      "INSUFFICIENT_RESPONSE", "MALFORMED_RESPONSE",
                      "RSP_AUTH_FAILED"}
        /\ r \notin AsyncFaults \cup TransportErrors
<1> SUFFICES ASSUME NEW r \in RetryRcs
             PROVE  r \in {"TPM_RC_RETRY", "TPM_RC_TESTING", "TPM_RC_YIELDED"}
  <2>1. ASSUME NEW r \in {"TPM_RC_RETRY", "TPM_RC_TESTING", "TPM_RC_YIELDED"}
        PROVE  /\ r \notin {"SUCCESS", "TPM_RC_FAILURE", "TRY_AGAIN",
                             "TCTI_TRY_AGAIN", "TCTI_IO_ERROR", "NONE",
                             "BAD_SEQUENCE", "INSUFFICIENT_RESPONSE",
                             "MALFORMED_RESPONSE", "RSP_AUTH_FAILED"}
               /\ r \notin {"MULTIPLE_DECRYPT_SESSIONS", "BAD_TR",
                             "PREPARE_FAILED", "SESSION_TAB", "GEN_AUTHS",
                             "SET_CMD_AUTHS"}
    BY Zenon
  <2>2. AsyncFaults \cup TransportErrors \subseteq
          {"MULTIPLE_DECRYPT_SESSIONS", "BAD_TR", "PREPARE_FAILED",
           "SESSION_TAB", "GEN_AUTHS", "SET_CMD_AUTHS",
           "TCTI_IO_ERROR", "TCTI_TRY_AGAIN"}
    BY Assumptions, Zenon
  <2> QED
    BY <2>1, <2>2, Zenon DEF TpmRcs
<1> QED
  BY Assumptions, Zenon

\* The initial state satisfies the inductive invariant.
LEMMA InitIInv == Init => IInv
<1> SUFFICES ASSUME Init PROVE IInv
  OBVIOUS
<1>1. TypeOK
  <2>1. /\ <<>> \in Seq(1..MaxCommands)
        /\ <<>> \in Seq(Responses)
    BY EmptySeq
  <2> QED
    BY <2>1 DEF Init, TypeOK, RetCodes, SysStages, EsysStates
<1>2. InvInFlight
  BY EmptySeq DEF Init, InvInFlight
<1>3. InvSubmissions
  BY RetryRcsDistinct DEF Init, InvSubmissions
<1>4. InvOutputs
  BY DEF Init, InvOutputs
<1> QED
  BY <1>1, <1>2, <1>3, <1>4 DEF IInv

\* Facts about sequences of length zero and one, the only lengths the
\* transport of one context reaches.
LEMMA EmptyIffLenZero ==
  ASSUME NEW S, NEW s \in Seq(S)
  PROVE  s = << >> <=> Len(s) = 0
BY EmptySeq

LEMMA SingletonHeadTail ==
  ASSUME NEW S, NEW s \in Seq(S), Len(s) = 1
  PROVE  /\ Head(s) = s[1]
         /\ Tail(s) = << >>
<1>0. Len(<< >>) = 0
  BY EmptySeq
<1>1. s # << >>
  <2> SUFFICES ASSUME s = << >> PROVE FALSE
    OBVIOUS
  <2>1. Len(s) = 0
    BY <1>0, Zenon
  <2> QED
    BY <2>1
<1>2. Tail(s) \in Seq(S) /\ Len(Tail(s)) = 0
  BY <1>1, HeadTailProperties
<1>3. Tail(s) = << >>
  BY <1>2, EmptyIffLenZero
<1> QED
  BY <1>3

LEMMA AppendToEmpty ==
  ASSUME NEW S, NEW x \in S
  PROVE  /\ Append(<< >>, x) \in Seq(S)
         /\ Len(Append(<< >>, x)) = 1
         /\ Append(<< >>, x)[1] = x
<1>1. << >> \in Seq(S) /\ Len(<< >>) = 0
  BY EmptySeq
<1> QED
  BY <1>1, AppendProperties

\* The TPM answering a command preserves the inductive invariant.
LEMMA TpmExecuteIInv == IInv /\ TpmExecute => IInv'
<1> SUFFICES ASSUME IInv, TpmExecute PROVE IInv'
  OBVIOUS
<1> USE DEF IInv
<1>1. Len(toTpm) = 1 /\ Len(fromTpm) = 0
  <2>1. Len(toTpm) \in Nat \ {0}
    BY LenProperties, EmptyIffLenZero DEF TpmExecute, TypeOK
  <2>2. Len(fromTpm) \in Nat
    BY LenProperties DEF TypeOK
  <2>3. Len(toTpm) + Len(fromTpm) <= 1
    BY DEF InvInFlight
  <2> QED
    BY <2>1, <2>2, <2>3, SMTT(60)
<1>2. fromTpm = << >>
  BY <1>1, EmptyIffLenZero DEF TypeOK
<1>3. /\ toTpm[1] = cmd
      /\ executed[cmd] = 0
      /\ cmd \in 1..MaxCommands
  BY <1>1 DEF InvInFlight
<1>4. Head(toTpm) = cmd /\ toTpm' = << >>
  <2>1. Head(toTpm) = toTpm[1] /\ Tail(toTpm) = << >>
    BY <1>1, SingletonHeadTail DEF TypeOK
  <2> QED
    BY <2>1, <1>3, Zenon DEF TpmExecute
<1>5. PICK a \in Answers :
        /\ fromTpm' = Append(fromTpm, [id |-> Head(toTpm), rc |-> a.rc,
                                       hdr |-> a.hdr, hmacOk |-> a.hmacOk])
        /\ \/ a.rc \in RetryRcs /\ UNCHANGED executed
           \/ a.rc \notin RetryRcs
                /\ executed' = [executed EXCEPT ![Head(toTpm)] = @ + 1]
           \/ a.hdr # "ok" /\ UNCHANGED executed
  BY DEF TpmExecute
<1> DEFINE r == [id |-> cmd, rc |-> a.rc, hdr |-> a.hdr, hmacOk |-> a.hmacOk]
<1>6. r \in Responses
  <2>1. /\ a.rc \in TpmRcs
        /\ a.hdr \in {"ok", "short", "badsize"}
        /\ a.hmacOk \in BOOLEAN
    BY DEF Answers, TpmRcs
  <2> QED
    BY <1>3, <2>1, SMTT(30) DEF Responses
<1>7. /\ fromTpm' \in Seq(Responses)
      /\ Len(fromTpm') = 1
      /\ fromTpm'[1] = r
  BY <1>2, <1>4, <1>5, <1>6, AppendToEmpty
<1>8. /\ executed' \in [1..MaxCommands -> 0..MaxSubmissions + 1]
      /\ executed'[cmd] <= 1
      /\ \A c \in 1..MaxCommands \ {cmd} : executed'[c] = executed[c]
      /\ a.rc \in RetryRcs /\ a.hdr = "ok" => executed'[cmd] = 0
  <2>1. CASE UNCHANGED executed
    BY <2>1, <1>3 DEF TypeOK
  <2>2. CASE a.rc \notin RetryRcs
               /\ executed' = [executed EXCEPT ![Head(toTpm)] = @ + 1]
    <3>1. executed' = [executed EXCEPT ![cmd] = @ + 1]
      BY <2>2, <1>4, Zenon
    <3>2. executed' \in [1..MaxCommands -> 0..MaxSubmissions + 1]
      BY <3>1, <1>3, SMTT(60) DEF TypeOK
    <3>3. executed'[cmd] = 1
      BY <3>1, <1>3 DEF TypeOK
    <3>4. \A c \in 1..MaxCommands \ {cmd} : executed'[c] = executed[c]
      BY <3>1 DEF TypeOK
    <3> QED
      BY <2>2, <3>2, <3>3, <3>4
  <2> QED
    BY <1>5, <2>1, <2>2
<1>9. TypeOK'
  <2>1. toTpm' \in Seq(1..MaxCommands)
    BY <1>4, EmptySeq
  <2> QED
    BY <1>7, <1>8, <2>1, Zenon DEF TpmExecute, TypeOK
<1>10. InvInFlight'
  <2>1. Len(toTpm') = 0
    BY <1>4, EmptySeq
  <2>2. state # "Init"
    BY Zenon DEF InvInFlight, TpmExecute
  <2>3. \A i \in 1..Len(fromTpm') :
          /\ fromTpm'[i].id = cmd'
          /\ fromTpm'[i].rc \in RetryRcs /\ fromTpm'[i].hdr = "ok"
               => executed'[cmd'] = 0
    BY <1>3, <1>7, <1>8 DEF TpmExecute
  <2>4. \A i \in 1..Len(toTpm') : toTpm'[i] = cmd' /\ executed'[cmd'] = 0
    BY <2>1
  <2> QED
    BY <1>3, <1>7, <2>1, <2>2, <2>3, <2>4, SMTT(30) DEF TpmExecute, InvInFlight
<1>11. InvSubmissions'
  <2>1. \A c \in 1..MaxCommands :
          /\ c > cmd => executed'[c] = 0
          /\ executed'[c] <= 1
    BY <1>3, <1>8 DEF InvSubmissions
  <2> QED
    BY <2>1 DEF TpmExecute, InvSubmissions
<1>12. InvOutputs'
  BY DEF TpmExecute, InvOutputs
<1> QED
  BY <1>9, <1>10, <1>11, <1>12

\* What the model needs of the transport constants: a transmit that
\* returns success is not a transport error, and the one-call wrapper's
\* blocking timeout is a timeout the context may hold.
LEMMA TransportConstants ==
    /\ "SUCCESS" \notin TransportErrors
    /\ TransportErrors \subseteq RetCodes
    /\ AsyncFaults \subseteq RetCodes
    /\ Block \in Timeouts
    /\ "TCTI_IO_ERROR" \in TransportErrors
<1>1. TransportErrors \subseteq {"TCTI_IO_ERROR", "TCTI_TRY_AGAIN"}
      /\ AsyncFaults \subseteq {"MULTIPLE_DECRYPT_SESSIONS", "BAD_TR",
                                "PREPARE_FAILED", "SESSION_TAB", "GEN_AUTHS",
                                "SET_CMD_AUTHS"}
      /\ Block \in Timeouts
      /\ "TCTI_IO_ERROR" \in TransportErrors
  BY Assumptions, Zenon
<1> QED
  BY <1>1, Zenon DEF RetCodes

\* Tss2_Sys_ExecuteAsync on an empty transport puts at most the one
\* command c into it, and counts it as sent exactly when it is put there.
LEMMA ExecuteAsyncFacts ==
  ASSUME NEW c \in 1..MaxCommands,
         NEW rc \in {"SUCCESS"} \cup TransportErrors,
         toTpm = << >>,
         sent \in [1..MaxCommands -> 0..MaxSubmissions + 1],
         sent[c] <= MaxSubmissions,
         ExecuteAsync(c, rc)
  PROVE  /\ toTpm' \in Seq(1..MaxCommands)
         /\ Len(toTpm') <= 1
         /\ \A i \in 1..Len(toTpm') : toTpm'[i] = c
         /\ sent' \in [1..MaxCommands -> 0..MaxSubmissions + 1]
         /\ \A d \in 1..MaxCommands \ {c} : sent'[d] = sent[d]
         /\ sent'[c] <= sent[c] + 1
         /\ rc = "SUCCESS" => sent'[c] = sent[c] + 1
<1>1. CASE toTpm' = Append(toTpm, c) /\ sent' = [sent EXCEPT ![c] = @ + 1]
  <2>1. toTpm' \in Seq(1..MaxCommands) /\ Len(toTpm') = 1 /\ toTpm'[1] = c
    <3>1. toTpm' = Append(<< >>, c)
      BY <1>1, Zenon
    <3> QED
      BY <3>1, AppendToEmpty
  <2>2. sent' \in [1..MaxCommands -> 0..MaxSubmissions + 1]
    BY <1>1, SMTT(30)
  <2> QED
    BY <1>1, <2>1, <2>2
<1>2. CASE UNCHANGED <<toTpm, sent>> /\ rc # "SUCCESS"
  BY <1>2, EmptySeq
<1> QED
  BY <1>1, <1>2, TransportConstants, Zenon DEF ExecuteAsync

\* A call rejected with TPM2_RC_BAD_SEQUENCE changes nothing but the
\* return code (Async line 155, Finish line 231).
LEMMA BadSequenceIInv ==
  ASSUME IInv, ret' = "BAD_SEQUENCE",
         UNCHANGED <<state, submissionCount, cmd, stage, toTpm, fromTpm,
                     sent, executed, outputs>>,
         caller' \in {"Idle", "OneCall"},
         timeout' \in Timeouts,
         savedTimeout' \in Timeouts
  PROVE  IInv'
<1>1. "BAD_SEQUENCE" \in RetCodes /\ "BAD_SEQUENCE" \notin RetryRcs
  BY RetryRcsDistinct DEF RetCodes
<1>2. TypeOK'
  BY <1>1, Zenon DEF IInv, TypeOK
<1>3. InvInFlight' /\ InvOutputs'
  BY Zenon DEF IInv, InvInFlight, InvOutputs
<1>4. InvSubmissions'
  BY <1>1, Zenon DEF IInv, InvSubmissions
<1> QED
  BY <1>2, <1>3, <1>4 DEF IInv

\* A call of Async preserves the inductive invariant, whatever the caller
\* does with its own variables as long as they stay well typed.
LEMMA AsyncIInv ==
  ASSUME IInv, Async,
         caller' \in {"Idle", "OneCall"},
         timeout' \in Timeouts,
         savedTimeout' \in Timeouts
  PROVE  IInv'
<1>1. CASE state # "Init" /\ ret' = "BAD_SEQUENCE"
           /\ UNCHANGED <<state, submissionCount, cmd, stage, toTpm, fromTpm,
                          sent, executed, outputs>>
  BY <1>1, BadSequenceIInv
<1>2. CASE /\ CheckSequenceAsync
           /\ cmd < MaxCommands
           /\ cmd' = cmd + 1
           /\ UNCHANGED <<fromTpm, executed, outputs>>
           /\ \/ \E f \in AsyncFaults :
                    /\ ret' = f
                    /\ state' = "Init"
                    /\ stage' = CASE f \in {"MULTIPLE_DECRYPT_SESSIONS", "BAD_TR"}
                                       -> stage
                                  [] f = "PREPARE_FAILED" -> "Initialized"
                                  [] OTHER -> "Prepared"
                    /\ UNCHANGED <<toTpm, sent>>
              \/ \E rc \in {"SUCCESS"} \cup TransportErrors :
                    /\ ExecuteAsync(cmd', rc)
                    /\ stage' = StageAfterSend(rc)
                    /\ state' = StateAfterAsyncSend(rc)
                    /\ ret' = rc
  <2>0. cmd' = cmd + 1 /\ UNCHANGED <<fromTpm, executed, outputs>>
    BY <1>2
  <2>1. state = "Init" /\ submissionCount' = 0
    BY <1>2 DEF CheckSequenceAsync
  <2>2. toTpm = << >> /\ fromTpm = << >> /\ fromTpm' = << >>
    BY <1>2, <2>1 DEF IInv, InvInFlight
  <2>3. cmd \in 0..MaxCommands - 1 /\ cmd' \in 1..MaxCommands
    BY <1>2 DEF IInv, TypeOK
  <2>4. /\ sent[cmd'] = 0
        /\ executed[cmd'] = 0
        /\ \A c \in 1..MaxCommands : c > cmd' => sent[c] = 0 /\ executed[c] = 0
    BY <1>2, <2>3 DEF IInv, InvSubmissions
  <2>5. InvOutputs'
    <3>1. \A o \in outputs : o.cmd <= cmd
      BY DEF IInv, InvOutputs
    <3>0. \A o \in outputs : o.cmd \in Nat
      BY DEF IInv, TypeOK
    <3>2. \A o \in outputs' : o.cmd # cmd' /\ o.cmd <= cmd'
      BY <2>0, <2>3, <3>0, <3>1
    <3> QED
      BY <1>2, <3>2, Zenon DEF IInv, InvOutputs
  <2>6. Len(fromTpm') = 0 /\ fromTpm' \in Seq(Responses)
    BY <2>2, EmptySeq
  <2>7. CASE \E f \in AsyncFaults :
                    /\ ret' = f
                    /\ state' = "Init"
                    /\ stage' = CASE f \in {"MULTIPLE_DECRYPT_SESSIONS", "BAD_TR"}
                                       -> stage
                                  [] f = "PREPARE_FAILED" -> "Initialized"
                                  [] OTHER -> "Prepared"
                    /\ UNCHANGED <<toTpm, sent>>
    <3>1. PICK f \in AsyncFaults :
                    /\ ret' = f
                    /\ state' = "Init"
                    /\ stage' = CASE f \in {"MULTIPLE_DECRYPT_SESSIONS", "BAD_TR"}
                                       -> stage
                                  [] f = "PREPARE_FAILED" -> "Initialized"
                                  [] OTHER -> "Prepared"
                    /\ UNCHANGED <<toTpm, sent>>
      BY <2>7
    <3>2. stage' \in SysStages
      BY <3>1 DEF IInv, TypeOK, SysStages
    <3>3. ret' \in RetCodes /\ ret' \notin RetryRcs
      BY <3>1, TransportConstants, RetryRcsDistinct
    <3>4. TypeOK'
      <4>1. /\ state' \in EsysStates
            /\ submissionCount' \in 0..MaxSubmissions + 1
            /\ cmd' \in 0..MaxCommands
        BY <2>1, <2>3, <3>1 DEF EsysStates
      <4>2. /\ toTpm' = toTpm /\ sent' = sent
            /\ fromTpm' = fromTpm /\ executed' = executed /\ outputs' = outputs
        BY <2>0, <3>1
      <4> QED
        BY <3>2, <3>3, <4>1, <4>2 DEF IInv, TypeOK
    <3>5. InvInFlight'
      BY <2>2, <2>6, <3>1, EmptySeq DEF InvInFlight
    <3>6. InvSubmissions'
      BY <1>2, <2>1, <2>3, <2>4, <3>1, <3>3 DEF IInv, TypeOK, InvSubmissions
    <3> QED
      BY <2>5, <3>4, <3>5, <3>6 DEF IInv
  <2>8. CASE \E rc \in {"SUCCESS"} \cup TransportErrors :
                    /\ ExecuteAsync(cmd', rc)
                    /\ stage' = StageAfterSend(rc)
                    /\ state' = StateAfterAsyncSend(rc)
                    /\ ret' = rc
    <3>1. PICK rc \in {"SUCCESS"} \cup TransportErrors :
                    /\ ExecuteAsync(cmd', rc)
                    /\ stage' = StageAfterSend(rc)
                    /\ state' = StateAfterAsyncSend(rc)
                    /\ ret' = rc
      BY <2>8
    <3>2. PICK k \in 1..MaxCommands : k = cmd'
      BY <2>3
    <3>3. /\ toTpm' \in Seq(1..MaxCommands)
          /\ Len(toTpm') <= 1
          /\ \A i \in 1..Len(toTpm') : toTpm'[i] = k
          /\ sent' \in [1..MaxCommands -> 0..MaxSubmissions + 1]
          /\ \A d \in 1..MaxCommands \ {k} : sent'[d] = sent[d]
          /\ sent'[k] <= sent[k] + 1
          /\ rc = "SUCCESS" => sent'[k] = sent[k] + 1
      <4>1. ExecuteAsync(k, rc)
        BY <3>1, <3>2, Zenon
      <4>2. sent \in [1..MaxCommands -> 0..MaxSubmissions + 1]
            /\ sent[k] <= MaxSubmissions
        BY <2>4, <3>2 DEF IInv, TypeOK
      <4> QED
        BY <2>2, <4>1, <4>2, ExecuteAsyncFacts
    <3>4. /\ stage' \in SysStages
          /\ state' \in {"Sent", "InternalError"}
          /\ state' = "Sent" /\ stage' = "Sent" => rc = "SUCCESS"
      BY <3>1 DEF StageAfterSend, StateAfterAsyncSend, SysStages
    <3>5. ret' \in RetCodes /\ ret' \notin RetryRcs
      BY <3>1, TransportConstants, RetryRcsDistinct DEF RetCodes, TpmRcs
    <3>6. TypeOK'
      <4>1. cmd' \in 0..MaxCommands /\ submissionCount' \in 0..MaxSubmissions + 1
        BY <2>1, <2>3
      <4>2. state' \in EsysStates
        BY <3>4 DEF EsysStates
      <4> QED
        BY <1>2, <2>6, <3>3, <3>4, <3>5, <4>1, <4>2, Zenon DEF IInv, TypeOK
    <3>7. InvInFlight'
      <4>1. Len(toTpm') + Len(fromTpm') <= 1
        BY <2>6, <3>3
      <4>2. \A i \in 1..Len(toTpm') : toTpm'[i] = cmd' /\ executed'[cmd'] = 0
        BY <1>2, <2>4, <3>2, <3>3
      <4>3. state' # "Init"
        BY <3>4
      <4> QED
        BY <2>3, <2>6, <4>1, <4>2, <4>3 DEF InvInFlight
    <3>8. InvSubmissions'
      <4>1. \A c \in 1..MaxCommands :
              /\ c > cmd' => sent'[c] = 0 /\ executed'[c] = 0
              /\ sent'[c] <= MaxSubmissions + 1
              /\ executed'[c] <= 1
        BY <1>2, <2>3, <2>4, <3>2, <3>3 DEF IInv, InvSubmissions
      <4>2. sent'[cmd'] <= submissionCount' + 1
            /\ (state' = "Sent" /\ stage' = "Sent"
                  => sent'[cmd'] = submissionCount' + 1)
        BY <2>1, <2>4, <3>2, <3>3, <3>4
      <4> QED
        BY <2>1, <2>3, <3>4, <3>5, <4>1, <4>2 DEF InvSubmissions
    <3> QED
      BY <2>5, <3>6, <3>7, <3>8 DEF IInv
  <2> QED
    BY <1>2, <2>7, <2>8
<1> QED
  BY <1>1, <1>2 DEF Async

\* Arithmetic on the lengths of the two transport queues.
LEMMA OneOfTwo ==
    \A a, b \in Nat : a # 0 /\ a + b <= 1 => a = 1 /\ b = 0
OBVIOUS

\* The outcomes of Tss2_Sys_ExecuteFinish by their shape.
LEMMA OutcomeShapes ==
  ASSUME NEW o \in ReceiveOutcomes
  PROVE  \/ /\ o.rsp = NoRsp
            /\ o.rc \in {"BAD_SEQUENCE", "TCTI_IO_ERROR", "TRY_AGAIN"}
         \/ /\ stage = "Sent"
            /\ fromTpm # << >>
            /\ o = [rc |-> ResponseRc(Head(fromTpm)), rsp |-> Head(fromTpm)]
<1>1. CASE stage # "Sent"
  BY <1>1 DEF ReceiveOutcomes
<1>2. CASE stage = "Sent" /\ fromTpm = << >>
  <2>1. o \in {[rc |-> "TCTI_IO_ERROR", rsp |-> NoRsp],
               [rc |-> "TRY_AGAIN", rsp |-> NoRsp]}
    BY <1>2 DEF ReceiveOutcomes
  <2> QED
    BY <2>1
<1>3. CASE stage = "Sent" /\ fromTpm # << >>
  <2>1. o \in {[rc |-> "TCTI_IO_ERROR", rsp |-> NoRsp],
               [rc |-> ResponseRc(Head(fromTpm)), rsp |-> Head(fromTpm)]}
    BY <1>3 DEF ReceiveOutcomes
  <2> QED
    BY <1>3, <2>1
<1> QED
  BY <1>1, <1>2, <1>3

\* What Tss2_Sys_ExecuteFinish can hand to Finish while a command is
\* outstanding: no response (a transport error, TRY_AGAIN or a sequence
\* error), or the one response in the transport, which answers the current
\* command and arrived after a successful transmit.
Outcome(o) ==
    /\ cmd \in 1..MaxCommands
    /\ submissionCount <= MaxSubmissions
    /\ o.rc \in RetCodes
    /\ \A x \in outputs : x.cmd # cmd
    /\ \/ /\ o.rsp = NoRsp
          /\ o.rc \in {"BAD_SEQUENCE", "TCTI_IO_ERROR", "TRY_AGAIN"}
       \/ /\ o.rsp # NoRsp
          /\ stage = "Sent"
          /\ toTpm = << >>
          /\ Len(fromTpm) = 1
          /\ Tail(fromTpm) = << >>
          /\ o.rsp = fromTpm[1]
          /\ o.rsp \in Responses
          /\ o.rsp.id = cmd
          /\ o.rc = ResponseRc(o.rsp)
          /\ o.rc \in TpmRcs => o.rsp.hdr = "ok" /\ o.rsp.rc = o.rc
          /\ o.rc \notin TpmRcs =>
               o.rc \in {"INSUFFICIENT_RESPONSE", "MALFORMED_RESPONSE"}
          /\ o.rsp.rc \in RetryRcs /\ o.rsp.hdr = "ok"
               => executed[cmd] = 0

LEMMA ReceiveFacts ==
  ASSUME IInv, state \in {"Sent", "Resubmission"},
         NEW o \in ReceiveOutcomes
  PROVE  Outcome(o)
<1> USE DEF Outcome
<1>1. cmd \in 1..MaxCommands /\ submissionCount <= MaxSubmissions
  BY DEF IInv, InvSubmissions
<1>2. \A x \in outputs : x.cmd # cmd
  BY DEF IInv, InvOutputs
<1>3. CASE o.rsp = NoRsp /\ o.rc \in {"BAD_SEQUENCE", "TCTI_IO_ERROR", "TRY_AGAIN"}
  <2>1. o.rc \in RetCodes
    BY <1>3, TransportConstants DEF RetCodes
  <2> QED
    BY <1>1, <1>2, <1>3, <2>1
<1>4. CASE /\ stage = "Sent"
           /\ fromTpm # << >>
           /\ o = [rc |-> ResponseRc(Head(fromTpm)), rsp |-> Head(fromTpm)]
  <2>1. stage = "Sent" /\ fromTpm # << >>
        /\ o = [rc |-> ResponseRc(Head(fromTpm)), rsp |-> Head(fromTpm)]
    BY <1>4
  <2>2. fromTpm \in Seq(Responses) /\ Len(fromTpm) + Len(toTpm) <= 1
        /\ toTpm \in Seq(1..MaxCommands)
    BY DEF IInv, TypeOK, InvInFlight
  <2>3. Len(fromTpm) = 1 /\ Len(toTpm) = 0
    <3>1. Len(fromTpm) \in Nat \ {0} /\ Len(toTpm) \in Nat
      BY <2>1, <2>2, EmptyIffLenZero, LenProperties
    <3> QED
      BY <2>2, <3>1, OneOfTwo
  <2>4. toTpm = << >>
    BY <2>2, <2>3, EmptyIffLenZero
  <2>5. Head(fromTpm) = fromTpm[1] /\ Tail(fromTpm) = << >>
    BY <2>2, <2>3, SingletonHeadTail
  <2>6. fromTpm[1] \in Responses
    BY <2>2, <2>3, ElementOfSeq
  <2>7. /\ fromTpm[1].id = cmd
        /\ fromTpm[1].rc \in RetryRcs /\ fromTpm[1].hdr = "ok"
             => executed[cmd] = 0
    BY <2>3 DEF IInv, InvInFlight
  <2> DEFINE r == fromTpm[1]
  <2>8. o.rsp = r /\ o.rc = ResponseRc(r)
    BY <2>1, <2>5
  <2>9. /\ o.rc \in TpmRcs => r.hdr = "ok" /\ r.rc = o.rc
        /\ o.rc \notin TpmRcs =>
             o.rc \in {"INSUFFICIENT_RESPONSE", "MALFORMED_RESPONSE"}
        /\ o.rc \in RetCodes
    <3>1. r.hdr \in {"ok", "short", "badsize"} /\ r.rc \in TpmRcs
      BY <2>6 DEF Responses
    <3>2. {"INSUFFICIENT_RESPONSE", "MALFORMED_RESPONSE"} \cap TpmRcs = {}
      BY RetryRcsDistinct DEF TpmRcs
    <3>3. CASE r.hdr = "ok"
      BY <2>8, <3>1, <3>3 DEF ResponseRc, RetCodes
    <3>4. CASE r.hdr = "short"
      BY <2>8, <3>2, <3>4 DEF ResponseRc, RetCodes
    <3>5. CASE r.hdr = "badsize"
      BY <2>8, <3>2, <3>5 DEF ResponseRc, RetCodes
    <3> QED
      BY <3>1, <3>3, <3>4, <3>5
  <2>10. o.rsp # NoRsp
    BY <2>6, <2>8 DEF Responses, NoRsp
  <2> QED
    BY <1>1, <1>2, <1>4, <2>10, <2>1, <2>3, <2>4, <2>5, <2>6, <2>7, <2>8, <2>9
<1> QED
  BY <1>3, <1>4, OutcomeShapes

\* An empty transport satisfies the in-flight part of the invariant.
LEMMA InFlightEmpty ==
  ASSUME toTpm' = << >>, fromTpm' = << >>
  PROVE  InvInFlight'
BY EmptySeq DEF InvInFlight

\* A step that hands out no result and keeps the current command keeps the
\* results consistent, as long as none belongs to the current command.
LEMMA OutputsFrame ==
  ASSUME IInv, outputs' = outputs, cmd' = cmd,
         \A x \in outputs : x.cmd # cmd
  PROVE  InvOutputs'
BY Zenon DEF IInv, InvOutputs

\* The hypotheses shared by the branches of Finish once a command is
\* outstanding and ExecuteFinish produced outcome o.
FinishStep(o) ==
    /\ IInv
    /\ state \in {"Sent", "Resubmission"}
    /\ UNCHANGED <<cmd, executed>>
    /\ o \in ReceiveOutcomes
    /\ fromTpm' = IF o.rsp = NoRsp THEN fromTpm ELSE Tail(fromTpm)
    /\ caller' \in {"Idle", "OneCall"}
    /\ timeout' \in Timeouts
    /\ savedTimeout' \in Timeouts

\* Within a step of Finish, the facts about the outcome of ExecuteFinish.
LEMMA FinishOutcome ==
  ASSUME NEW o, FinishStep(o)
  PROVE  Outcome(o)
BY ReceiveFacts DEF FinishStep

\* The variables the caller does not touch keep their types.
LEMMA FinishFrameTypes ==
  ASSUME NEW o, FinishStep(o)
  PROVE  /\ cmd' \in 0..MaxCommands
         /\ executed' \in [1..MaxCommands -> 0..MaxSubmissions + 1]
         /\ fromTpm' \in Seq(Responses)
         /\ o.rsp # NoRsp => fromTpm' = << >>
         /\ o.rsp = NoRsp => fromTpm' = fromTpm
<1>1. CASE o.rsp = NoRsp
  BY <1>1 DEF FinishStep, IInv, TypeOK
<1>2. CASE o.rsp # NoRsp
  <2>1. Tail(fromTpm) = << >>
    BY <1>2, FinishOutcome DEF Outcome
  <2> QED
    BY <1>2, <2>1, EmptySeq DEF FinishStep, IInv, TypeOK
<1> QED
  BY <1>1, <1>2

\* ExecuteFinish reported TRY_AGAIN: Finish returns it with the state
\* "Sent" (lines 268-274), and nothing was consumed.
LEMMA NotReadyIInv ==
  ASSUME NEW o, FinishStep(o), NotReady(o)
  PROVE  IInv'
<1>1. o.rsp = NoRsp /\ o.rc = "TRY_AGAIN"
  <2>1. "TCTI_TRY_AGAIN" \notin TpmRcs /\ "TRY_AGAIN" \notin TpmRcs
    BY RetryRcsDistinct DEF TpmRcs
  <2> QED
    <3>1. Outcome(o) /\ IsTryAgain(o.rc)
      BY FinishOutcome DEF NotReady
    <3> QED
      BY <2>1, <3>1, Zenon DEF Outcome, IsTryAgain
<1>2. /\ cmd \in 1..MaxCommands
      /\ submissionCount <= MaxSubmissions
      /\ \A x \in outputs : x.cmd # cmd
  BY FinishOutcome DEF Outcome
<1>3. stage' = stage /\ fromTpm' = fromTpm /\ state' = "Sent"
      /\ ret' = "TRY_AGAIN"
  <2>1. fromTpm' = fromTpm
    BY <1>1, FinishFrameTypes
  <2>2. stage' = stage /\ state' = "Sent" /\ ret' = "TRY_AGAIN"
    BY <1>1 DEF NotReady, StageAfterReceive
  <2> QED
    BY <2>1, <2>2
<1>4. "TRY_AGAIN" \in RetCodes /\ "TRY_AGAIN" \notin RetryRcs
  BY RetryRcsDistinct DEF RetCodes
<1>5. TypeOK'
  BY <1>3, <1>4, Zenon DEF FinishStep, NotReady, IInv, TypeOK, EsysStates
<1>6. InvInFlight'
  BY <1>3, Zenon DEF FinishStep, NotReady, IInv, InvInFlight
<1>7. InvSubmissions'
  BY <1>2, <1>3, <1>4 DEF FinishStep, NotReady, IInv, InvSubmissions
<1>8. InvOutputs'
  BY <1>2, OutputsFrame DEF FinishStep, NotReady
<1> QED
  BY <1>5, <1>6, <1>7, <1>8 DEF IInv

\* The response codes of the TPM are none of the codes of the other layers.
LEMMA TpmRcsDistinct ==
    TpmRcs \cap {"BAD_SEQUENCE", "TCTI_IO_ERROR", "TRY_AGAIN",
                 "TCTI_TRY_AGAIN", "INSUFFICIENT_RESPONSE",
                 "MALFORMED_RESPONSE", "RSP_AUTH_FAILED", "NONE"} = {}
BY RetryRcsDistinct DEF TpmRcs

\* A code ExecuteFinish can only produce from a response in the transport
\* means that response answers the current command, was the only message
\* in flight, and is consumed.
LEMMA ResponseBranch ==
  ASSUME NEW o, FinishStep(o),
         o.rc \notin {"BAD_SEQUENCE", "TCTI_IO_ERROR", "TRY_AGAIN"}
  PROVE  /\ o.rsp # NoRsp
         /\ stage = "Sent"
         /\ toTpm = << >>
         /\ fromTpm' = << >>
         /\ o.rsp \in Responses
         /\ o.rsp.id = cmd
         /\ o.rc \in TpmRcs => o.rsp.hdr = "ok" /\ o.rsp.rc = o.rc
         /\ o.rsp.rc \in RetryRcs /\ o.rsp.hdr = "ok" => executed[cmd] = 0
<1>1. Outcome(o)
  BY FinishOutcome
<1>2. o.rsp # NoRsp
  BY <1>1 DEF Outcome
<1> QED
  BY <1>1, <1>2, FinishFrameTypes DEF Outcome

\* Finish returns an error without resubmitting and without a result:
\* the state becomes "Init" (a TPM error, line 301) only after a response
\* was consumed, or "InternalError" (lines 304, 314).
LEMMA ReturnIInv ==
  ASSUME NEW o, FinishStep(o),
         state' \in {"Init", "InternalError"},
         state' = "Init" => o.rsp # NoRsp,
         ret' \in RetCodes \ RetryRcs,
         stage' \in SysStages,
         UNCHANGED <<submissionCount, toTpm, sent, outputs>>
  PROVE  IInv'
<1>1. Outcome(o)
  BY FinishOutcome
<1>2. /\ cmd \in 1..MaxCommands
      /\ submissionCount <= MaxSubmissions
      /\ \A x \in outputs : x.cmd # cmd
  BY <1>1 DEF Outcome
<1>3. /\ cmd' \in 0..MaxCommands
      /\ executed' \in [1..MaxCommands -> 0..MaxSubmissions + 1]
      /\ fromTpm' \in Seq(Responses)
      /\ o.rsp # NoRsp => fromTpm' = << >>
      /\ o.rsp = NoRsp => fromTpm' = fromTpm
  BY FinishFrameTypes
<1>4. TypeOK'
  <2>1. state' \in EsysStates
    BY DEF EsysStates
  <2> QED
    BY <1>3, <2>1, Zenon DEF FinishStep, IInv, TypeOK
<1>5. InvInFlight'
  <2>1. CASE state' = "Init"
    <3>1. toTpm = << >> /\ fromTpm' = << >>
      BY <2>1, <1>1, <1>3 DEF Outcome
    <3> QED
      BY <3>1, InFlightEmpty
  <2>2. CASE state' = "InternalError" /\ o.rsp = NoRsp
    BY <2>2, <1>3, Zenon DEF FinishStep, IInv, InvInFlight
  <2>3. CASE state' = "InternalError" /\ o.rsp # NoRsp
    <3>1. toTpm = << >> /\ fromTpm' = << >>
      BY <2>3, <1>1, <1>3 DEF Outcome
    <3> QED
      BY <3>1, InFlightEmpty
  <2> QED
    BY <2>1, <2>2, <2>3
<1>6. InvSubmissions'
  BY <1>2 DEF FinishStep, IInv, InvSubmissions
<1>7. InvOutputs'
  BY <1>2, OutputsFrame DEF FinishStep
<1> QED
  BY <1>4, <1>5, <1>6, <1>7 DEF IInv

\* Any other TPM error (lines 297-302): the context is reusable.
LEMMA TpmErrorReturnIInv ==
  ASSUME NEW o, FinishStep(o), TpmErrorReturn(o)
  PROVE  IInv'
<1>1. o.rc \in TpmRcs \ {"SUCCESS"} /\ o.rc \notin RetryRcs
  BY DEF TpmErrorReturn, IsTpmError, IsResubmitRc
<1>2. o.rsp # NoRsp
  BY <1>1, TpmRcsDistinct, ResponseBranch
<1>3. o.rc \in RetCodes /\ stage' \in SysStages
  BY <1>1, <1>2 DEF TpmErrorReturn, RetCodes, StageAfterReceive, SysStages
<1> QED
  BY <1>1, <1>2, <1>3, ReturnIInv DEF TpmErrorReturn

\* A non-TPM error (lines 303-306): the context becomes unusable.
LEMMA OtherErrorReturnIInv ==
  ASSUME NEW o, FinishStep(o), OtherErrorReturn(o)
  PROVE  IInv'
<1>1. o.rc \in RetCodes
  BY FinishOutcome DEF Outcome
<1>2. o.rc \notin RetryRcs
  BY RetryRcsDistinct DEF OtherErrorReturn, IsTpmError
<1>3. stage' \in SysStages
  BY DEF OtherErrorReturn, StageAfterReceive, SysStages, FinishStep, IInv, TypeOK
<1> QED
  BY <1>1, <1>2, <1>3, ReturnIInv DEF OtherErrorReturn

\* The TPM asked for the command again (lines 277-296): the response said
\* the TPM did not act on it, and the command was sent exactly
\* submissionCount + 1 times; Finish either gives up after
\* ESYS_MAX_SUBMISSIONS resubmissions or sends it once more.
LEMMA ResubmitIInv ==
  ASSUME NEW o, FinishStep(o), Resubmit(o)
  PROVE  IInv'
<1>1. o.rc \in RetryRcs
  BY DEF Resubmit, IsResubmitRc
<1>2. /\ o.rsp # NoRsp
      /\ stage = "Sent"
      /\ toTpm = << >>
      /\ fromTpm' = << >>
      /\ executed[cmd] = 0
  <2>1. o.rc \in TpmRcs /\ o.rc \notin {"BAD_SEQUENCE", "TCTI_IO_ERROR", "TRY_AGAIN"}
    BY <1>1, RetryRcsDistinct
  <2> QED
    BY <1>1, <2>1, ResponseBranch
<1>3. /\ cmd \in 1..MaxCommands
      /\ submissionCount <= MaxSubmissions
      /\ \A x \in outputs : x.cmd # cmd
      /\ o.rc \in RetCodes
  BY FinishOutcome DEF Outcome
<1>4. sent[cmd] = submissionCount + 1
  BY <1>2, <1>3 DEF FinishStep, IInv, InvSubmissions
<1>9. submissionCount \in Nat /\ stage \in SysStages
  BY DEF FinishStep, IInv, TypeOK
<1>10. /\ cmd' = cmd /\ executed' = executed
       /\ sent \in [1..MaxCommands -> 0..MaxSubmissions + 1]
       /\ InvSubmissions
  BY DEF FinishStep, IInv, TypeOK
<1>5. /\ cmd' \in 0..MaxCommands
      /\ executed' \in [1..MaxCommands -> 0..MaxSubmissions + 1]
      /\ fromTpm' \in Seq(Responses)
  BY FinishFrameTypes
<1>6. InvOutputs'
  BY <1>3, OutputsFrame DEF FinishStep, Resubmit
<1>7. CASE /\ submissionCount >= MaxSubmissions
           /\ state' = "Init"
           /\ ret' = o.rc
           /\ stage' = StageAfterReceive(o)
           /\ UNCHANGED <<toTpm, sent>>
  <2>1. submissionCount = MaxSubmissions
        /\ submissionCount' = MaxSubmissions + 1
    BY <1>3, <1>7, <1>9 DEF Resubmit
  <2>2. stage' \in SysStages
    BY <1>7, <1>9 DEF StageAfterReceive, SysStages
  <2>3. TypeOK'
    <3>1. submissionCount' \in 0..MaxSubmissions + 1
      BY <2>1
    <3>2. state' \in EsysStates
      BY <1>7 DEF EsysStates
    <3> QED
      BY <1>3, <1>5, <1>7, <2>2, <3>1, <3>2, Zenon
         DEF FinishStep, Resubmit, IInv, TypeOK
  <2>4. InvInFlight'
    BY <1>2, <1>7, InFlightEmpty
  <2>5. InvSubmissions'
    BY <1>3, <1>4, <1>7, <2>1 DEF FinishStep, Resubmit, IInv, InvSubmissions
  <2> QED
    BY <1>6, <2>3, <2>4, <2>5 DEF IInv
<1>8. CASE /\ submissionCount < MaxSubmissions
           /\ state' = "Resubmission"
           /\ \E rc \in {"SUCCESS"} \cup TransportErrors :
                 /\ ExecuteAsync(cmd, rc)
                 /\ stage' = StageAfterSend(rc)
                 /\ ret' = IF rc = "SUCCESS" THEN "TRY_AGAIN" ELSE rc
  <2>1. PICK rc \in {"SUCCESS"} \cup TransportErrors :
                 /\ ExecuteAsync(cmd, rc)
                 /\ stage' = StageAfterSend(rc)
                 /\ ret' = IF rc = "SUCCESS" THEN "TRY_AGAIN" ELSE rc
    BY <1>8
  <2>2. PICK k \in 1..MaxCommands : k = cmd
    BY <1>3
  <2>3. /\ toTpm' \in Seq(1..MaxCommands)
        /\ Len(toTpm') <= 1
        /\ \A i \in 1..Len(toTpm') : toTpm'[i] = k
        /\ sent' \in [1..MaxCommands -> 0..MaxSubmissions + 1]
        /\ \A d \in 1..MaxCommands \ {k} : sent'[d] = sent[d]
        /\ sent'[k] <= sent[k] + 1
        /\ rc = "SUCCESS" => sent'[k] = sent[k] + 1
    <3>1. ExecuteAsync(k, rc)
      BY <2>1, <2>2
    <3>2. sent \in [1..MaxCommands -> 0..MaxSubmissions + 1]
          /\ sent[k] <= MaxSubmissions
      <4>1. submissionCount < MaxSubmissions
        BY <1>8
      <4> QED
        BY <1>4, <1>9, <1>10, <2>2, <4>1
    <3> QED
      BY <1>2, <3>1, <3>2, ExecuteAsyncFacts
  <2>4. /\ stage' \in SysStages
        /\ stage' = "Sent" => rc = "SUCCESS"
        /\ ret' \in RetCodes \ RetryRcs
    <3>1. "TRY_AGAIN" \in RetCodes \ RetryRcs
      BY RetryRcsDistinct DEF RetCodes
    <3>2. TransportErrors \subseteq RetCodes \ RetryRcs
      BY TransportConstants, RetryRcsDistinct
    <3>3. CASE rc = "SUCCESS"
      BY <2>1, <3>1, <3>3 DEF StageAfterSend, SysStages
    <3>4. CASE rc # "SUCCESS"
      <4>1. rc \in TransportErrors
        BY <3>4
      <4> QED
        BY <2>1, <3>2, <3>4, <4>1 DEF StageAfterSend, SysStages
    <3> QED
      BY <3>3, <3>4
  <2>5. submissionCount' = submissionCount + 1
        /\ submissionCount' \in 1..MaxSubmissions
    BY <1>3, <1>8, <1>9 DEF Resubmit
  <2>6. TypeOK'
    <3>1. state' \in EsysStates
      BY <1>8 DEF EsysStates
    <3>2. submissionCount' \in 0..MaxSubmissions + 1
      BY <2>5
    <3> QED
      BY <1>5, <2>3, <2>4, <3>1, <3>2, Zenon
         DEF FinishStep, Resubmit, IInv, TypeOK
  <2>7. InvInFlight'
    <3>1. Len(toTpm') + Len(fromTpm') <= 1
      BY <1>2, <2>3, EmptySeq
    <3>2. \A i \in 1..Len(toTpm') : toTpm'[i] = cmd' /\ executed'[cmd'] = 0
      BY <1>2, <2>2, <2>3 DEF FinishStep
    <3>3. \A i \in 1..Len(fromTpm') : FALSE
      BY <1>2, EmptySeq
    <3> QED
      BY <1>3, <1>8, <3>1, <3>2, <3>3 DEF FinishStep, InvInFlight
  <2>8. InvSubmissions'
    <4>1. \A c \in 1..MaxCommands :
            /\ c > cmd' => sent'[c] = 0 /\ executed'[c] = 0
            /\ sent'[c] <= MaxSubmissions + 1
            /\ executed'[c] <= 1
      BY <1>3, <1>10, <2>2, <2>3 DEF InvSubmissions
    <4>2. /\ sent'[cmd'] <= submissionCount' + 1
          /\ stage' = "Sent" => sent'[cmd'] = submissionCount' + 1
      BY <1>4, <2>2, <2>3, <2>4, <2>5 DEF FinishStep
    <4> QED
      BY <1>3, <1>8, <2>4, <2>5, <4>1, <4>2 DEF FinishStep, InvSubmissions
  <2> QED
    BY <1>6, <2>6, <2>7, <2>8 DEF IInv
<1> QED
  BY <1>7, <1>8 DEF Resubmit

\* A success response (lines 308-326): a failed response HMAC makes the
\* context unusable, a verified one is handed out as the result of the
\* current command, which no earlier result belongs to.
LEMMA CheckAndCompleteIInv ==
  ASSUME NEW o, FinishStep(o), CheckAndComplete(o)
  PROVE  IInv'
<1>1. o.rc = "SUCCESS"
  BY DEF CheckAndComplete
<1>2. /\ o.rsp # NoRsp
      /\ toTpm = << >>
      /\ fromTpm' = << >>
      /\ o.rsp \in Responses
      /\ o.rsp.id = cmd
  BY <1>1, ResponseBranch
<1>3. /\ cmd \in 1..MaxCommands
      /\ \A x \in outputs : x.cmd # cmd
  BY FinishOutcome DEF Outcome
<1>4. stage' \in SysStages
  BY <1>1, <1>2 DEF CheckAndComplete, StageAfterReceive, IsTpmError, SysStages
<1>5. CASE ~o.rsp.hmacOk /\ state' = "InternalError"
           /\ ret' = "RSP_AUTH_FAILED" /\ UNCHANGED outputs
  <2>1. "RSP_AUTH_FAILED" \in RetCodes \ RetryRcs
    BY RetryRcsDistinct DEF RetCodes
  <2> QED
    BY <1>2, <1>4, <1>5, <2>1, ReturnIInv DEF CheckAndComplete
<1>6. CASE o.rsp.hmacOk /\ state' = "Init" /\ ret' = "SUCCESS"
           /\ outputs' = outputs \cup {[cmd |-> cmd, rsp |-> o.rsp]}
  <2>1. /\ cmd' \in 0..MaxCommands
        /\ executed' \in [1..MaxCommands -> 0..MaxSubmissions + 1]
        /\ fromTpm' \in Seq(Responses)
    BY FinishFrameTypes
  <2>2. "SUCCESS" \in RetCodes \ RetryRcs
    BY RetryRcsDistinct DEF RetCodes, TpmRcs
  <2>3. outputs' \subseteq [cmd : 1..MaxCommands, rsp : Responses]
    BY <1>2, <1>3, <1>6 DEF FinishStep, IInv, TypeOK
  <2>4. TypeOK'
    <3>1. state' \in EsysStates
      BY <1>6 DEF EsysStates
    <3> QED
      BY <1>4, <1>6, <2>1, <2>2, <2>3, <3>1, Zenon
         DEF FinishStep, CheckAndComplete, IInv, TypeOK
  <2>5. InvInFlight'
    BY <1>2, InFlightEmpty DEF CheckAndComplete
  <2>6. InvSubmissions'
    BY <1>6, <2>2 DEF FinishStep, CheckAndComplete, IInv, InvSubmissions
  <2>7. InvOutputs'
    <3> DEFINE new == [cmd |-> cmd, rsp |-> o.rsp]
    <3>1. \A x \in outputs :
             /\ x.rsp.id = x.cmd
             /\ x.rsp.hmacOk
             /\ x.cmd <= cmd
             /\ x.cmd # cmd
             /\ \A x2 \in outputs : x2.cmd = x.cmd => x2 = x
      BY <1>3 DEF FinishStep, IInv, InvOutputs
    <3>2. new.rsp.id = new.cmd /\ new.rsp.hmacOk /\ new.cmd = cmd
      BY <1>2, <1>6
    <3>3. cmd \in Nat /\ cmd' = cmd
      BY <1>3 DEF FinishStep
    <3> QED
      BY <1>6, <3>1, <3>2, <3>3 DEF InvOutputs
  <2> QED
    BY <2>4, <2>5, <2>6, <2>7 DEF IInv
<1> QED
  BY <1>5, <1>6 DEF CheckAndComplete

\* A call of Finish preserves the inductive invariant, whatever the caller
\* does with its own variables as long as they stay well typed.
LEMMA FinishIInv ==
  ASSUME IInv, Finish,
         caller' \in {"Idle", "OneCall"},
         timeout' \in Timeouts,
         savedTimeout' \in Timeouts
  PROVE  IInv'
<1>1. CASE state \notin {"Sent", "Resubmission"} /\ ret' = "BAD_SEQUENCE"
           /\ UNCHANGED <<state, submissionCount, cmd, stage, toTpm, fromTpm,
                          sent, executed, outputs>>
  BY <1>1, BadSequenceIInv
<1>2. CASE /\ state \in {"Sent", "Resubmission"}
           /\ UNCHANGED <<cmd, executed>>
           /\ \E o \in ReceiveOutcomes :
                /\ fromTpm' = IF o.rsp = NoRsp THEN fromTpm ELSE Tail(fromTpm)
                /\ \/ NotReady(o)
                   \/ Resubmit(o)
                   \/ TpmErrorReturn(o)
                   \/ OtherErrorReturn(o)
                   \/ CheckAndComplete(o)
  <2>1. PICK o \in ReceiveOutcomes :
                /\ fromTpm' = IF o.rsp = NoRsp THEN fromTpm ELSE Tail(fromTpm)
                /\ \/ NotReady(o)
                   \/ Resubmit(o)
                   \/ TpmErrorReturn(o)
                   \/ OtherErrorReturn(o)
                   \/ CheckAndComplete(o)
    BY <1>2
  <2>2. FinishStep(o)
    BY <1>2, <2>1 DEF FinishStep
  <2> QED
    BY <2>1, <2>2, NotReadyIInv, ResubmitIInv, TpmErrorReturnIInv,
       OtherErrorReturnIInv, CheckAndCompleteIInv
<1> QED
  BY <1>1, <1>2 DEF Finish

\* Every step of the caller, the context and the TPM preserves the
\* inductive invariant.
LEMMA NextIInv == IInv /\ [Next]_vars => IInv'
<1> SUFFICES ASSUME IInv, [Next]_vars PROVE IInv'
  OBVIOUS
<1>1. caller \in {"Idle", "OneCall"} /\ timeout \in Timeouts
      /\ savedTimeout \in Timeouts
  BY DEF IInv, TypeOK
<1>2. CASE AsyncCall
  BY <1>1, <1>2, AsyncIInv DEF AsyncCall
<1>3. CASE FinishCall
  BY <1>1, <1>3, FinishIInv DEF FinishCall
<1>4. CASE OneCallBegin
  <2>1. caller' \in {"Idle", "OneCall"} /\ timeout' \in Timeouts
        /\ savedTimeout' \in Timeouts
    BY <1>1, <1>4, TransportConstants DEF OneCallBegin
  <2> QED
    BY <1>4, <2>1, AsyncIInv DEF OneCallBegin
<1>5. CASE OneCallFinish
  <2>1. caller' \in {"Idle", "OneCall"} /\ timeout' \in Timeouts
        /\ savedTimeout' \in Timeouts
    BY <1>1, <1>5 DEF OneCallFinish
  <2> QED
    BY <1>5, <2>1, FinishIInv DEF OneCallFinish
<1>6. CASE TpmExecute
  BY <1>6, TpmExecuteIInv
<1>7. CASE UNCHANGED vars
  BY <1>7, Zenon DEF vars, IInv, TypeOK, InvInFlight, InvSubmissions,
                     InvOutputs
<1> QED
  BY <1>2, <1>3, <1>4, <1>5, <1>6, <1>7 DEF Next

\* IInv holds in every reachable state of the ESAPI command state machine.
THEOREM IInvInvariant == Spec => []IInv
BY InitIInv, NextIInv, PTL DEF Spec

\* Every variable of the context, the transport and the caller keeps its
\* type in every reachable state.
THEOREM TypeCorrect == Spec => []TypeOK
<1>1. IInv => TypeOK
  BY DEF IInv
<1> QED
  BY <1>1, IInvInvariant, PTL

\* A result handed out by Finish is always the verified answer to the
\* command whose Async call started it, and each command has at most one
\* result: no late answer to an earlier command is ever returned.
THEOREM OutputsMatchCommandInvariant == Spec => []OutputsMatchCommand
<1>1. IInv => OutputsMatchCommand
  BY DEF IInv, InvOutputs, OutputsMatchCommand
<1> QED
  BY <1>1, IInvInvariant, PTL

\* The TPM never acts twice on one command, whatever Finish resubmits.
THEOREM NoDuplicateExecutionInvariant == Spec => []NoDuplicateExecution
<1>1. IInv => NoDuplicateExecution
  BY DEF IInv, InvSubmissions, NoDuplicateExecution
<1> QED
  BY <1>1, IInvInvariant, PTL

\* A command reaches the TPM at most ESYS_MAX_SUBMISSIONS + 1 times, and a
\* retry-class code reaches the caller only once that bound was used up.
THEOREM ResubmissionBoundInvariant == Spec => []ResubmissionBound
<1>1. IInv => ResubmissionBound
  BY DEF IInv, InvSubmissions, ResubmissionBound
<1> QED
  BY <1>1, IInvInvariant, PTL

-----------------------------------------------------------------------------
(* Transmissions: every step that sends a command sends the current one,   *)
(* and only while the TPM has not acted on it.                             *)

\* The step condition of SendsOnlyUnexecuted.
SendsStep ==
    \A c \in 1..MaxCommands :
        sent'[c] # sent[c] => c = cmd' /\ executed[c] = 0

\* Tss2_Sys_ExecuteAsync counts a transmission of its command only.
LEMMA ExecuteAsyncSendsOnly ==
  ASSUME NEW c \in 1..MaxCommands, NEW rc, ExecuteAsync(c, rc),
         sent \in [1..MaxCommands -> Nat]
  PROVE  \A d \in 1..MaxCommands : sent'[d] # sent[d] => d = c
BY DEF ExecuteAsync

\* Async sends only the command it starts, which the TPM has not seen.
LEMMA AsyncSends ==
  ASSUME IInv, Async
  PROVE  SendsStep
<1>1. sent \in [1..MaxCommands -> Nat] /\ cmd \in 0..MaxCommands
  BY DEF IInv, TypeOK
<1>2. CASE UNCHANGED sent
  BY <1>2 DEF SendsStep
<1>3. CASE /\ cmd < MaxCommands /\ cmd' = cmd + 1
           /\ \E rc \in {"SUCCESS"} \cup TransportErrors : ExecuteAsync(cmd', rc)
  <2>1. PICK rc \in {"SUCCESS"} \cup TransportErrors : ExecuteAsync(cmd', rc)
    BY <1>3
  <2>2. cmd' \in 1..MaxCommands
    BY <1>1, <1>3
  <2>3. \A d \in 1..MaxCommands : sent'[d] # sent[d] => d = cmd'
    BY <1>1, <2>1, <2>2, ExecuteAsyncSendsOnly
  <2>4. executed[cmd'] = 0
    BY <1>1, <1>3, <2>2 DEF IInv, InvSubmissions
  <2> QED
    BY <2>3, <2>4 DEF SendsStep
<1> QED
  BY <1>2, <1>3 DEF Async, CheckSequenceAsync

\* Finish resends the current command only after an answer with a retry
\* code, which says the TPM did not act on it.
LEMMA FinishSends ==
  ASSUME IInv, Finish
  PROVE  SendsStep
<1>1. sent \in [1..MaxCommands -> Nat]
  BY DEF IInv, TypeOK
<1>2. CASE state \notin {"Sent", "Resubmission"} /\ UNCHANGED sent
  BY <1>2 DEF SendsStep
<1>3. CASE /\ state \in {"Sent", "Resubmission"}
           /\ UNCHANGED <<cmd, executed>>
           /\ \E o \in ReceiveOutcomes :
                \/ NotReady(o) \/ TpmErrorReturn(o) \/ OtherErrorReturn(o)
                \/ CheckAndComplete(o)
  <2>1. UNCHANGED sent
    BY <1>3 DEF NotReady, TpmErrorReturn, OtherErrorReturn, CheckAndComplete
  <2> QED
    BY <2>1 DEF SendsStep
<1>4. CASE /\ state \in {"Sent", "Resubmission"}
           /\ UNCHANGED <<cmd, executed>>
           /\ \E o \in ReceiveOutcomes : Resubmit(o)
  <2>1. PICK o \in ReceiveOutcomes : Resubmit(o)
    BY <1>4
  <2>2. Outcome(o)
    BY <1>4, ReceiveFacts
  <2>3. o.rc \in RetryRcs
    BY <2>1 DEF Resubmit, IsResubmitRc
  \* A retry code comes only from a well-formed answer to the command.
  <2>4. executed[cmd] = 0 /\ cmd \in 1..MaxCommands
    <3>1. o.rc \notin {"BAD_SEQUENCE", "TCTI_IO_ERROR", "TRY_AGAIN"}
          /\ o.rc \in TpmRcs
      BY <2>3, RetryRcsDistinct
    <3>2. o.rsp.hdr = "ok" /\ o.rsp.rc = o.rc
      BY <2>2, <3>1 DEF Outcome
    <3> QED
      BY <2>2, <2>3, <3>1, <3>2 DEF Outcome
  <2>5. \A d \in 1..MaxCommands : sent'[d] # sent[d] => d = cmd
    <3>1. CASE UNCHANGED sent
      BY <3>1
    <3>2. CASE \E rc \in {"SUCCESS"} \cup TransportErrors : ExecuteAsync(cmd, rc)
      BY <1>1, <2>4, <3>2, ExecuteAsyncSendsOnly
    <3> QED
      BY <2>1, <3>1, <3>2 DEF Resubmit
  <2> QED
    BY <1>4, <2>4, <2>5 DEF SendsStep
<1> QED
  BY <1>2, <1>3, <1>4 DEF Finish

\* Every step of the context and the TPM satisfies the step condition.
LEMMA NextSends ==
  ASSUME IInv, [Next]_vars
  PROVE  SendsStep
<1>1. CASE AsyncCall \/ OneCallBegin
  BY <1>1, AsyncSends DEF AsyncCall, OneCallBegin
<1>2. CASE FinishCall \/ OneCallFinish
  BY <1>2, FinishSends DEF FinishCall, OneCallFinish
<1>3. CASE TpmExecute \/ UNCHANGED vars
  BY <1>3 DEF TpmExecute, vars, SendsStep
<1> QED
  BY <1>1, <1>2, <1>3 DEF Next

\* The context never sends the TPM a command the TPM has already acted on,
\* and sends nothing but the command the caller is waiting on: neither the
\* first transmit of Async nor a resubmission of Finish can repeat an
\* executed command.
THEOREM SendsOnlyUnexecutedProperty == Spec => SendsOnlyUnexecuted
<1>1. IInv /\ [Next]_vars => [SendsStep]_vars
  BY NextSends
<1> QED
  BY <1>1, IInvInvariant, PTL DEF Spec, SendsOnlyUnexecuted, SendsStep


-----------------------------------------------------------------------------
(* The one-call function gives the caller its timeout back.  For the       *)
(* timeout t the context started with, TimeoutKept(t) holds in every state: *)
(* the saved timeout is t, and outside the one-call function so is the     *)
(* timeout.  Only the caller's actions touch the three variables; Async,   *)
(* Finish and the TPM leave them alone.                                    *)

TimeoutKept(t) == savedTimeout = t /\ (caller = "Idle" => timeout = t)

\* Every step keeps TimeoutKept(t).
LEMMA NextTimeoutKept ==
  ASSUME NEW t, TimeoutKept(t), [Next]_vars
  PROVE  TimeoutKept(t)'
<1>1. CASE AsyncCall \/ FinishCall
  BY <1>1 DEF AsyncCall, FinishCall, TimeoutKept
<1>2. CASE OneCallBegin
  BY <1>2 DEF OneCallBegin, TimeoutKept
<1>3. CASE OneCallFinish
  BY <1>3 DEF OneCallFinish, TimeoutKept
<1>4. CASE TpmExecute
  BY <1>4 DEF TpmExecute, TimeoutKept
<1>5. CASE UNCHANGED vars
  BY <1>5 DEF vars, TimeoutKept
<1> QED
  BY <1>1, <1>2, <1>3, <1>4, <1>5 DEF Next

\* Whenever no one-call function is running, the context's timeout is the
\* one it started with: the wrapper restores it on every way out of its
\* loop, error returns included (TimeoutRestored of the run esys_command).
THEOREM TimeoutRestoredProperty == Spec => TimeoutRestored
<1> SUFFICES ASSUME NEW t \in Timeouts
             PROVE  Spec => (timeout = t => [](caller = "Idle" => timeout = t))
  BY DEF TimeoutRestored
<1>1. Init /\ timeout = t => TimeoutKept(t)
  BY DEF Init, TimeoutKept
<1>2. TimeoutKept(t) /\ [Next]_vars => TimeoutKept(t)'
  BY NextTimeoutKept
<1>3. TimeoutKept(t) => (caller = "Idle" => timeout = t)
  BY DEF TimeoutKept
<1> QED
  BY <1>1, <1>2, <1>3, PTL DEF Spec

=============================================================================
