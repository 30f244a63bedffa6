------------------------ MODULE EsysRefinementProofs ------------------------
(***************************************************************************)
(* Proof that the ESAPI command state machine implements the abstract      *)
(* promise of EsysCommandAbstract under the refinement mapping of          *)
(* EsysCommand (current <- cmd, done <- ExecutedCmds,                      *)
(* results <- AnsweredCmds), for every value of the constants that         *)
(* satisfies Assumptions.                                                  *)
(*                                                                         *)
(* The inductive invariant IInv of EsysCommandProofs is strengthened by    *)
(* InvAnswered: a success response in the transport was produced by an     *)
(* execution of the TPM.  It is what lets a result handed out by Finish    *)
(* map to an abstract Deliver, which needs the command to be done.         *)
(***************************************************************************)
EXTENDS EsysCommandProofs

\* A well-formed success response in the transport answers a command the
\* TPM has acted on.
InvAnswered ==
    \A i \in 1..Len(fromTpm) :
        fromTpm[i].rc = "SUCCESS" /\ fromTpm[i].hdr = "ok"
          => executed[fromTpm[i].id] # 0

RInv == IInv /\ InvAnswered

-----------------------------------------------------------------------------
(* What each action does to the variables the mapping reads.               *)

\* Async keeps the TPM's executions, the results and the transport towards
\* the context, and either keeps the current command or starts the next.
LEMMA AsyncEffects ==
  ASSUME Async
  PROVE  /\ UNCHANGED <<fromTpm, executed, outputs>>
         /\ \/ cmd' = cmd
            \/ cmd < MaxCommands /\ cmd' = cmd + 1
BY DEF Async, CheckSequenceAsync

\* The TPM takes the current command, which it has not acted on, and puts
\* one answer to it into the empty transport; it acts on the command
\* exactly when it does not answer with a retry code, or may have acted on
\* it when the answer is corrupted.
LEMMA TpmExecuteEffects ==
  ASSUME IInv, TpmExecute
  PROVE  /\ UNCHANGED <<cmd, outputs>>
         /\ cmd \in 1..MaxCommands
         /\ executed[cmd] = 0
         /\ \/ executed' = executed
            \/ executed' = [executed EXCEPT ![cmd] = 1]
         /\ Len(fromTpm') = 1
         /\ fromTpm'[1].id = cmd
         /\ fromTpm'[1].rc = "SUCCESS" /\ fromTpm'[1].hdr = "ok"
              => executed' = [executed EXCEPT ![cmd] = 1]
         /\ Head(toTpm) = cmd
         /\ state # "Init"
<1> USE DEF IInv
<1>1. Len(toTpm) = 1 /\ Len(fromTpm) = 0
  <2>1. Len(toTpm) \in Nat \ {0}
    BY LenProperties, EmptyIffLenZero DEF TpmExecute, TypeOK
  <2>2. Len(fromTpm) \in Nat
    BY LenProperties DEF TypeOK
  <2>3. Len(toTpm) + Len(fromTpm) <= 1
    BY DEF InvInFlight
  <2> QED
    BY <2>1, <2>2, <2>3, OneOfTwo
<1>2. fromTpm = << >>
  BY <1>1, EmptyIffLenZero DEF TypeOK
<1>3. /\ toTpm[1] = cmd
      /\ executed[cmd] = 0
      /\ cmd \in 1..MaxCommands
  BY <1>1 DEF InvInFlight
<1>4. Head(toTpm) = cmd
  <2>1. Head(toTpm) = toTpm[1]
    BY <1>1, SingletonHeadTail DEF TypeOK
  <2> QED
    BY <2>1, <1>3
<1>5. PICK a \in Answers :
        /\ fromTpm' = Append(fromTpm, [id |-> Head(toTpm), rc |-> a.rc,
                                       hdr |-> a.hdr, hmacOk |-> a.hmacOk])
        /\ \/ a.rc \in RetryRcs /\ UNCHANGED executed
           \/ a.rc \notin RetryRcs
                /\ executed' = [executed EXCEPT ![Head(toTpm)] = @ + 1]
           \/ a.hdr # "ok" /\ UNCHANGED executed
  BY DEF TpmExecute
<1> DEFINE r == [id |-> cmd, rc |-> a.rc, hdr |-> a.hdr, hmacOk |-> a.hmacOk]
<1>6. Len(fromTpm') = 1 /\ fromTpm'[1] = r
  BY <1>2, <1>4, <1>5, AppendToEmpty
<1>7. [executed EXCEPT ![Head(toTpm)] = @ + 1] = [executed EXCEPT ![cmd] = 1]
  <2>1. executed \in [1..MaxCommands -> Nat]
    BY DEF TypeOK
  <2>2. [executed EXCEPT ![Head(toTpm)] = @ + 1]
          = [executed EXCEPT ![cmd] = @ + 1]
    BY <1>4, Zenon
  <2>3. [executed EXCEPT ![cmd] = @ + 1] = [executed EXCEPT ![cmd] = 1]
    BY <1>3, <2>1
  <2> QED
    BY <2>2, <2>3, Zenon
<1>8. "SUCCESS" \notin RetryRcs
  BY RetryRcsDistinct
<1>9. \/ executed' = executed
      \/ executed' = [executed EXCEPT ![cmd] = 1]
  BY <1>5, <1>7
<1>10. a.rc = "SUCCESS" /\ a.hdr = "ok"
         => executed' = [executed EXCEPT ![cmd] = 1]
  BY <1>5, <1>7, <1>8
<1>11. state # "Init"
  <2>1. toTpm # << >>
    BY DEF TpmExecute
  <2> QED
    BY <2>1 DEF InvInFlight
<1> QED
  BY <1>3, <1>4, <1>6, <1>9, <1>10, <1>11 DEF TpmExecute

\* Finish keeps the current command and the TPM's executions, leaves the
\* transport towards the context as it was or empty, and hands out at most
\* a result of the current command, which the TPM has acted on and which
\* has no result yet.
LEMMA FinishEffects ==
  ASSUME RInv, Finish
  PROVE  /\ UNCHANGED <<cmd, executed>>
         /\ fromTpm' = fromTpm \/ fromTpm' = << >>
         /\ \/ outputs' = outputs
            \/ /\ cmd \in 1..MaxCommands
               /\ executed[cmd] # 0
               /\ \A x \in outputs : x.cmd # cmd
               /\ \E r : outputs' = outputs \cup {[cmd |-> cmd, rsp |-> r]}
<1>1. CASE state \notin {"Sent", "Resubmission"} /\ ret' = "BAD_SEQUENCE"
           /\ UNCHANGED <<state, submissionCount, cmd, stage, toTpm, fromTpm,
                          sent, executed, outputs>>
  BY <1>1
<1>2. CASE /\ state \in {"Sent", "Resubmission"}
           /\ UNCHANGED <<cmd, executed>>
           /\ \E o \in ReceiveOutcomes :
                /\ fromTpm' = IF o.rsp = NoRsp THEN fromTpm ELSE Tail(fromTpm)
                /\ \/ NotReady(o)
                   \/ Resubmit(o)
                   \/ TpmErrorReturn(o)
                   \/ OtherErrorReturn(o)
                   \/ CheckAndComplete(o)
  <2>1. PICK o \in ReceiveOutcomes :
                /\ fromTpm' = IF o.rsp = NoRsp THEN fromTpm ELSE Tail(fromTpm)
                /\ \/ NotReady(o)
                   \/ Resubmit(o)
                   \/ TpmErrorReturn(o)
                   \/ OtherErrorReturn(o)
                   \/ CheckAndComplete(o)
    BY <1>2
  <2>2. Outcome(o)
    BY <1>2, ReceiveFacts DEF RInv
  <2>3. fromTpm' = fromTpm \/ fromTpm' = << >>
    BY <2>1, <2>2 DEF Outcome
  <2>4. CASE NotReady(o) \/ Resubmit(o) \/ TpmErrorReturn(o)
             \/ OtherErrorReturn(o)
    BY <1>2, <2>3, <2>4 DEF NotReady, Resubmit, TpmErrorReturn,
                            OtherErrorReturn
  <2>5. CASE CheckAndComplete(o)
    <3>1. o.rc = "SUCCESS"
      BY <2>5 DEF CheckAndComplete
    <3>2. "SUCCESS" \notin {"BAD_SEQUENCE", "TCTI_IO_ERROR", "TRY_AGAIN"}
          /\ "SUCCESS" \in TpmRcs
      BY DEF TpmRcs
    <3>3. /\ o.rsp # NoRsp
          /\ Len(fromTpm) = 1
          /\ o.rsp = fromTpm[1]
          /\ o.rsp.id = cmd
          /\ o.rsp.hdr = "ok" /\ o.rsp.rc = "SUCCESS"
          /\ cmd \in 1..MaxCommands
          /\ \A x \in outputs : x.cmd # cmd
      BY <2>2, <3>1, <3>2 DEF Outcome
    <3>4. executed[cmd] # 0
      BY <3>3 DEF RInv, InvAnswered
    <3>5. outputs' = outputs
          \/ outputs' = outputs \cup {[cmd |-> cmd, rsp |-> o.rsp]}
      BY <2>5 DEF CheckAndComplete
    <3> QED
      BY <1>2, <2>3, <3>3, <3>4, <3>5
  <2> QED
    BY <2>1, <2>4, <2>5
<1> QED
  BY <1>1, <1>2 DEF Finish

-----------------------------------------------------------------------------
(* RInv is an inductive invariant.                                         *)

LEMMA InitRInv == Init => RInv
<1> SUFFICES ASSUME Init PROVE RInv
  OBVIOUS
<1>1. Len(fromTpm) = 0
  BY EmptySeq DEF Init
<1> QED
  BY <1>1, InitIInv DEF RInv, InvAnswered

\* A step that keeps the executions and leaves the transport towards the
\* context as it was or empty keeps InvAnswered.
LEMMA AnsweredFrame ==
  ASSUME InvAnswered, executed' = executed,
         fromTpm' = fromTpm \/ fromTpm' = << >>
  PROVE  InvAnswered'
<1>1. CASE fromTpm' = << >>
  <2>1. Len(fromTpm') = 0
    BY <1>1, EmptySeq
  <2> QED
    BY <2>1 DEF InvAnswered
<1>2. CASE fromTpm' = fromTpm
  BY <1>2, Zenon DEF InvAnswered
<1> QED
  BY <1>1, <1>2

LEMMA NextRInv == RInv /\ [Next]_vars => RInv'
<1> SUFFICES ASSUME RInv, [Next]_vars PROVE RInv'
  OBVIOUS
<1>1. IInv'
  BY NextIInv DEF RInv
<1>2. InvAnswered'
  <2>1. CASE AsyncCall \/ OneCallBegin
    <3>1. Async
      BY <2>1 DEF AsyncCall, OneCallBegin
    <3> QED
      BY <3>1, AsyncEffects, AnsweredFrame DEF RInv
  <2>2. CASE FinishCall \/ OneCallFinish
    <3>1. Finish
      BY <2>2 DEF FinishCall, OneCallFinish
    <3> QED
      BY <3>1, FinishEffects, AnsweredFrame DEF RInv
  <2>3. CASE TpmExecute
    <3>1. /\ Len(fromTpm') = 1
          /\ fromTpm'[1].id = cmd
          /\ fromTpm'[1].rc = "SUCCESS" /\ fromTpm'[1].hdr = "ok"
               => executed' = [executed EXCEPT ![cmd] = 1]
          /\ cmd \in 1..MaxCommands
      BY <2>3, TpmExecuteEffects DEF RInv
    <3>2. executed \in [1..MaxCommands -> 0..MaxSubmissions + 1]
      BY DEF RInv, IInv, TypeOK
    <3>3. ASSUME NEW i \in 1..Len(fromTpm'),
                 fromTpm'[i].rc = "SUCCESS", fromTpm'[i].hdr = "ok"
          PROVE  executed'[fromTpm'[i].id] # 0
      <4>1. i = 1
        BY <3>1
      <4>2. executed' = [executed EXCEPT ![cmd] = 1]
        BY <3>1, <3>3, <4>1
      <4>3. executed'[cmd] = 1
        BY <4>2, <3>1, <3>2
      <4> QED
        BY <3>1, <4>1, <4>3
    <3> QED
      BY <3>3 DEF InvAnswered
  <2>4. CASE UNCHANGED vars
    BY <2>4, AnsweredFrame DEF RInv, vars
  <2> QED
    BY <2>1, <2>2, <2>3, <2>4 DEF Next
<1> QED
  BY <1>1, <1>2 DEF RInv

\* RInv holds in every reachable state.
THEOREM RInvInvariant == Spec => []RInv
BY InitRInv, NextRInv, PTL DEF Spec

-----------------------------------------------------------------------------
(* The refinement: initial states map to the abstract initial state, and   *)
(* every step maps to an abstract step or to a stutter.                    *)

LEMMA InitRefines == Init => Abstract!AInit
BY DEF Init, Abstract!AInit, ExecutedCmds, AnsweredCmds

\* A step that keeps the current command, the executions and the results
\* is an abstract stutter.
LEMMA MappingFrame ==
  ASSUME UNCHANGED <<cmd, executed, outputs>>
  PROVE  UNCHANGED Abstract!avars
BY Zenon DEF Abstract!avars, ExecutedCmds, AnsweredCmds

\* Async is a stutter, or starts the next command.
LEMMA AsyncRefines ==
  ASSUME Async
  PROVE  [Abstract!ANext]_Abstract!avars
<1>1. CASE cmd' = cmd
  BY <1>1, AsyncEffects, MappingFrame
<1>2. CASE cmd < MaxCommands /\ cmd' = cmd + 1
  <2>1. UNCHANGED <<ExecutedCmds, AnsweredCmds>>
    BY AsyncEffects, Zenon DEF ExecutedCmds, AnsweredCmds
  <2> QED
    BY <1>2, <2>1 DEF Abstract!ANext, Abstract!Start
<1> QED
  BY <1>1, <1>2, AsyncEffects

\* Finish is a stutter, or delivers the result of the current command.
LEMMA FinishRefines ==
  ASSUME RInv, Finish
  PROVE  [Abstract!ANext]_Abstract!avars
<1>1. UNCHANGED <<cmd, executed>>
  BY FinishEffects
<1>2. CASE outputs' = outputs
  BY <1>1, <1>2, MappingFrame
<1>3. CASE /\ cmd \in 1..MaxCommands
           /\ executed[cmd] # 0
           /\ \A x \in outputs : x.cmd # cmd
           /\ \E r : outputs' = outputs \cup {[cmd |-> cmd, rsp |-> r]}
  <2>1. PICK r : outputs' = outputs \cup {[cmd |-> cmd, rsp |-> r]}
    BY <1>3
  <2>2. cmd \in ExecutedCmds \ AnsweredCmds
    BY <1>3 DEF ExecutedCmds, AnsweredCmds
  <2>3. AnsweredCmds' = AnsweredCmds \cup {cmd}
    <3> DEFINE new == [cmd |-> cmd, rsp |-> r]
    <3>1. new.cmd = cmd
      OBVIOUS
    <3>2. \A y : y \in AnsweredCmds' <=> y \in AnsweredCmds \/ y = new.cmd
      BY <2>1, Zenon DEF AnsweredCmds
    <3> QED
      BY <3>1, <3>2, Zenon
  <2>4. UNCHANGED ExecutedCmds
    BY <1>1, Zenon DEF ExecutedCmds
  <2> QED
    BY <1>1, <2>2, <2>3, <2>4 DEF Abstract!ANext, Abstract!Deliver
<1> QED
  BY <1>2, <1>3, FinishEffects

\* The TPM's step is a stutter, or executes the current command.
LEMMA TpmExecuteRefines ==
  ASSUME IInv, TpmExecute
  PROVE  [Abstract!ANext]_Abstract!avars
<1>1. /\ UNCHANGED <<cmd, outputs>>
      /\ cmd \in 1..MaxCommands
      /\ executed[cmd] = 0
  BY TpmExecuteEffects
<1>2. CASE executed' = executed
  BY <1>1, <1>2, MappingFrame
<1>3. CASE executed' = [executed EXCEPT ![cmd] = 1]
  <2>1. executed \in [1..MaxCommands -> Nat]
    <3>1. executed \in [1..MaxCommands -> 0..MaxSubmissions + 1]
      BY DEF IInv, TypeOK
    <3>2. 0..MaxSubmissions + 1 \subseteq Nat
      OBVIOUS
    <3> QED
      BY <3>1, <3>2
  <2>2. ExecutedCmds' = ExecutedCmds \cup {cmd}
    BY <1>1, <1>3, <2>1 DEF ExecutedCmds
  <2>3. cmd # 0 /\ cmd \notin ExecutedCmds
    BY <1>1 DEF ExecutedCmds
  <2>4. UNCHANGED AnsweredCmds
    BY <1>1 DEF AnsweredCmds
  <2> QED
    BY <1>1, <2>2, <2>3, <2>4 DEF Abstract!ANext, Abstract!Execute
<1> QED
  BY <1>2, <1>3, TpmExecuteEffects

LEMMA NextRefines == RInv /\ [Next]_vars => [Abstract!ANext]_Abstract!avars
<1> SUFFICES ASSUME RInv, [Next]_vars
             PROVE  [Abstract!ANext]_Abstract!avars
  OBVIOUS
<1>1. CASE AsyncCall \/ OneCallBegin
  BY <1>1, AsyncRefines DEF AsyncCall, OneCallBegin
<1>2. CASE FinishCall \/ OneCallFinish
  BY <1>2, FinishRefines DEF FinishCall, OneCallFinish
<1>3. CASE TpmExecute
  BY <1>3, TpmExecuteRefines DEF RInv
<1>4. CASE UNCHANGED vars
  BY <1>4, MappingFrame DEF vars
<1> QED
  BY <1>1, <1>2, <1>3, <1>4 DEF Next

\* The ESAPI context implements its abstract promise (the property
\* AbstractSpec checked by TLC): the TPM acts only on the command of the
\* last Async call and at most once, Finish hands out at most one result of
\* it and only after the TPM acted on it, and a superseded command is never
\* executed or answered late, for every ESYS_MAX_SUBMISSIONS and every
\* number of commands.
THEOREM Refinement == Spec => AbstractSpec
<1>1. Spec => []RInv
  BY RInvInvariant
<1>2. RInv /\ [Next]_vars => [Abstract!ANext]_Abstract!avars
  BY NextRefines
<1> QED
  BY <1>1, <1>2, InitRefines, PTL DEF Spec, AbstractSpec, Abstract!ASpec

=============================================================================
