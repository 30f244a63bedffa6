------------------------ MODULE SysContractAbstract ------------------------
(***************************************************************************)
(* What the SAPI promises a caller of one TSS2_SYS_CONTEXT, without the    *)
(* marshalling, the flags or the return codes: the context holds the       *)
(* command last begun; a command may be begun whenever none is in flight;  *)
(* only a prepared command is sent; a transmit may fail and leave it       *)
(* prepared; a TPM error sends it back to prepared; and whatever is in     *)
(* flight or answered is the command held.  Begin is a Prepare, successful *)
(* or not; Exchange is the one-call function.                              *)
(***************************************************************************)
CONSTANT Cmds             \* the command codes

NoCmd == "none"

Phases == {"idle", "prepared", "inflight", "answered"}

VARIABLES
    held,      \* the command the context holds
    phase,     \* where that command is in the exchange
    answer     \* the command the TPM was last given, whose answer is read

avars == <<held, phase, answer>>

AInit == held = NoCmd /\ phase = "idle" /\ answer = NoCmd

\* A Prepare: a new command replaces the held one; it is prepared if the
\* whole body was marshalled, idle otherwise.
Begin(c) ==
    /\ phase # "inflight"
    /\ held' = c
    /\ phase' \in {"idle", "prepared"}
    /\ UNCHANGED answer

\* The prepared command goes to the TPM.
Send ==
    /\ phase = "prepared"
    /\ phase' = "inflight"
    /\ answer' = held
    /\ UNCHANGED held

\* The transmit fails; the command may or may not have reached the TPM and
\* stays prepared.
SendFails ==
    /\ phase = "prepared"
    /\ answer' \in {answer, held}
    /\ UNCHANGED <<held, phase>>

\* The answer to the command in flight is read: it is left for Complete,
\* or, a TPM error, the command is prepared to be sent again.
Receive ==
    /\ phase = "inflight"
    /\ phase' \in {"answered", "prepared"}
    /\ UNCHANGED <<held, answer>>

\* A one-call function: begin, send and receive as one step, which may stop
\* at a failed transmit or a failed receive.
Exchange(c) ==
    /\ phase # "inflight"
    /\ held' = c
    /\ \/ /\ phase' \in {"inflight", "answered"}
          /\ answer' = c
       \/ /\ phase' = "prepared"
          /\ answer' \in {answer, c}

ANext ==
    \/ \E c \in Cmds : Begin(c) \/ Exchange(c)
    \/ Send
    \/ SendFails
    \/ Receive

ASpec == AInit /\ [][ANext]_avars

\* The contract's promise: an exchange in flight or answered is the
\* exchange of the command held.
AnswerIsHeld == phase \in {"inflight", "answered"} => answer = held
=============================================================================
