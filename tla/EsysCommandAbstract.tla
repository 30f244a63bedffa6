------------------------- MODULE EsysCommandAbstract -------------------------
(***************************************************************************)
(* What one ESYS_CONTEXT promises its caller, without transports, stages,  *)
(* resubmissions or return codes.  The caller starts commands one after    *)
(* the other; the TPM acts on the command last started at most once; a     *)
(* result is handed out only for that command, only after the TPM acted on *)
(* it, and only once.  Starting a command ends the previous one: nothing   *)
(* happens to it afterwards, neither a late execution nor a late result.   *)
(***************************************************************************)
EXTENDS Naturals

CONSTANT MaxCommands   \* bound on the commands the caller starts

VARIABLES
    current,   \* the number of the command last started (0: none yet)
    done,      \* the commands the TPM has acted on
    results    \* the commands whose result was handed to the caller

avars == <<current, done, results>>

AInit ==
    /\ current = 0
    /\ done = {}
    /\ results = {}

\* The caller starts the next command.
Start ==
    /\ current < MaxCommands
    /\ current' = current + 1
    /\ UNCHANGED <<done, results>>

\* The TPM acts on the current command, once.
Execute ==
    /\ current # 0
    /\ current \notin done
    /\ done' = done \cup {current}
    /\ UNCHANGED <<current, results>>

\* The result of the current command reaches the caller, once, and only
\* after the TPM acted on it.
Deliver ==
    /\ current \in done \ results
    /\ results' = results \cup {current}
    /\ UNCHANGED <<current, done>>

ANext == Start \/ Execute \/ Deliver

ASpec == AInit /\ [][ANext]_avars

=============================================================================
