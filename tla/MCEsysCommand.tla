--------------------------- MODULE MCEsysCommand ---------------------------
(* The ESAPI command state machine for TLC: two commands, two automatic    *)
(* resubmissions, a blocking and a polling caller timeout.                 *)
EXTENDS EsysCommand

MCTimeouts == {-1, 0}
MCRetryRcs == {"TPM_RC_YIELDED", "TPM_RC_RETRY"}
MCTransportErrors == {"TCTI_IO_ERROR", "TCTI_TRY_AGAIN"}
MCAsyncFaults == {"BAD_TR", "PREPARE_FAILED", "GEN_AUTHS"}
=============================================================================
