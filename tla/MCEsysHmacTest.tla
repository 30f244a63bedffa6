--------------------------- MODULE MCEsysHmacTest ---------------------------
(* The HMAC integration test for TLC: five Async calls (the four commands  *)
(* and the cleanup flush), one automatic resubmission, a retry code, both  *)
(* transport errors and two Async faults.                                  *)
EXTENDS EsysHmacTest

MCTimeouts == {-1, 0}
MCRetryRcs == {"TPM_RC_YIELDED"}
MCTransportErrors == {"TCTI_IO_ERROR", "TCTI_TRY_AGAIN"}
MCAsyncFaults == {"BAD_TR", "PREPARE_FAILED"}
=============================================================================
