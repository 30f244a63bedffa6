CONSTANTS
    MaxSubmissions = 1
    MaxCommands = 5
    Timeouts <- MCTimeouts
    RetryRcs <- MCRetryRcs
    TransportErrors <- MCTransportErrors
    AsyncFaults <- MCAsyncFaults

SPECIFICATION TestSpec

INVARIANT TestTypeOK
INVARIANT TestSuccessSound

PROPERTY TestTerminates
