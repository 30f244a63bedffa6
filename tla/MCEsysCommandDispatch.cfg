CONSTANTS
    MaxSubmissions = 2
    MaxCommands = 2
    Timeouts <- MCTimeouts
    RetryRcs <- MCRetryRcs
    TransportErrors <- MCTransportErrors
    AsyncFaults <- MCAsyncFaults

SPECIFICATION Spec

INVARIANT TransportFailureIsTerminal
