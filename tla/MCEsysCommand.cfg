CONSTANTS
    MaxSubmissions = 2
    MaxCommands = 2
    Timeouts <- MCTimeouts
    RetryRcs <- MCRetryRcs
    TransportErrors <- MCTransportErrors
    AsyncFaults <- MCAsyncFaults

SPECIFICATION FairSpec

INVARIANT TypeOK
INVARIANT OutputsMatchCommand
INVARIANT NoDuplicateExecution
INVARIANT ResubmissionBound
INVARIANT IInv

PROPERTY OneCallReturns
PROPERTY AbstractSpec
PROPERTY SendsOnlyUnexecuted
PROPERTY TimeoutRestored
