SPECIFICATION Spec
CONSTANTS
    MaxRequests = 3
    MaxSent = 4
    MaxAttempts = 2
INVARIANTS OneAnswerInOrder PromisesAreKept CountersAreTrue PoliteClientIsNotRejected
PROPERTIES AlwaysCloses
