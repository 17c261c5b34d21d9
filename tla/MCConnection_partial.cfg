SPECIFICATION Spec
CONSTANTS
    MaxRequests = 2
    MaxSent = 2
    MaxAttempts = 1
INVARIANTS OneResponsePerWriter
