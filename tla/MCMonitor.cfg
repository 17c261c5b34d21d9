SPECIFICATION Spec
CONSTANTS
    Workers = {w1, w2}
    Acceptor = acceptor
    MaxRequests = 3
    Durations <- MCDurations
    LogMax = 2
    LogFallback = 2
    LogCap = 2
    Limits <- MCLimits
    NoWorker = NoWorker
INVARIANTS MaxIsLargest ScrapeIsConsistent LogsAreTail AnswersAreLogged
 
