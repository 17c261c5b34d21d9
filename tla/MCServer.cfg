SPECIFICATION Spec
CONSTANTS
    c1 = c1
    c2 = c2
    c3 = c3
    c4 = c4
    w1 = w1
    w2 = w2
    Conns <- MCConns
    Workers <- MCWorkers
    JobQueueSize = 1
    MaxKeepAlive = 2
    RateLimitEnabled = TRUE
    NoConn = NoConn
INVARIANTS NoLeak OneOwner NoSendOnClosed CleanReturn GaugeIsExact Accounting
PROPERTIES EveryConnEnds SignalEnds
