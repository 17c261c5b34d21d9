SPECIFICATION Spec
CONSTANTS
    Benchmarks <- MCBenchmarks
    Latencies = {1, 2, 4}
    Codes = {0, 200, 429}
    MaxSoak = 3
    ReportLists <- MCReportLists
    Directories <- MCDirectories
    RankBound = 250
INVARIANTS
    EveryRequestCounts
    StatisticsAreRight
    CompareIsSound
PROPERTY
    CommandsEnd
