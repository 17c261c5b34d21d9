------------------------------- MODULE MCLab --------------------------------
(* Instances of Lab for TLC.                                               *)
EXTENDS Lab

\* Requests on both sides of zero, as a number and beside a duration, and
\* some without a timeout.
MCBenchmarks ==
    [requests : {-1, 0, 1, 3}, soak : BOOLEAN, concurrency : {0, 1, 2},
     timed : {TRUE}]
        \cup [requests : {2}, soak : BOOLEAN, concurrency : {2}, timed : {FALSE}]

\* Two URLs, a file that is no report and one with a bad duration.
MCFiles ==
    [url : {1}, value : {1, 2, 5}] \cup [url : {2}, value : {3, NoAnswer}]
        \cup [url : {0}, value : {1}]
MCReportLists == BoundedSeq(MCFiles, 4)

\* One fixture of any bytes, or three entries of any kind.
MCFixtures == BoundedSeq({"a", CR, LF}, 5)
MCEntries ==
    [kind : {"http", "raw", "other"}, body : {<<"a", LF>>, Unreadable}]
MCDirectories ==
    BoundedSeq(MCEntries, 3)
        \cup BoundedSeq([kind : {"http", "raw"}, body : MCFixtures], 1)
=============================================================================
