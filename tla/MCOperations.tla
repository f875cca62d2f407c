---------------------------- MODULE MCOperations ----------------------------
EXTENDS Operations, TLC

CONSTANTS multi, japan, t1, t2

\* casio_multi has no component row of its own: it writes casio_jp_sitemap's.
MCReports == [s \in Source |-> japan]

MCOutcomes ==
    [s \in Source |->
        {[status |-> "SUCCESS", found |-> TRUE], [status |-> "FAILED", found |-> FALSE]}
        \union IF s = multi THEN {}
               ELSE {[status |-> "BLOCKED", found |-> FALSE],
                     [status |-> "ZERO_ITEMS", found |-> FALSE]}]

MCSafeIds == <<multi, japan>>
=============================================================================
