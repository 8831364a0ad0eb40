------------------------ MODULE MCLinuxTraceWriter ------------------------
\* LinuxTraceWriter with overlapping images, small files and small disks.
EXTENDS LinuxTraceWriter
MCImages == {[base |-> 1, size |-> 2], [base |-> 2, size |-> 2]}
MCAddresses == {2}
MCOutcomes ==
    {[ok |-> TRUE,  filtered |-> FALSE, records |-> 1, stack |-> TRUE,  lost |-> FALSE],
     [ok |-> TRUE,  filtered |-> FALSE, records |-> 2, stack |-> FALSE, lost |-> FALSE],
     [ok |-> FALSE, filtered |-> FALSE, records |-> 1, stack |-> FALSE, lost |-> TRUE],
     [ok |-> TRUE,  filtered |-> TRUE,  records |-> 1, stack |-> FALSE, lost |-> FALSE]}
MCDisks ==
    {[limit |-> 99, space |-> 99, late |-> FALSE], [limit |-> 18, space |-> 99, late |-> FALSE],
     [limit |-> 99, space |-> 12, late |-> FALSE], [limit |-> 18, space |-> 12, late |-> TRUE]}
============================================================================
