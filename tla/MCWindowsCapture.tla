-------------------------- MODULE MCWindowsCapture --------------------------
\* WindowsCapture on two threads, two block addresses, two pages and two
\* images; a disk with room, one at its file limit and one that fills up.  The
\* threads are interchangeable.
EXTENDS WindowsCapture
MCImages == {[base |-> 1, size |-> 2], [base |-> 3, size |-> 1]}
Room == [limit |-> 100, space |-> 100]
Limited == [limit |-> 17, space |-> 100]
Full == [limit |-> 100, space |-> 8]
Run(family, minimum, disk, calls) ==
    [family |-> family, minimum |-> minimum, disk |-> disk, calls |-> calls,
     odd |-> IF calls = 3 THEN 0 ELSE 1]
MCRuns ==
    {Run("heap", 0, Room, 3), Run("heap", 2, Room, 2), Run("virtual", 0, Room, 3),
     Run("virtual", 2, Room, 2), Run("section", 0, Limited, 3), Run("section", 0, Room, 2),
     Run("custom", 0, Room, 3), Run("custom", 2, Full, 2), Run("module", 0, Room, 1),
     Run("module", 0, Limited, 1)}
ThreadSymmetry == Permutations(Threads)
============================================================================
