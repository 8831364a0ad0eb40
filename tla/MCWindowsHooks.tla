--------------------------- MODULE MCWindowsHooks ---------------------------
(* Model-checking instances of WindowsHooks. *)
EXTENDS WindowsHooks, TLC

\* One RTL hook beside NtMemoryHooks, so that families wait for each other, ...
MCRtl == << "RtlFreeHeap" >>
MCVm  == << "unmap", "unmapEx" >>
\* ... and two points, the first with two roles, so that one can be half installed.
MCPoints == << [name |-> "p", roles |-> << "a", "b" >>], [name |-> "q", roles |-> << "c" >>] >>

SliceSymmetry == Permutations(Slices)

============================================================================
