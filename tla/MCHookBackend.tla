--------------------------- MODULE MCHookBackend ---------------------------
(* Model-checking instances of HookBackend. *)
EXTENDS HookBackend, TLC

\* Interchangeable identities; sound for safety.
BackendSymmetry ==
    Permutations(Targets) \cup Permutations(Slices) \cup Permutations(Clients)

============================================================================
