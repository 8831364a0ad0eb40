---------------------- MODULE MCReplacementLifecycle ----------------------
(* Model-checking instances of ReplacementLifecycle. *)
EXTENDS ReplacementLifecycle

============================================================================
