-------------------------- MODULE MCCaptureSession --------------------------
(* Model-checking instances of CaptureSession. *)
EXTENDS CaptureSession, TLC

============================================================================
