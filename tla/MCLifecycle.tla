------------------------------ MODULE MCLifecycle ------------------------------
(* The process with a few addresses and requests. *)
EXTENDS Lifecycle
=============================================================================
