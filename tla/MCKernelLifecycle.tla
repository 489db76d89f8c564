------------------------- MODULE MCKernelLifecycle -------------------------
(* Instances of KernelLifecycle for TLC. *)
EXTENDS KernelLifecycle

CONSTANTS u1, u2, q1, x1, r1, r2, d1
=============================================================================
