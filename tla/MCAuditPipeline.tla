-------------------------- MODULE MCAuditPipeline ---------------------------
(***************************************************************************)
(* A small instance of AuditPipeline for TLC.  Liveness is checked with    *)
(* the invariants, so no symmetry is used.                                 *)
(***************************************************************************)
EXTENDS AuditPipeline

=============================================================================
