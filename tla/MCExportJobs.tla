---------------------------- MODULE MCExportJobs ----------------------------
(***************************************************************************)
(* A small instance of ExportJobs for TLC.  Liveness is checked with       *)
(* the invariants, so no symmetry is used.                                 *)
(***************************************************************************)
EXTENDS ExportJobs

=============================================================================
