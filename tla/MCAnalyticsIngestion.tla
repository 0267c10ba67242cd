------------------------ MODULE MCAnalyticsIngestion ------------------------
(***************************************************************************)
(* A small instance of AnalyticsIngestion for TLC.  Liveness is checked with*)
(* the invariants, so no symmetry is used.                                 *)
(***************************************************************************)
EXTENDS AnalyticsIngestion

=============================================================================
