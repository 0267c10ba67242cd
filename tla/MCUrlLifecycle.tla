-------------------------- MODULE MCUrlLifecycle --------------------------
(***************************************************************************)
(* Small instances of UrlLifecycle for TLC.  Liveness is checked beside    *)
(* the invariants, so no symmetry is used.                                 *)
(***************************************************************************)
EXTENDS UrlLifecycle

\* Bound: clients send two requests of any kind, and a third one only as a
\* delete that overlaps an update which has read its row.  Starting a request
\* is never fair, so the bound takes behaviours away and adds none.
ThirdOvertakesUpdate ==
    issued = 2 /\ issued' = 3 =>
        /\ \E w \in Writers : wpc[w] = "idle" /\ wcmd'[w].op = "delete"
        /\ \E w \in Writers : wpc[w] = "update"

=============================================================================
