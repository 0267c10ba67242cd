--------------------------- MODULE MCCredentials ----------------------------
(***************************************************************************)
(* Small instances of Credentials for TLC.                                 *)
(***************************************************************************)
EXTENDS Credentials, TLC

CONSTANTS k1, t1

\* The token expires within the clock, and so does its skew.
Expiry1 == t1 :> 2

Symmetry == Permutations(Requests) \cup Permutations(Keys)

=============================================================================
