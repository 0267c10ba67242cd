---------------------------- MODULE MCClickStream ---------------------------
(***************************************************************************)
(* Small instances of ClickStream for TLC.                                 *)
(***************************************************************************)
EXTENDS ClickStream

CONSTANTS c1, c2, c3, c4, s1, s2

\* A workspace's stream, and the stream of the link of c1 and c2.
TwoStreams == s1 :> Redirects @@ s2 :> {c1, c2}

=============================================================================
