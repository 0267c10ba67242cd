---------------------------- MODULE MCUrlListing ----------------------------
(***************************************************************************)
(* Small instances of UrlListing for TLC: ints from -128 to 127.           *)
(***************************************************************************)
EXTENDS UrlListing

\* No limit (the default, 2), one, one above the maximum, and one that such an
\* int takes for a negative number.
SmallQueries == {<<>>, <<1>>, <<1, 0>>, <<2, 0, 0>>}

=============================================================================
