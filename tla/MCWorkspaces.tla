---------------------------- MODULE MCWorkspaces ----------------------------
(***************************************************************************)
(* Small instances of Workspaces for TLC.                                  *)
(***************************************************************************)
EXTENDS Workspaces, TLC

\* Requests, ids, users, names and slugs are interchangeable.
Symmetry ==
    Permutations(Requests) \cup Permutations(Ids) \cup Permutations(Users)
        \cup Permutations(Names) \cup Permutations(Slugs)

=============================================================================
