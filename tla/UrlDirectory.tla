---------------------------- MODULE UrlDirectory ----------------------------
(***************************************************************************)
(* What the URL service promises, with no cache, replica, retries or       *)
(* concurrent handlers in sight: a directory of links that are added once, *)
(* changed and removed by atomic steps, and redirects that answer from     *)
(* some state the directory has really been in.                            *)
(***************************************************************************)
EXTENDS UrlEntity

CONSTANTS Codes, NoCode, Resolvers

VARIABLES dir,    \* the link behind each code
          ever,   \* every link a code has stood for
          out     \* the latest request of each client and its answer

dvars == <<dir, ever, out>>

Put(c, u) ==
    /\ dir' = [dir EXCEPT ![c] = u]
    /\ ever' = [ever EXCEPT ![c] = @ \cup {u}]
    /\ UNCHANGED out

\* A code is given out once, and never again, not even after a removal.
Add(c, u) ==
    /\ dir[c] = NoRow
    /\ u.status = "active" /\ ~u.deleted
    /\ Put(c, u)

\* A change keeps the owner and does not touch a removed link.
Change(c, u) ==
    /\ dir[c] # NoRow /\ ~dir[c].deleted
    /\ u.ws = dir[c].ws /\ u.status = "active" /\ ~u.deleted
    /\ u.ver = dir[c].ver + 1
    /\ Put(c, u)

Remove(c) ==
    /\ dir[c] # NoRow /\ ~dir[c].deleted
    /\ Put(c, [ws |-> dir[c].ws, target |-> dir[c].target,
               expires |-> dir[c].expires, status |-> "deleted",
               deleted |-> TRUE, ver |-> dir[c].ver + 1])

Ask(r, c) ==
    /\ out' = [out EXCEPT ![r] = [code |-> c, ans |-> "none", row |-> NoRow]]
    /\ UNCHANGED <<dir, ever>>

\* A redirect leads to a target its code once had, and only a link that has
\* had an expiry is reported gone.
Answer(r, a, u) ==
    LET c == out[r].code IN
    /\ c \in Codes
    /\ out[r].ans = "none"
    /\ a = "redirect" => u \in ever[c] /\ u.status = "active" /\ ~u.deleted
    /\ a = "gone" => u \in ever[c] /\ u.expires # Never
    /\ out' = [out EXCEPT ![r] = [code |-> c, ans |-> a, row |-> u]]
    /\ UNCHANGED <<dir, ever>>

DInit ==
    /\ dir = [c \in Codes |-> NoRow]
    /\ ever = [c \in Codes |-> {}]
    /\ out = [r \in Resolvers |-> [code |-> NoCode, ans |-> "none", row |-> NoRow]]

\* u ranges over the rows the directory has held, so that TLC can enumerate
\* the step; a change that adds u puts it into ever'.
DNext ==
    \/ \E c \in Codes : Remove(c) \/ \E u \in ever'[c] : Add(c, u) \/ Change(c, u)
    \/ \E r \in Resolvers, c \in Codes : Ask(r, c)
    \/ \E r \in Resolvers, a \in Answers \ {"none"} :
           \E u \in {NoRow} \cup UNION {ever[c] : c \in Codes} : Answer(r, a, u)

DSpec == DInit /\ [][DNext]_dvars

=============================================================================
