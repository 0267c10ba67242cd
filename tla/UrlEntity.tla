----------------------------- MODULE UrlEntity -----------------------------
(***************************************************************************)
(* The URL aggregate (internal/domain/url/entity.go) and the pure rules    *)
(* that decide what a redirect answers.  A row is reduced to the columns   *)
(* some rule looks at: the owning workspace, the target, the expiry time,  *)
(* the status, the soft-delete mark, and a version that orders the writes  *)
(* of one row.  A URL id and its short code are one to one (the code is    *)
(* UNIQUE over all rows, deleted ones included, and never changes), so a   *)
(* row is addressed by its code.                                           *)
(***************************************************************************)
EXTENDS Naturals

CONSTANTS Workspaces,  \* tenant ids
          Targets,     \* valid original URLs
          Never,       \* expires_at IS NULL
          NoRow        \* no row, or no cache entry

ASSUME EntityConstants ==
    /\ Never \notin Nat
    /\ Targets # {} /\ Workspaces # {}

\* url.Status; "expired" and "disabled" are declared by the code, and no
\* code path ever stores them.
Status == {"active", "expired", "disabled", "deleted"}

Expiry == Nat \cup {Never}

Row == [ws: Workspaces, target: Targets, expires: Expiry,
        status: Status, deleted: BOOLEAN, ver: Nat]

ASSUME NoRowIsNoRow == NoRow \notin Row

\* (*URL).IsExpired: strictly after the expiry instant.
IsExpired(u, t) == u.expires # Never /\ t > u.expires

\* (*URL).CanRedirect
CanRedirect(u, t) == u.status = "active" /\ ~IsExpired(u, t)

\* The entity ShortenURL builds before it has a short code.
NewRow(w, o, e) == [ws |-> w, target |-> o, expires |-> e,
                    status |-> "active", deleted |-> FALSE, ver |-> 1]

\* What a redirect can answer: 302, 404, 410, 500, or nothing yet.
Answers == {"none", "redirect", "notfound", "gone", "error"}

\* resolve.handleNonRedirectableURL, composed with the HTTP status that
\* RedirectHandler.writeError gives each error (disabled answers 404 too).
NonRedirectableAnswer(u, t) == IF IsExpired(u, t) THEN "gone" ELSE "notfound"

=============================================================================
