----------------------------- MODULE Credentials ----------------------------
(***************************************************************************)
(* The two kinds of credentials of the API: API keys, rows of api_keys on  *)
(* the primary, looked up for every request and revoked by an update; and  *)
(* signed tokens, valid until they expire and revoked by an entry of the   *)
(* deny list in Redis.                                                     *)
(*                                                                         *)
(* A credential is a name: that a key's hash verifies and a token's        *)
(* signature, issuer and claims are in order is taken as given.  Which     *)
(* member may revoke a key is the matter of module Workspaces.             *)
(***************************************************************************)
EXTENDS Naturals, FiniteSets

CONSTANTS Keys,         \* API keys, each created once
          Tokens,
          TokenExp,     \* the exp claim of each token
          Expiries,     \* expires_at of the keys created
          Requests,
          Skew,         \* WithAcceptableSkew (30 s)
          MaxTime,      \* bound: the clock
          Never         \* expires_at NULL

ASSUME CredentialConstants ==
    /\ MaxTime \in Nat /\ Skew \in Nat
    /\ TokenExp \in [Tokens -> 0 .. MaxTime]
    /\ Expiries \subseteq Nat \cup {Never} /\ Never \notin Nat
    /\ Keys \cap Tokens = {}

VARIABLES
    now,      \* the clock
    key,      \* rows of api_keys
    deny,     \* deny list: when each token's entry expires, 0 for no entry
    touch,    \* UpdateLastUsed goroutines under way, as <<key, row it read>>
    pc,       \* where each request stands
    req,      \* its credential and operation
    read,     \* the row of its key as looked up
    open,     \* its deny list check failed, and let it pass
    over,     \* history: credentials revoked, and that answered, when it began
    ended,    \* history: credentials revoked, and that answered
    revokers  \* history: requests answered that they revoked each key

db == <<key, touch>>
history == <<over, ended, revokers>>
vars == <<now, db, deny, pc, req, read, open, history>>

-----------------------------------------------------------------------------
(* Rows of api_keys                                                        *)

Row == [state: {"none", "active", "revoked"}, exp: Expiries \cup {Never}, used: BOOLEAN]
NoRow == [state |-> "none", exp |-> Never, used |-> FALSE]

\* The WHERE clause of GetByPrefix, which every key of the workspace may meet.
Usable(row) == row.state = "active" /\ (row.exp = Never \/ row.exp > now)

\* The WHERE clause of Revoke.
Revocable(row) == row.state = "active"

\* What a request asks for once it is accepted.
Operations ==
    [op: {"use", "logout"}] \cup [op: {"create"}, key: Keys, exp: Expiries]
        \cup [op: {"revoke"}, key: Keys]

Idle == [cred |-> "none"]

\* Request r ends.
Finish(r) ==
    /\ pc' = [pc EXCEPT ![r] = "idle"]
    /\ req' = [req EXCEPT ![r] = Idle]
    /\ read' = [read EXCEPT ![r] = NoRow]
    /\ open' = [open EXCEPT ![r] = FALSE]

Goto(r, step) == pc' = [pc EXCEPT ![r] = step] /\ UNCHANGED <<req, read, open>>

-----------------------------------------------------------------------------
(* Authentication                                                          *)

\* extractAPIKey tells the two kinds of credential apart.
Begin(r, cred, o) ==
    /\ pc[r] = "idle"
    /\ pc' = [pc EXCEPT ![r] = IF cred \in Keys THEN "lookup" ELSE "parse"]
    /\ req' = [req EXCEPT ![r] = [cred |-> cred, do |-> o]]
    /\ over' = [over EXCEPT ![r] = ended]
    /\ UNCHANGED <<now, db, deny, read, open, ended, revokers>>

\* GetByPrefix; the hashes are compared with the rows it returned.
Lookup(r) ==
    LET k == req[r].cred IN
    /\ pc[r] = "lookup"
    /\ IF Usable(key[k])
         THEN /\ pc' = [pc EXCEPT ![r] = "verify"]
              /\ read' = [read EXCEPT ![r] = key[k]]
              /\ UNCHANGED <<req, open>>
         ELSE Finish(r)
    /\ UNCHANGED <<now, db, deny, history>>

\* keyutil.Verify, some 250 ms later; last_used_at is updated by a goroutine.
Verify(r) ==
    /\ pc[r] = "verify"
    /\ touch' = touch \cup {<<req[r].cred, read[r]>>}
    /\ Goto(r, "accepted")
    /\ UNCHANGED <<now, key, deny, history>>

\* parseJWT with its skew.
Parse(r) ==
    /\ pc[r] = "parse"
    /\ IF now < TokenExp[req[r].cred] + Skew THEN Goto(r, "deny") ELSE Finish(r)
    /\ UNCHANGED <<now, db, deny, history>>

IsRevoked(t) == now < deny[t]

DenyCheck(r) ==
    /\ pc[r] = "deny"
    /\ IF IsRevoked(req[r].cred) THEN Finish(r) ELSE Goto(r, "accepted")
    /\ UNCHANGED <<now, db, deny, history>>

\* Redis does not answer: the request passes.
DenyError(r) ==
    /\ pc[r] = "deny"
    /\ pc' = [pc EXCEPT ![r] = "accepted"]
    /\ open' = [open EXCEPT ![r] = TRUE]
    /\ UNCHANGED <<now, db, deny, req, read, history>>

\* Any other statement or command fails, without effect (500).
Fail(r) ==
    /\ pc[r] \in {"lookup", "accepted", "recheck"}
    /\ Finish(r)
    /\ UNCHANGED <<now, db, deny, history>>

\* Mutant: the goroutine writes back the row it was started with.
TouchedAsRead(k, row) == [row EXCEPT !.used = TRUE]

\* UpdateLastUsed
Touched(k, row) == [key[k] EXCEPT !.used = TRUE]

UpdateLastUsed(k, row) ==
    /\ <<k, row>> \in touch
    /\ touch' = touch \ {<<k, row>>}
    /\ key' = [key EXCEPT ![k] = Touched(k, row)]
    /\ UNCHANGED <<now, deny, pc, req, read, open, history>>

\* It fails, or its five seconds are over.
UpdateLastUsedError(k, row) ==
    /\ <<k, row>> \in touch
    /\ touch' = touch \ {<<k, row>>}
    /\ UNCHANGED <<now, key, deny, pc, req, read, open, history>>

-----------------------------------------------------------------------------
(* Operations of an accepted request                                       *)

Accepted(r, o) == pc[r] = "accepted" /\ req[r].do.op = o

Use(r) ==
    /\ Accepted(r, "use")
    /\ Finish(r)
    /\ UNCHANGED <<now, db, deny, history>>

\* Whether the answer reaches the client makes no difference here.
Create(r) ==
    LET o == req[r].do IN
    /\ Accepted(r, "create") /\ key[o.key].state = "none"
    /\ key' = [key EXCEPT ![o.key] = [state |-> "active", exp |-> o.exp, used |-> FALSE]]
    /\ Finish(r)
    /\ UNCHANGED <<now, touch, deny, history>>

\* Revoke's update, and the answer when it hit the row, unless the connection
\* breaks after the commit.
RevokeKey(r) ==
    LET k == req[r].do.key IN
    /\ Accepted(r, "revoke")
    /\ IF Revocable(key[k])
         THEN /\ key' = [key EXCEPT ![k].state = "revoked"]
              /\ \/ /\ ended' = ended \cup {k}
                    /\ revokers' = [revokers EXCEPT ![k] = @ + 1]
                 \/ UNCHANGED <<ended, revokers>>
              /\ Finish(r)
         ELSE Goto(r, "recheck") /\ UNCHANGED <<key, ended, revokers>>
    /\ UNCHANGED <<now, touch, deny, over>>

\* Its second statement, which only chooses between 404 and 422.
Recheck(r) ==
    /\ pc[r] = "recheck"
    /\ ended' = IF key[req[r].do.key].state = "revoked" THEN ended \cup {req[r].do.key}
                                                        ELSE ended
    /\ Finish(r)
    /\ UNCHANGED <<now, db, deny, over, revokers>>

\* Mutant: the time of expiry is taken for a lifetime.
DenyUntilFromNow(t) == now + TokenExp[t]

\* The entry lives as long as the token.
DenyUntil(t) == TokenExp[t]

\* revokeTokenHandler and DenyList.Revoke: nothing to do once the token has
\* expired.  The SET may take effect and its answer be lost.  A caller with an
\* API key leaves an entry that nobody reads.
Logout(r) ==
    LET t == req[r].cred IN
    /\ Accepted(r, "logout")
    /\ IF t \in Keys
         THEN UNCHANGED <<deny, ended>>
         ELSE /\ deny' = IF TokenExp[t] > now THEN [deny EXCEPT ![t] = DenyUntil(t)] ELSE deny
              /\ ended' \in {ended, ended \cup {t}}
    /\ Finish(r)
    /\ UNCHANGED <<now, db, over, revokers>>

Tick ==
    /\ now < MaxTime
    /\ now' = now + 1
    /\ UNCHANGED <<db, deny, pc, req, read, open, history>>

Init ==
    /\ now = 0
    /\ key = [k \in Keys |-> NoRow] /\ touch = {}
    /\ deny = [t \in Tokens |-> 0]
    /\ pc = [r \in Requests |-> "idle"] /\ req = [r \in Requests |-> Idle]
    /\ read = [r \in Requests |-> NoRow] /\ open = [r \in Requests |-> FALSE]
    /\ over = [r \in Requests |-> {}] /\ ended = {}
    /\ revokers = [k \in Keys |-> 0]

Step(r) ==
    \/ \E cred \in Keys \cup Tokens, o \in Operations : Begin(r, cred, o)
    \/ Lookup(r) \/ Verify(r) \/ Parse(r) \/ DenyCheck(r) \/ DenyError(r) \/ Fail(r)
    \/ Use(r) \/ Create(r) \/ RevokeKey(r) \/ Recheck(r) \/ Logout(r)

Next ==
    \/ \E r \in Requests : Step(r)
    \/ \E k \in Keys, row \in Row : UpdateLastUsed(k, row) \/ UpdateLastUsedError(k, row)
    \/ Tick

Spec == Init /\ [][Next]_vars

-----------------------------------------------------------------------------
(* Properties                                                              *)

\* Kinds of values; no entry of the deny list outlives its token.
TypeOK ==
    /\ now \in 0 .. MaxTime
    /\ key \in [Keys -> Row] /\ touch \subseteq Keys \X Row
    /\ deny \in [Tokens -> Nat] /\ \A t \in Tokens : deny[t] <= TokenExp[t]
    /\ pc \in [Requests -> {"idle", "lookup", "verify", "parse", "deny", "accepted", "recheck"}]
    /\ req \in [Requests -> {Idle} \cup [cred: Keys \cup Tokens, do: Operations]]
    /\ read \in [Requests -> Row] /\ open \in [Requests -> BOOLEAN]
    /\ over \in [Requests -> SUBSET (Keys \cup Tokens)]
    /\ ended \subseteq Keys \cup Tokens
    /\ revokers \in [Keys -> Nat]

\* Once a client was told that a key is revoked, no request that begins later is
\* accepted with it, in spite of the goroutines that still write to its row
\* (GetByPrefix, Revoke, UpdateLastUsed).
RevokedKeyIsRefused ==
    \A r \in Requests : pc[r] = "accepted" /\ req[r].cred \in Keys => req[r].cred \notin over[r]

\* Of requests that revoke the same key together, one is told that it did
\* (Revoke's update counts its rows).
OneRevoker == \A k \in Keys : revokers[k] <= 1

\* The revocation of a key is done once and for good.
RevocationHolds == RevokedKeyIsRefused /\ OneRevoker

\* Once a client was told that it is logged out, a later request is accepted
\* with its token only if the deny list could not be asked, or in the skew after
\* the token's expiry (DenyList.Revoke, Authenticate).
LoggedOutIsRefused ==
    \A r \in Requests :
        pc[r] = "accepted" /\ req[r].cred \in Tokens /\ req[r].cred \in over[r]
            => open[r] \/ now >= TokenExp[req[r].cred]

\* A credential of either kind is refused once it is revoked.
RevokedIsRefused == RevocationHolds /\ LoggedOutIsRefused

=============================================================================
