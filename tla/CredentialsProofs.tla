-------------------------- MODULE CredentialsProofs -------------------------
(***************************************************************************)
(* Credentials, for any number of keys, tokens and requests: once its      *)
(* revocation was answered, a credential is refused.                       *)
(*                                                                         *)
(* Not inductive as it stands.  For a key it rests on the row being        *)
(* revoked for good once a client was told so, whatever goroutines write   *)
(* to it later; for a token on its entry of the deny list, which lasts as  *)
(* long as the token does (RevocationKept); and for the request on what it *)
(* found between its start and now (RequestSound).                         *)
(***************************************************************************)
EXTENDS Credentials, TLAPS

USE CredentialConstants

Request == [cred: Keys \cup Tokens, do: Operations]

\* What was answered to be revoked is revoked.
RevocationKept ==
    /\ \A k \in Keys : /\ k \in ended => key[k].state = "revoked"
                       /\ revokers[k] = 0 \/ (revokers[k] = 1 /\ key[k].state = "revoked")
    /\ \A t \in Tokens : t \in ended => deny[t] = TokenExp[t] \/ now >= TokenExp[t]

\* What request r has come to know of its credential.
RequestSound(r) ==
    /\ pc[r] # "idle" => req[r] \in Request
    /\ pc[r] \in {"lookup", "verify"} => req[r].cred \in Keys
    /\ pc[r] \in {"parse", "deny"} => req[r].cred \in Tokens
    /\ pc[r] = "recheck" => req[r].do.key \in Keys
    /\ over[r] \subseteq ended
    /\ pc[r] \in {"verify", "accepted"} /\ req[r].cred \in Keys => req[r].cred \notin over[r]
    /\ pc[r] = "accepted" /\ req[r].cred \in Tokens /\ req[r].cred \in over[r]
         => open[r] \/ now >= TokenExp[req[r].cred]

RequestsSound == \A r \in Requests : RequestSound(r)

IInv == TypeOK /\ RevocationKept /\ RequestsSound

-----------------------------------------------------------------------------
(* Rows and requests                                                       *)

LEMMA RowEdits ==
    ASSUME NEW row \in Row
    PROVE  /\ [row EXCEPT !.used = TRUE] \in Row
           /\ [row EXCEPT !.used = TRUE].state = row.state
           /\ [row EXCEPT !.state = "revoked"] \in Row
           /\ [row EXCEPT !.state = "revoked"].state = "revoked"
BY DEF Row

LEMMA RowConstants ==
    /\ NoRow \in Row /\ NoRow.state = "none"
    /\ \A e \in Expiries : /\ [state |-> "active", exp |-> e, used |-> FALSE] \in Row
                           /\ [state |-> "active", exp |-> e, used |-> FALSE].state = "active"
BY DEF Row, NoRow

LEMMA OperationKinds ==
    \A o \in Operations : /\ o.op = "create" => o.key \in Keys /\ o.exp \in Expiries
                          /\ o.op = "revoke" => o.key \in Keys
BY DEF Operations

\* What the steps of a request do to its own locals.
OthersStay(r) ==
    \A q \in Requests : q # r => /\ pc'[q] = pc[q] /\ req'[q] = req[q]
                                 /\ read'[q] = read[q] /\ open'[q] = open[q]

LocalType ==
    /\ pc \in [Requests -> {"idle", "lookup", "verify", "parse", "deny", "accepted", "recheck"}]
    /\ req \in [Requests -> {Idle} \cup Request]
    /\ read \in [Requests -> Row] /\ open \in [Requests -> BOOLEAN]

LEMMA FinishEffect ==
    ASSUME TypeOK, NEW r \in Requests, Finish(r)
    PROVE  LocalType' /\ OthersStay(r) /\ pc'[r] = "idle"
<1>1. pc'[r] = "idle" /\ OthersStay(r)
  BY DEF Finish, TypeOK, OthersStay
<1>2. /\ pc' \in [Requests ->
                {"idle", "lookup", "verify", "parse", "deny", "accepted", "recheck"}]
      /\ req' \in [Requests -> {Idle} \cup Request]
      /\ read' \in [Requests -> Row]
  BY RowConstants DEF Finish, TypeOK, Request
<1>3. open' \in [Requests -> BOOLEAN]
  BY DEF Finish, TypeOK
<1> QED
  BY <1>1, <1>2, <1>3 DEF LocalType

LEMMA GotoEffect ==
    ASSUME TypeOK, NEW r \in Requests, NEW step \in {"deny", "accepted", "recheck"}, Goto(r, step)
    PROVE  /\ LocalType' /\ OthersStay(r) /\ pc'[r] = step
           /\ req' = req /\ open' = open
<1>1. pc'[r] = step /\ OthersStay(r) /\ req' = req /\ open' = open /\ read' = read
  BY DEF Goto, TypeOK, OthersStay
<1>2. pc' \in [Requests ->
                {"idle", "lookup", "verify", "parse", "deny", "accepted", "recheck"}]
  BY DEF Goto, TypeOK
<1> QED
  BY <1>1, <1>2 DEF LocalType, TypeOK, Request

\* The rest of the state.
SharedType ==
    /\ now \in 0 .. MaxTime
    /\ key \in [Keys -> Row] /\ touch \subseteq Keys \X Row
    /\ deny \in [Tokens -> Nat] /\ \A t \in Tokens : deny[t] <= TokenExp[t]
    /\ over \in [Requests -> SUBSET (Keys \cup Tokens)]
    /\ ended \subseteq Keys \cup Tokens
    /\ revokers \in [Keys -> Nat]

LEMMA TypeParts == (TypeOK <=> LocalType /\ SharedType) /\ (TypeOK' <=> LocalType' /\ SharedType')
BY DEF TypeOK, LocalType, SharedType, Request

-----------------------------------------------------------------------------
(* Steps                                                                   *)

\* One row of api_keys is written, the others stay.
LEMMA KeyWritten ==
    ASSUME TypeOK, NEW k \in Keys, NEW row \in Row, key' = [key EXCEPT ![k] = row]
    PROVE  /\ key' \in [Keys -> Row] /\ key'[k] = row
           /\ \A x \in Keys : x # k => key'[x] = key[x]
BY DEF TypeOK

\* A revoked row stays revoked, a token's entry stays, and time goes on.
Kept ==
    /\ \A k \in Keys : key[k].state = "revoked" => key'[k].state = "revoked"
    /\ \A t \in Tokens : deny[t] = TokenExp[t] => deny'[t] = TokenExp[t]
    /\ now' >= now /\ ended \subseteq ended'

\* The steps that leave revocations alone.
LEMMA SameRevocations ==
    ASSUME TypeOK, RevocationKept, UNCHANGED <<now, key, deny, ended, revokers>>
    PROVE  RevocationKept' /\ Kept
<1>1. now \in Nat
  BY DEF TypeOK
<1> QED
  BY <1>1 DEF RevocationKept, Kept

\* A request that another one overtakes.
LEMMA RequestStays ==
    ASSUME TypeOK, TypeOK', Kept, NEW q \in Requests, RequestSound(q), over'[q] = over[q],
           pc'[q] = pc[q], req'[q] = req[q], open'[q] = open[q]
    PROVE  RequestSound(q)'
<1>1. now \in Nat /\ now' \in Nat /\ \A t \in Tokens : TokenExp[t] \in Nat
  BY DEF TypeOK
<1> QED
  BY <1>1 DEF RequestSound, Kept

LEMMA RequestEnds ==
    ASSUME NEW r \in Requests, RequestSound(r), pc'[r] = "idle", over'[r] = over[r], Kept
    PROVE  RequestSound(r)'
BY DEF RequestSound, Kept

\* What a step of request r owes.
Sound(r) ==
    /\ TypeOK' /\ RevocationKept' /\ Kept
    /\ OthersStay(r) /\ \A q \in Requests : q # r => over'[q] = over[q]
    /\ RequestSound(r)'

LEMMA RequestMoves ==
    ASSUME TypeOK, RequestsSound, NEW r \in Requests, Sound(r)
    PROVE  IInv' /\ Kept
BY RequestStays DEF RequestsSound, OthersStay, Sound, IInv

\* The requests that end without effect on anything else.
LEMMA EndSound ==
    ASSUME IInv, NEW r \in Requests, Finish(r), UNCHANGED <<now, db, deny, history>>
    PROVE  Sound(r)
<1>1. LocalType' /\ OthersStay(r) /\ pc'[r] = "idle"
  BY FinishEffect DEF IInv
<1>2. TypeOK'
  BY <1>1, TypeParts DEF IInv, SharedType, db, history
<1>3. RevocationKept' /\ Kept
  BY SameRevocations DEF IInv, db, history
<1>4. RequestSound(r)'
  BY <1>1, <1>3, RequestEnds DEF IInv, RequestsSound, history
<1> QED
  BY <1>1, <1>2, <1>3, <1>4 DEF Sound, history

\* The requests that go on without effect on anything else.
LEMMA GoSound ==
    ASSUME IInv, NEW r \in Requests, NEW step \in {"deny", "accepted", "recheck"},
           Goto(r, step), UNCHANGED <<now, key, deny, history>>, touch' \subseteq Keys \X Row,
           req[r] \in Request,
           step = "deny" => req[r].cred \in Tokens,
           step = "recheck" => req[r].do.key \in Keys,
           step = "accepted" => /\ req[r].cred \in Keys => req[r].cred \notin over[r]
                                /\ req[r].cred \in Tokens /\ req[r].cred \in over[r]
                                     => open[r] \/ now >= TokenExp[req[r].cred]
    PROVE  Sound(r)
<1>1. LocalType' /\ OthersStay(r) /\ pc'[r] = step /\ req' = req /\ open' = open
  BY GotoEffect DEF IInv
<1>2. TypeOK'
  BY <1>1, TypeParts DEF IInv, SharedType, history
<1>3. RevocationKept' /\ Kept
  BY SameRevocations DEF IInv, history
<1>4. RequestSound(r)'
  BY <1>1 DEF IInv, RequestsSound, RequestSound, history
<1> QED
  BY <1>1, <1>2, <1>3, <1>4 DEF Sound, history

LEMMA BeginSound ==
    ASSUME IInv, NEW r \in Requests, NEW cred \in Keys \cup Tokens, NEW o \in Operations,
           Begin(r, cred, o)
    PROVE  Sound(r)
<1>1. pc \in [Requests -> {"idle", "lookup", "verify", "parse", "deny", "accepted", "recheck"}]
      /\ req \in [Requests -> {Idle} \cup Request]
      /\ over \in [Requests -> SUBSET (Keys \cup Tokens)]
      /\ ended \subseteq Keys \cup Tokens
  BY DEF IInv, TypeOK, Request
<1>2. [cred |-> cred, do |-> o] \in Request /\ [cred |-> cred, do |-> o].cred = cred
  BY DEF Request
<1>3. /\ pc'[r] = IF cred \in Keys THEN "lookup" ELSE "parse"
      /\ req'[r] = [cred |-> cred, do |-> o] /\ over'[r] = ended
      /\ OthersStay(r) /\ \A q \in Requests : q # r => over'[q] = over[q]
  BY <1>1 DEF Begin, OthersStay
<1>4. /\ pc' \in [Requests ->
                {"idle", "lookup", "verify", "parse", "deny", "accepted", "recheck"}]
      /\ req' \in [Requests -> {Idle} \cup Request]
      /\ over' \in [Requests -> SUBSET (Keys \cup Tokens)]
  BY <1>1, <1>2 DEF Begin
<1>5. TypeOK'
  BY <1>4, TypeParts DEF IInv, SharedType, LocalType, db, Begin
<1>6. RevocationKept' /\ Kept
  BY SameRevocations DEF IInv, db, Begin
<1>7. RequestSound(r)'
  BY <1>2, <1>3 DEF RequestSound, Begin
<1> QED
  BY <1>3, <1>5, <1>6, <1>7 DEF Sound

LEMMA LookupSound ==
    ASSUME IInv, NEW r \in Requests, Lookup(r)
    PROVE  Sound(r)
<1> DEFINE k == req[r].cred
<1>1. pc[r] = "lookup" /\ UNCHANGED <<now, db, deny, history>>
  BY DEF Lookup
<1>2. k \in Keys /\ req[r] \in Request
  BY <1>1 DEF IInv, RequestsSound, RequestSound
<1>3. CASE Usable(key[k])
  <2>1. /\ pc' = [pc EXCEPT ![r] = "verify"] /\ read' = [read EXCEPT ![r] = key[k]]
        /\ UNCHANGED <<req, open>>
    BY <1>3 DEF Lookup
  <2>2. key[k] \in Row
    BY <1>2 DEF IInv, TypeOK
  <2>3. LocalType' /\ OthersStay(r) /\ pc'[r] = "verify"
    BY <2>1, <2>2 DEF IInv, TypeOK, LocalType, OthersStay, Request
  <2>4. TypeOK'
    BY <1>1, <2>3, TypeParts DEF IInv, SharedType, db, history
  <2>5. RevocationKept' /\ Kept
    BY <1>1, SameRevocations DEF IInv, db, history
  <2>6. k \notin ended /\ over[r] \subseteq ended
    BY <1>2, <1>3 DEF Usable, IInv, RevocationKept, RequestsSound, RequestSound
  <2>7. RequestSound(r)'
    BY <1>1, <1>2, <2>1, <2>3, <2>6 DEF RequestSound, history
  <2> QED
    BY <1>1, <2>3, <2>4, <2>5, <2>7 DEF Sound, history
<1>4. CASE ~Usable(key[k])
  BY <1>1, <1>4, EndSound DEF Lookup
<1> QED
  BY <1>3, <1>4

LEMMA VerifySound ==
    ASSUME IInv, NEW r \in Requests, Verify(r)
    PROVE  Sound(r)
<1>1. pc[r] = "verify" /\ Goto(r, "accepted") /\ UNCHANGED <<now, key, deny, history>>
      /\ touch' = touch \cup {<<req[r].cred, read[r]>>}
  BY DEF Verify
<1>2. req[r] \in Request /\ req[r].cred \in Keys /\ req[r].cred \notin over[r]
  BY <1>1 DEF IInv, RequestsSound, RequestSound
<1>3. touch' \subseteq Keys \X Row
  BY <1>1, <1>2 DEF IInv, TypeOK
<1> QED
  BY <1>1, <1>2, <1>3, GoSound

LEMMA ParseSound ==
    ASSUME IInv, NEW r \in Requests, Parse(r)
    PROVE  Sound(r)
<1>1. pc[r] = "parse" /\ UNCHANGED <<now, db, deny, history>>
  BY DEF Parse
<1>2. req[r] \in Request /\ req[r].cred \in Tokens /\ touch \subseteq Keys \X Row
  BY <1>1 DEF IInv, RequestsSound, RequestSound, TypeOK
<1> QED
  BY <1>1, <1>2, GoSound, EndSound DEF Parse, db

\* An entry that does not refuse the token has expired with it, if the token was
\* revoked when the request began.
LEMMA DenyCheckSound ==
    ASSUME IInv, NEW r \in Requests, DenyCheck(r)
    PROVE  Sound(r)
<1> DEFINE t == req[r].cred
<1>1. pc[r] = "deny" /\ UNCHANGED <<now, db, deny, history>>
  BY DEF DenyCheck
<1>2. req[r] \in Request /\ t \in Tokens /\ touch \subseteq Keys \X Row /\ over[r] \subseteq ended
  BY <1>1 DEF IInv, RequestsSound, RequestSound, TypeOK
<1>3. CASE IsRevoked(t)
  BY <1>1, <1>3, EndSound DEF DenyCheck
<1>4. CASE ~IsRevoked(t)
  <2>1. now \in Nat /\ deny[t] \in Nat /\ TokenExp[t] \in Nat
    BY <1>2 DEF IInv, TypeOK
  <2>2. t \in over[r] => now >= TokenExp[t]
    BY <1>2, <1>4, <2>1 DEF IsRevoked, IInv, RevocationKept
  <2> QED
    BY <1>1, <1>2, <1>4, <2>2, GoSound DEF DenyCheck, db
<1> QED
  BY <1>3, <1>4

LEMMA DenyErrorSound ==
    ASSUME IInv, NEW r \in Requests, DenyError(r)
    PROVE  Sound(r)
<1>1. pc[r] = "deny" /\ UNCHANGED <<now, db, deny, req, read, history>>
      /\ pc' = [pc EXCEPT ![r] = "accepted"] /\ open' = [open EXCEPT ![r] = TRUE]
  BY DEF DenyError
<1>2. req[r] \in Request /\ req[r].cred \in Tokens /\ over[r] \subseteq ended
  BY <1>1 DEF IInv, RequestsSound, RequestSound
<1>3. LocalType' /\ OthersStay(r) /\ pc'[r] = "accepted" /\ open'[r]
  BY <1>1 DEF IInv, TypeOK, LocalType, OthersStay, Request
<1>4. TypeOK'
  BY <1>1, <1>3, TypeParts DEF IInv, SharedType, db, history
<1>5. RevocationKept' /\ Kept
  BY <1>1, SameRevocations DEF IInv, db, history
<1>6. RequestSound(r)'
  BY <1>1, <1>2, <1>3 DEF RequestSound, history
<1> QED
  BY <1>1, <1>3, <1>4, <1>5, <1>6 DEF Sound, history

LEMMA FailSound ==
    ASSUME IInv, NEW r \in Requests, Fail(r)
    PROVE  Sound(r)
BY EndSound DEF Fail

LEMMA UseSound ==
    ASSUME IInv, NEW r \in Requests, Use(r)
    PROVE  Sound(r)
BY EndSound DEF Use

LEMMA CreateSound ==
    ASSUME IInv, NEW r \in Requests, Create(r)
    PROVE  Sound(r)
<1> DEFINE o == req[r].do
           row == [state |-> "active", exp |-> o.exp, used |-> FALSE]
<1>1. /\ pc[r] = "accepted" /\ o.op = "create" /\ key[o.key].state = "none"
      /\ key' = [key EXCEPT ![o.key] = row]
      /\ Finish(r) /\ UNCHANGED <<now, touch, deny, history>>
  BY DEF Create, Accepted
<1>2. o \in Operations
  BY <1>1 DEF IInv, RequestsSound, RequestSound, Request
<1>3. o.key \in Keys /\ o.exp \in Expiries
  BY <1>1, <1>2, OperationKinds
<1>4. row \in Row
  BY <1>3, RowConstants
<1> HIDE DEF row
<1>5. key' \in [Keys -> Row] /\ \A x \in Keys : x # o.key => key'[x] = key[x]
  BY <1>1, <1>3, <1>4, KeyWritten DEF IInv
<1>6. LocalType' /\ OthersStay(r) /\ pc'[r] = "idle"
  BY <1>1, FinishEffect DEF IInv
<1>7. TypeOK'
  BY <1>1, <1>5, <1>6, TypeParts DEF IInv, SharedType, history
<1>8. RevocationKept' /\ Kept
  <2>1. o.key \notin ended /\ revokers[o.key] = 0
    BY <1>1, <1>3 DEF IInv, RevocationKept
  <2>2. now \in Nat
    BY DEF IInv, TypeOK
  <2> QED
    BY <1>1, <1>5, <2>1, <2>2 DEF IInv, RevocationKept, Kept, history
<1>9. RequestSound(r)'
  BY <1>1, <1>6, <1>8, RequestEnds DEF IInv, RequestsSound, history
<1> QED
  BY <1>1, <1>6, <1>7, <1>8, <1>9 DEF Sound, history

\* The one request whose update finds the row active makes it revoked; no later
\* one finds it so.
LEMMA RevokeKeySound ==
    ASSUME IInv, NEW r \in Requests, RevokeKey(r)
    PROVE  Sound(r)
<1> DEFINE k == req[r].do.key
           row == [key[k] EXCEPT !.state = "revoked"]
<1>1. pc[r] = "accepted" /\ req[r].do.op = "revoke" /\ UNCHANGED <<now, touch, deny, over>>
  BY DEF RevokeKey, Accepted
<1>2. req[r] \in Request /\ req[r].do \in Operations
  BY <1>1 DEF IInv, RequestsSound, RequestSound, Request
<1>3. k \in Keys
  BY <1>1, <1>2, OperationKinds
<1>4. CASE ~Revocable(key[k])
  <2>1. Goto(r, "recheck") /\ UNCHANGED <<key, ended, revokers>>
    BY <1>4 DEF RevokeKey
  <2>2. touch \subseteq Keys \X Row
    BY DEF IInv, TypeOK
  <2> QED
    BY <1>1, <1>2, <1>3, <2>1, <2>2, GoSound DEF history
<1>5. CASE Revocable(key[k])
  <2>1. /\ key' = [key EXCEPT ![k].state = "revoked"] /\ Finish(r)
        /\ \/ ended' = ended \cup {k} /\ revokers' = [revokers EXCEPT ![k] = @ + 1]
           \/ UNCHANGED <<ended, revokers>>
    BY <1>5 DEF RevokeKey
  <2>2. key[k] \in Row /\ key' = [key EXCEPT ![k] = row]
    BY <1>3, <2>1 DEF IInv, TypeOK
  <2>3. row \in Row /\ row.state = "revoked"
    BY <2>2, RowEdits
  <2> HIDE DEF row
  <2>4. /\ key' \in [Keys -> Row] /\ key'[k].state = "revoked"
        /\ \A x \in Keys : x # k => key'[x] = key[x]
    BY <1>3, <2>2, <2>3, KeyWritten DEF IInv
  <2>5. revokers[k] = 0
    BY <1>3, <1>5 DEF Revocable, IInv, RevocationKept
  <2>6. revokers \in [Keys -> Nat] /\ ended \subseteq Keys \cup Tokens
    BY DEF IInv, TypeOK
  <2>7. /\ revokers' \in [Keys -> Nat] /\ revokers'[k] \in {0, 1}
        /\ \A x \in Keys : x # k => revokers'[x] = revokers[x]
        /\ ended \subseteq ended' /\ ended' \subseteq ended \cup {k}
    BY <1>3, <2>1, <2>5, <2>6
  <2>8. LocalType' /\ OthersStay(r) /\ pc'[r] = "idle"
    BY <2>1, FinishEffect DEF IInv
  <2>9. ended' \subseteq Keys \cup Tokens
    BY <1>3, <2>6, <2>7
  <2>10. TypeOK'
    BY <1>1, <2>4, <2>7, <2>8, <2>9, TypeParts DEF IInv, SharedType
  <2>11. RevocationKept'
    <3>1. ASSUME NEW x \in Keys
          PROVE  /\ x \in ended' => key'[x].state = "revoked"
                 /\ revokers'[x] = 0 \/ (revokers'[x] = 1 /\ key'[x].state = "revoked")
      BY <2>4, <2>7 DEF IInv, RevocationKept
    <3>2. ASSUME NEW t \in Tokens, t \in ended'
          PROVE  t \in ended
      BY <1>3, <2>7, <3>2
    <3> QED
      BY <1>1, <3>1, <3>2 DEF IInv, RevocationKept
  <2>12. Kept
    <3>1. now \in Nat
      BY DEF IInv, TypeOK
    <3> QED
      BY <1>1, <2>4, <2>7, <3>1 DEF Kept
  <2>13. RequestSound(r)'
    BY <1>1, <2>8, <2>12, RequestEnds DEF IInv, RequestsSound
  <2> QED
    BY <1>1, <2>8, <2>10, <2>11, <2>12, <2>13 DEF Sound
<1> QED
  BY <1>4, <1>5

LEMMA RecheckSound ==
    ASSUME IInv, NEW r \in Requests, Recheck(r)
    PROVE  Sound(r)
<1> DEFINE k == req[r].do.key
<1>1. /\ pc[r] = "recheck" /\ Finish(r) /\ UNCHANGED <<now, db, deny, over, revokers>>
      /\ ended' = IF key[k].state = "revoked" THEN ended \cup {k} ELSE ended
  BY DEF Recheck
<1>2. ended \subseteq ended' /\ ended' \subseteq ended \cup {k}
      /\ (k \in ended' => k \in ended \/ key[k].state = "revoked")
      /\ k \in Keys
  BY <1>1 DEF IInv, RequestsSound, RequestSound
<1>3. LocalType' /\ OthersStay(r) /\ pc'[r] = "idle"
  BY <1>1, FinishEffect DEF IInv
<1>4. TypeOK'
  BY <1>1, <1>2, <1>3, TypeParts DEF IInv, SharedType, db
<1>5. RevocationKept'
  <2>1. ASSUME NEW t \in Tokens, t \in ended'
        PROVE  t \in ended
    BY <1>2, <2>1
  <2> QED
    BY <1>1, <1>2, <2>1 DEF IInv, RevocationKept, db
<1>6. Kept
  <2>1. now \in Nat
    BY DEF IInv, TypeOK
  <2> QED
    BY <1>1, <1>2, <2>1 DEF Kept, db
<1>7. RequestSound(r)'
  BY <1>1, <1>3, <1>6, RequestEnds DEF IInv, RequestsSound
<1> QED
  BY <1>1, <1>3, <1>4, <1>5, <1>6, <1>7 DEF Sound

\* A token's entry is written for as long as the token lasts, or it has expired.
LEMMA LogoutSound ==
    ASSUME IInv, NEW r \in Requests, Logout(r)
    PROVE  Sound(r)
<1> DEFINE t == req[r].cred
<1>1. /\ pc[r] = "accepted" /\ Finish(r) /\ UNCHANGED <<now, db, over, revokers>>
  BY DEF Logout, Accepted
<1>2. t \in Keys \cup Tokens
  BY <1>1 DEF IInv, RequestsSound, RequestSound, Request
<1>3. CASE t \in Keys
  BY <1>1, <1>3, EndSound DEF Logout, history
<1>4. CASE t \in Tokens
  <2>1. /\ deny' = IF TokenExp[t] > now THEN [deny EXCEPT ![t] = TokenExp[t]] ELSE deny
        /\ ended' \in {ended, ended \cup {t}}
    BY <1>4 DEF Logout, DenyUntil
  <2>2. /\ deny \in [Tokens -> Nat] /\ now \in Nat /\ ended \subseteq Keys \cup Tokens
        /\ \A x \in Tokens : TokenExp[x] \in Nat /\ deny[x] <= TokenExp[x]
    BY DEF IInv, TypeOK
  <2>3. /\ deny' \in [Tokens -> Nat]
        /\ \A x \in Tokens : deny'[x] = deny[x] \/ deny'[x] = TokenExp[x]
        /\ deny'[t] = TokenExp[t] \/ now >= TokenExp[t]
    BY <1>4, <2>1, <2>2
  <2>4. \A x \in Tokens : deny'[x] <= TokenExp[x]
    BY <2>2, <2>3
  <2>5. LocalType' /\ OthersStay(r) /\ pc'[r] = "idle"
    BY <1>1, FinishEffect DEF IInv
  <2>6. ended \subseteq ended' /\ ended' \subseteq ended \cup {t}
    BY <2>1
  <2>7. TypeOK'
    BY <1>1, <1>4, <2>2, <2>3, <2>4, <2>5, <2>6, TypeParts DEF IInv, SharedType, db
  <2>8. RevocationKept'
    <3>1. ASSUME NEW k \in Keys, k \in ended'
          PROVE  k \in ended
      BY <1>4, <2>6, <3>1
    <3>2. ASSUME NEW x \in Tokens, x \in ended'
          PROVE  deny'[x] = TokenExp[x] \/ now >= TokenExp[x]
      BY <2>3, <2>6, <3>2 DEF IInv, RevocationKept
    <3> QED
      BY <1>1, <3>1, <3>2 DEF IInv, RevocationKept, db
  <2>9. Kept
    BY <1>1, <2>2, <2>3, <2>6 DEF Kept, db
  <2>10. RequestSound(r)'
    BY <1>1, <2>5, <2>9, RequestEnds DEF IInv, RequestsSound
  <2> QED
    BY <1>1, <2>5, <2>7, <2>8, <2>9, <2>10 DEF Sound
<1> QED
  BY <1>2, <1>3, <1>4

-----------------------------------------------------------------------------
(* Steps of nobody's request                                               *)

\* Every request stands where it stood.
LEMMA AllStay ==
    ASSUME IInv, TypeOK', RevocationKept', Kept, UNCHANGED <<pc, req, open, over>>
    PROVE  IInv' /\ Kept
BY RequestStays DEF IInv, RequestsSound

\* The goroutine adds the time of use to the row as it is, revoked or not.
LEMMA UpdateLastUsedInv ==
    ASSUME IInv, NEW k \in Keys, NEW row \in Row, UpdateLastUsed(k, row)
    PROVE  IInv' /\ Kept
<1> DEFINE new == [key[k] EXCEPT !.used = TRUE]
<1>1. key[k] \in Row /\ now \in Nat
  BY DEF IInv, TypeOK
<1>2. new \in Row /\ new.state = key[k].state
  BY <1>1, RowEdits
<1>3. key' = [key EXCEPT ![k] = new] /\ UNCHANGED <<now, deny, pc, req, read, open, history>>
      /\ touch' \subseteq touch
  BY DEF UpdateLastUsed, Touched
<1> HIDE DEF new
<1>4. /\ key' \in [Keys -> Row]
      /\ \A x \in Keys : key'[x].state = key[x].state
  BY <1>2, <1>3, KeyWritten DEF IInv
<1>5. TypeOK'
  BY <1>3, <1>4, TypeParts DEF IInv, SharedType, LocalType, history
<1>6. RevocationKept' /\ Kept
  BY <1>1, <1>3, <1>4 DEF IInv, RevocationKept, Kept, history
<1> QED
  BY <1>3, <1>5, <1>6, AllStay DEF history

LEMMA UpdateLastUsedErrorInv ==
    ASSUME IInv, NEW k \in Keys, NEW row \in Row, UpdateLastUsedError(k, row)
    PROVE  IInv' /\ Kept
<1>1. UNCHANGED <<now, key, deny, pc, req, read, open, history>> /\ touch' \subseteq touch
  BY DEF UpdateLastUsedError
<1>2. TypeOK'
  BY <1>1, TypeParts DEF IInv, SharedType, LocalType, history
<1>3. RevocationKept' /\ Kept
  BY <1>1, SameRevocations DEF IInv, history
<1> QED
  BY <1>1, <1>2, <1>3, AllStay DEF history

LEMMA TickInv ==
    ASSUME IInv, Tick
    PROVE  IInv' /\ Kept
<1>1. /\ UNCHANGED <<db, deny, pc, req, read, open, history>>
      /\ now' = now + 1 /\ now < MaxTime
  BY DEF Tick
<1>2. now \in 0 .. MaxTime /\ \A t \in Tokens : TokenExp[t] \in Nat
  BY DEF IInv, TypeOK
<1>3. now' \in 0 .. MaxTime /\ now' >= now
  BY <1>1, <1>2
<1>4. TypeOK'
  BY <1>1, <1>3, TypeParts DEF IInv, SharedType, LocalType, db, history
<1>5. RevocationKept' /\ Kept
  BY <1>1, <1>2 DEF IInv, RevocationKept, Kept, db, history
<1> QED
  BY <1>1, <1>4, <1>5, AllStay DEF history

-----------------------------------------------------------------------------
(* The theorems                                                            *)

LEMMA InitInv == Init => IInv
<1> SUFFICES ASSUME Init
             PROVE  IInv
  OBVIOUS
<1>1. LocalType
  BY RowConstants DEF Init, LocalType
<1>2. SharedType
  BY RowConstants DEF Init, SharedType
<1>3. RevocationKept
  BY DEF Init, RevocationKept
<1>4. RequestsSound
  BY DEF Init, RequestsSound, RequestSound
<1> QED
  BY <1>1, <1>2, <1>3, <1>4, TypeParts DEF IInv

LEMMA StepInv ==
    ASSUME IInv, NEW r \in Requests, Step(r)
    PROVE  IInv' /\ Kept
<1>1. Sound(r)
  BY BeginSound, LookupSound, VerifySound, ParseSound, DenyCheckSound, DenyErrorSound, FailSound,
     UseSound, CreateSound, RevokeKeySound, RecheckSound, LogoutSound DEF Step
<1> QED
  BY <1>1, RequestMoves DEF IInv

LEMMA NextInv == IInv /\ [Next]_vars => IInv' /\ Kept
<1> SUFFICES ASSUME IInv, [Next]_vars
             PROVE  IInv' /\ Kept
  OBVIOUS
<1>1. ASSUME NEW r \in Requests, Step(r)
      PROVE  IInv' /\ Kept
  BY <1>1, StepInv
<1>2. ASSUME NEW k \in Keys, NEW row \in Row, UpdateLastUsed(k, row) \/ UpdateLastUsedError(k, row)
      PROVE  IInv' /\ Kept
  BY <1>2, UpdateLastUsedInv, UpdateLastUsedErrorInv
<1>3. CASE Tick
  BY <1>3, TickInv
<1>4. CASE UNCHANGED vars
  <2>1. TypeOK' /\ RevocationKept' /\ Kept
    BY <1>4, SameRevocations DEF vars, db, history, IInv, TypeOK
  <2> QED
    BY <1>4, <2>1, AllStay DEF vars, history
<1> QED
  BY <1>1, <1>2, <1>3, <1>4 DEF Next

\* The invariant that the others follow from.
THEOREM InductiveCorrect == Spec => []IInv
BY InitInv, NextInv, PTL DEF Spec

\* Every variable has its kind of values, and no entry of the deny list outlives
\* its token.
THEOREM TypeCorrect == Spec => []TypeOK
<1>1. IInv => TypeOK
  BY DEF IInv
<1> QED
  BY <1>1, InductiveCorrect, PTL

\* Once a client was told that its key is revoked, or that it is logged out, no
\* later request is accepted with the credential, but for the stated exceptions
\* of tokens; and one request at most is told that it revoked a key
\* (Authenticate, APIKeyRepository.Revoke, DenyList.Revoke).
THEOREM RevokedCorrect == Spec => []RevokedIsRefused
<1>1. IInv => RevokedKeyIsRefused
  BY DEF IInv, RequestsSound, RequestSound, RevokedKeyIsRefused
<1>2. IInv => OneRevoker
  BY DEF IInv, RevocationKept, OneRevoker
<1>3. IInv => LoggedOutIsRefused
  BY DEF IInv, RequestsSound, RequestSound, LoggedOutIsRefused
<1>4. IInv => RevokedIsRefused
  BY <1>1, <1>2, <1>3 DEF RevokedIsRefused, RevocationHolds
<1> QED
  BY <1>4, InductiveCorrect, PTL

\* A revocation is never undone: a revoked row stays revoked whoever writes to it
\* later, a full entry of the deny list is never shortened, and what a client was
\* told stays true (UpdateLastUsed, APIKeyRepository.Revoke, DenyList.Revoke).
THEOREM RevocationIsFinal == Spec => [][Kept]_vars
BY InductiveCorrect, NextInv, PTL DEF Spec

=============================================================================
