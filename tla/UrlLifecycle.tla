---------------------------- MODULE UrlLifecycle ----------------------------
(***************************************************************************)
(* The life of a short link across the API service (shorten, update,       *)
(* delete), the redirector (resolve), PostgreSQL (a primary and a lagging  *)
(* read replica) and Redis (a positive and a negative key per code).       *)
(*                                                                         *)
(* Every request is a process that takes one step per database or Redis    *)
(* call, so requests interleave between calls exactly as they do when      *)
(* several pods serve them.  A redirect answers the client at its last     *)
(* lookup; the cache fill it starts is a goroutine that lands any time     *)
(* later.                                                                  *)
(***************************************************************************)
EXTENDS UrlEntity

CONSTANTS Codes,         \* short codes
          Reserved,      \* codes in reservedPaths
          Writers,       \* concurrent API requests
          Resolvers,     \* concurrent redirects, each with its fill goroutine
          HasReplica,    \* DB_REPLICA_DSN names a separate replica
          Faults,        \* which of "redis", "db", "crash" happen
          MaxRetries,    \* attempts at a free generated code (3 in the code)
          MaxCommands,   \* bound: API commands started in a behaviour
          MaxNow,        \* bound: the clock
          Times,         \* expiry instants clients ask for
          Keep, Null,    \* a PATCH field that is absent / JSON null
          NoCode         \* no short code yet

ASSUME LifecycleConstants ==
    /\ Reserved \subseteq Codes
    /\ HasReplica \in BOOLEAN
    /\ MaxRetries \in Nat \ {0}
    /\ MaxCommands \in Nat
    /\ MaxNow \in Nat
    /\ Times \subseteq Nat
    /\ Keep \notin Targets \cup Expiry
    /\ Null \notin Targets \cup Expiry \cup {Keep}
    /\ NoCode \notin Codes

VARIABLES
    now,        \* wall clock
    primary,    \* urls on the primary, by code
    replica,    \* urls as the replica shows them
    pos,        \* url:v1:{code}
    neg,        \* url:v1:notfound:{code}
    wpc,        \* where each API request stands
    wcmd,       \* its command
    wcode,      \* its short code, once it has one
    wrow,       \* the entity it holds in memory
    wtry,       \* attempt of the collision loop
    issued,     \* commands started so far
    rpc,        \* where each redirect stands
    rcode,      \* its short code
    rrow,       \* the entity it found
    rans,       \* what it answered
    \* History, read by the properties only:
    rsaw,       \* what the code was when the redirect started
    goneAck,    \* codes whose DELETE has answered 204
    hist,       \* every row the primary has held, by code
    missed,     \* codes with a committed write whose cache delete was lost
    late,       \* codes whose positive key was last set from an old row
    lateNeg     \* codes whose negative key was last set for an old row

db     == <<primary, replica, hist>>
redis  == <<pos, neg, late, lateNeg, missed>>
api    == <<wpc, wcmd, wcode, wrow, wtry, issued, goneAck>>
redir  == <<rpc, rcode, rrow, rans, rsaw>>
vars   == <<now, db, redis, api, redir>>

-----------------------------------------------------------------------------
(* Commands                                                                *)

\* CustomCode is NoCode when the client leaves the choice to the generator.
ShortenCmd == [op: {"shorten"}, code: Codes \cup {NoCode}, ws: Workspaces,
               target: Targets, expires: Expiry]
UpdateCmd  == [op: {"update"}, code: Codes, ws: Workspaces,
               target: Targets \cup {Keep}, expires: Nat \cup {Keep, Null}]
DeleteCmd  == [op: {"delete"}, code: Codes, ws: Workspaces]
NoCmd      == [op |-> "none"]

\* shorten.validateCustomCode rejects a reserved path; generated codes are
\* not passed through it.
ValidateCustomCode(cmd) == cmd.code \notin Reserved

\* UpdateHandler's read-modify-write on the snapshot it fetched.  A JSON null
\* reaches it as "no change": hasExpiresAtField always answers false.
ApplyPatch(u, cmd) ==
    [u EXCEPT !.target  = IF cmd.target = Keep THEN @ ELSE cmd.target,
              !.expires = IF cmd.expires \in {Keep, Null} THEN @
                                                          ELSE cmd.expires]

-----------------------------------------------------------------------------
(* PostgreSQL                                                              *)

\* Client.Replica() is the primary pool when no separate replica is set up.
ReadPool(c) == IF HasReplica THEN replica[c] ELSE primary[c]

\* GetByShortCode: a missing or soft-deleted row is an error for the caller.
Found(u) == u # NoRow /\ ~u.deleted

\* WHERE id = .. AND workspace_id = .. AND deleted_at IS NULL, on the primary
Matches(c, w) ==
    /\ primary[c] # NoRow
    /\ primary[c].ws = w
    /\ ~primary[c].deleted

\* A statement on the primary commits row u for code c.
Commit(c, u) ==
    /\ primary' = [primary EXCEPT ![c] = u]
    /\ hist' = [hist EXCEPT ![c] = @ \cup {u}]
    /\ UNCHANGED replica

\* UPDATE urls SET original_url, title, status, expires_at from the snapshot
UpdatedRow(c, u) ==
    [ws |-> primary[c].ws, target |-> u.target, expires |-> u.expires,
     status |-> u.status, deleted |-> primary[c].deleted,
     ver |-> primary[c].ver + 1]

\* Mutant: the statement sets the status and forgets deleted_at.
DeletedByStatus(c) ==
    [ws |-> primary[c].ws, target |-> primary[c].target,
     expires |-> primary[c].expires, status |-> "deleted", deleted |-> FALSE,
     ver |-> primary[c].ver + 1]

\* UPDATE urls SET status = 'deleted', deleted_at = now
DeletedRow(c) ==
    [ws |-> primary[c].ws, target |-> primary[c].target,
     expires |-> primary[c].expires, status |-> "deleted", deleted |-> TRUE,
     ver |-> primary[c].ver + 1]

-----------------------------------------------------------------------------
(* Redis                                                                   *)

\* Does row u lag behind what the primary holds for c?
Lags(c, u) == primary[c] # NoRow /\ u.ver < primary[c].ver

\* URLCache.Set: the positive key only, a negative key stays.
CacheSet(c, u) ==
    /\ pos' = [pos EXCEPT ![c] = u]
    /\ late' = [late EXCEPT ![c] = Lags(c, u)]
    /\ UNCHANGED <<neg, lateNeg, missed>>

\* URLCache.SetNotFound, for a lookup that saw row u (NoRow when none).
CacheSetNotFound(c, u) ==
    /\ neg' = [neg EXCEPT ![c] = TRUE]
    /\ lateNeg' = [lateNeg EXCEPT ![c] = (u # primary[c])]
    /\ UNCHANGED <<pos, late, missed>>

\* Mutant: the DEL names the positive key only.
CacheDeletePositiveOnly(c) ==
    /\ pos' = [pos EXCEPT ![c] = NoRow]
    /\ late' = [late EXCEPT ![c] = FALSE]
    /\ missed' = [missed EXCEPT ![c] = FALSE]
    /\ UNCHANGED <<neg, lateNeg>>

\* URLCache.Delete: one DEL of both keys.
CacheDelete(c) ==
    /\ pos' = [pos EXCEPT ![c] = NoRow]
    /\ neg' = [neg EXCEPT ![c] = FALSE]
    /\ late' = [late EXCEPT ![c] = FALSE]
    /\ lateNeg' = [lateNeg EXCEPT ![c] = FALSE]
    /\ missed' = [missed EXCEPT ![c] = FALSE]

\* The DEL after a committed write of c never reaches Redis.
LoseCacheDelete(c) ==
    /\ missed' = [missed EXCEPT ![c] = TRUE]
    /\ UNCHANGED <<pos, neg, late, lateNeg>>

-----------------------------------------------------------------------------
(* API requests                                                            *)

\* Request w goes on to step pc with nothing else of its own changed.
Goto(w, pc) ==
    /\ wpc' = [wpc EXCEPT ![w] = pc]
    /\ UNCHANGED <<wcmd, wcode, wrow, wtry, issued>>

\* Request w is over: its locals are gone.
Finish(w) ==
    /\ wpc' = [wpc EXCEPT ![w] = "idle"]
    /\ wcmd' = [wcmd EXCEPT ![w] = NoCmd]
    /\ wcode' = [wcode EXCEPT ![w] = NoCode]
    /\ wrow' = [wrow EXCEPT ![w] = NoRow]
    /\ wtry' = [wtry EXCEPT ![w] = 1]
    /\ UNCHANGED issued

Start(w, cmd, pc, u) ==
    /\ wpc[w] = "idle"
    /\ issued < MaxCommands
    /\ issued' = issued + 1
    /\ wpc' = [wpc EXCEPT ![w] = pc]
    /\ wcmd' = [wcmd EXCEPT ![w] = cmd]
    /\ wcode' = [wcode EXCEPT ![w] = cmd.code]
    /\ wrow' = [wrow EXCEPT ![w] = u]
    /\ UNCHANGED <<now, db, redis, redir, wtry, goneAck>>

\* shorten.Handle up to the collision loop: validated, entity built.
ShortenStart(w, cmd) ==
    /\ ValidateCustomCode(cmd)
    /\ Start(w, cmd, "create", NewRow(cmd.ws, cmd.target, cmd.expires))

\* The code the next attempt tries: the custom one, or a fresh random one.
CodeToTry(w, c) == wcmd[w].code \in {NoCode, c}

\* INSERT succeeds: the unique index had no row for c.
ShortenCreate(w, c) ==
    /\ wpc[w] = "create" /\ CodeToTry(w, c)
    /\ primary[c] = NoRow
    /\ Commit(c, wrow[w])
    /\ wcode' = [wcode EXCEPT ![w] = c]
    /\ wpc' = [wpc EXCEPT ![w] = "prewarm"]
    /\ UNCHANGED <<now, redis, redir, wcmd, wrow, wtry, issued, goneAck>>

\* Mutant: one attempt too many.
LastAttemptOffByOne(w) == wcmd[w].code # NoCode \/ wtry[w] > MaxRetries

LastAttempt(w) == wcmd[w].code # NoCode \/ wtry[w] = MaxRetries

\* Mutant: the conflict is not returned, the handler runs on to the pre-warm.
RunOnToPrewarm(w) == wcmd[w].code # NoCode /\ Goto(w, "prewarm")

\* ErrShortCodeConflict: nothing was stored, nothing is cached.
GiveUp(w) == Finish(w)

\* INSERT hits the unique index: final for a custom code, otherwise another
\* attempt until MaxRetries are used up.
ShortenConflict(w, c) ==
    /\ wpc[w] = "create" /\ CodeToTry(w, c)
    /\ primary[c] # NoRow
    /\ IF LastAttempt(w)
         THEN GiveUp(w)
         ELSE /\ wtry' = [wtry EXCEPT ![w] = @ + 1]
              /\ UNCHANGED <<wpc, wcmd, wcode, wrow, issued>>
    /\ UNCHANGED <<now, db, redis, redir, goneAck>>

\* INSERT reports an error.  The row may have been committed all the same
\* (the connection broke after the commit); nothing is cached either way.
ShortenDbError(w, c) ==
    /\ "db" \in Faults
    /\ wpc[w] = "create" /\ CodeToTry(w, c)
    /\ \/ primary[c] = NoRow /\ Commit(c, wrow[w])
       \/ UNCHANGED db
    /\ Finish(w)
    /\ UNCHANGED <<now, redis, redir, goneAck>>

\* cache.Set after the insert; a failure is only logged.
ShortenPrewarm(w) ==
    /\ wpc[w] = "prewarm"
    /\ \/ CacheSet(wcode[w], wrow[w])
       \/ "redis" \in Faults /\ UNCHANGED redis
    /\ Finish(w)
    /\ UNCHANGED <<now, db, redir, goneAck>>

ModifyStart(w, cmd) == Start(w, cmd, "fetch", NoRow)

\* repo.GetByID in the update and the delete handler: a read of the replica,
\* scoped to the workspace.
Fetch(w) ==
    LET u == ReadPool(wcode[w]) IN
    /\ wpc[w] = "fetch"
    /\ \/ /\ Found(u) /\ u.ws = wcmd[w].ws
          /\ IF wcmd[w].op = "update"
               THEN /\ wrow' = [wrow EXCEPT ![w] = ApplyPatch(u, wcmd[w])]
                    /\ wpc' = [wpc EXCEPT ![w] = "update"]
                    /\ UNCHANGED <<wcmd, wcode, wtry, issued>>
               ELSE Goto(w, "softdelete")
       \/ /\ ~(Found(u) /\ u.ws = wcmd[w].ws) \/ "db" \in Faults
          /\ Finish(w)
    /\ UNCHANGED <<now, db, redis, redir, goneAck>>

\* The row an UPDATE statement of request w leaves behind.
WrittenRow(w) ==
    IF wpc[w] = "update" THEN UpdatedRow(wcode[w], wrow[w])
                         ELSE DeletedRow(wcode[w])

\* Mutant: the soft delete leaves the cache to its TTL.
AfterWriteForgetsDelete(w) ==
    IF wpc[w] = "softdelete" THEN Finish(w) ELSE Goto(w, "invalidate")

\* Only after its write has succeeded does a handler delete the cache keys.
AfterWrite(w) == Goto(w, "invalidate")

\* repo.Update / repo.SoftDelete affect the row.
Write(w) ==
    /\ wpc[w] \in {"update", "softdelete"}
    /\ Matches(wcode[w], wcmd[w].ws)
    /\ Commit(wcode[w], WrittenRow(w))
    /\ AfterWrite(w)
    /\ UNCHANGED <<now, redis, redir, goneAck>>

\* No row affected: ErrNotFound, and the cache is left alone.
WriteNotFound(w) ==
    /\ wpc[w] \in {"update", "softdelete"}
    /\ ~Matches(wcode[w], wcmd[w].ws)
    /\ Finish(w)
    /\ UNCHANGED <<now, db, redis, redir, goneAck>>

\* The statement reports an error and the handler returns without deleting
\* the cache entries, although the write may have been committed.
WriteDbError(w) ==
    /\ "db" \in Faults
    /\ wpc[w] \in {"update", "softdelete"}
    /\ \/ /\ Matches(wcode[w], wcmd[w].ws)
          /\ Commit(wcode[w], WrittenRow(w))
          /\ LoseCacheDelete(wcode[w])
       \/ UNCHANGED <<db, redis>>
    /\ Finish(w)
    /\ UNCHANGED <<now, redir, goneAck>>

\* cache.Delete, then the response; a failure of the DEL is only logged.
Invalidate(w) ==
    /\ wpc[w] = "invalidate"
    /\ \/ CacheDelete(wcode[w])
       \/ "redis" \in Faults /\ LoseCacheDelete(wcode[w])
    /\ goneAck' = IF wcmd[w].op = "delete" THEN goneAck \cup {wcode[w]}
                                           ELSE goneAck
    /\ Finish(w)
    /\ UNCHANGED <<now, db, redir>>

\* The API pod dies, or the client goes away and cancels the request context.
ApiCrash(w) ==
    /\ "crash" \in Faults
    /\ wpc[w] # "idle"
    /\ IF wpc[w] = "invalidate" THEN LoseCacheDelete(wcode[w])
                                ELSE UNCHANGED redis
    /\ Finish(w)
    /\ UNCHANGED <<now, db, redir, goneAck>>

-----------------------------------------------------------------------------
(* Redirects                                                               *)

\* Whether the client may know that c is deleted when it asks for it.
Standing(c) == IF c \in goneAck THEN "deleted" ELSE "other"

Resolve(r, c) ==
    /\ rpc[r] = "idle"
    /\ rpc' = [rpc EXCEPT ![r] = "get"]
    /\ rcode' = [rcode EXCEPT ![r] = c]
    /\ rrow' = [rrow EXCEPT ![r] = NoRow]
    /\ rans' = [rans EXCEPT ![r] = "none"]
    /\ rsaw' = [rsaw EXCEPT ![r] = Standing(c)]
    /\ UNCHANGED <<now, db, redis, api>>

\* The redirect answers a after finding row u and goes on to step pc.
Reply(r, u, a, pc) ==
    /\ rrow' = [rrow EXCEPT ![r] = u]
    /\ rans' = [rans EXCEPT ![r] = a]
    /\ rpc' = [rpc EXCEPT ![r] = pc]
    /\ UNCHANGED <<rcode, rsaw>>

Proceed(r, pc) ==
    /\ rpc' = [rpc EXCEPT ![r] = pc]
    /\ UNCHANGED <<rcode, rrow, rans, rsaw>>

\* Mutant: a hit stores the entry again to prolong its TTL.
AnswerAndRefresh(r, u) ==
    IF CanRedirect(u, now) THEN Reply(r, u, "redirect", "fill")
                           ELSE Reply(r, u, NonRedirectableAnswer(u, now), "idle")

\* A hit is answered from the entry, which may have expired meanwhile; no
\* fill follows.
AnswerFromEntry(r, u) ==
    IF CanRedirect(u, now) THEN Reply(r, u, "redirect", "idle")
                           ELSE Reply(r, u, NonRedirectableAnswer(u, now), "idle")

\* Step 1, cache.Get hits.
ResolveHit(r) ==
    /\ rpc[r] = "get"
    /\ pos[rcode[r]] # NoRow
    /\ AnswerFromEntry(r, pos[rcode[r]])
    /\ UNCHANGED <<now, db, redis, api>>

\* cache.Get misses, or fails and is treated as a miss.
ResolveMiss(r) ==
    /\ rpc[r] = "get"
    /\ pos[rcode[r]] = NoRow \/ "redis" \in Faults
    /\ Proceed(r, "negative")
    /\ UNCHANGED <<now, db, redis, api>>

\* cache.Get cannot decode the entry: it deletes the positive key and fails.
ResolveCorrupt(r) ==
    /\ "redis" \in Faults
    /\ rpc[r] = "get"
    /\ pos[rcode[r]] # NoRow
    /\ pos' = [pos EXCEPT ![rcode[r]] = NoRow]
    /\ late' = [late EXCEPT ![rcode[r]] = FALSE]
    /\ Proceed(r, "negative")
    /\ UNCHANGED <<now, db, api, neg, lateNeg, missed>>

\* Step 2, cache.IsNotFound; an error falls through to the database.
ResolveNegative(r) ==
    /\ rpc[r] = "negative"
    /\ \/ neg[rcode[r]] /\ Reply(r, NoRow, "notfound", "idle")
       \/ (~neg[rcode[r]] \/ "redis" \in Faults) /\ Proceed(r, "db")
    /\ UNCHANGED <<now, db, redis, api>>

\* Step 3, repo.GetByShortCode on the replica.  The answer leaves now; the
\* fill it starts is still to come.
ResolveDb(r) ==
    LET u == ReadPool(rcode[r]) IN
    /\ rpc[r] = "db"
    /\ \/ ~Found(u) /\ Reply(r, u, "notfound", "fillneg")
       \/ Found(u) /\ ~CanRedirect(u, now)
            /\ Reply(r, u, NonRedirectableAnswer(u, now), "fillneg")
       \/ Found(u) /\ CanRedirect(u, now) /\ Reply(r, u, "redirect", "fill")
       \/ "db" \in Faults /\ Reply(r, NoRow, "error", "idle")
    /\ UNCHANGED <<now, db, redis, api>>

\* asyncSetCache's goroutine stores the row the redirect read.
AsyncSetCache(r) ==
    /\ rpc[r] = "fill"
    /\ CacheSet(rcode[r], rrow[r])
    /\ Proceed(r, "idle")
    /\ UNCHANGED <<now, db, api>>

\* asyncSetNotFound's goroutine
AsyncSetNotFound(r) ==
    /\ rpc[r] = "fillneg"
    /\ CacheSetNotFound(rcode[r], rrow[r])
    /\ Proceed(r, "idle")
    /\ UNCHANGED <<now, db, api>>

\* The redirector pod dies, or Redis refuses the fill (only logged).
ResolveLost(r) ==
    /\ \/ "crash" \in Faults /\ rpc[r] # "idle"
       \/ "redis" \in Faults /\ rpc[r] \in {"fill", "fillneg"}
    /\ Proceed(r, "idle")
    /\ UNCHANGED <<now, db, redis, api>>

-----------------------------------------------------------------------------
(* Environment                                                             *)

\* The replica replays the primary's latest write of c.
Replicate(c) ==
    /\ HasReplica
    /\ replica[c] # primary[c]
    /\ replica' = [replica EXCEPT ![c] = primary[c]]
    /\ UNCHANGED <<now, primary, hist, redis, api, redir>>

\* A key's TTL runs out (or Redis evicts it).
ExpirePositive(c) ==
    /\ pos[c] # NoRow
    /\ pos' = [pos EXCEPT ![c] = NoRow]
    /\ late' = [late EXCEPT ![c] = FALSE]
    /\ UNCHANGED <<now, db, neg, lateNeg, missed, api, redir>>

ExpireNegative(c) ==
    /\ neg[c]
    /\ neg' = [neg EXCEPT ![c] = FALSE]
    /\ lateNeg' = [lateNeg EXCEPT ![c] = FALSE]
    /\ UNCHANGED <<now, db, pos, late, missed, api, redir>>

Tick ==
    /\ now < MaxNow
    /\ now' = now + 1
    /\ UNCHANGED <<db, redis, api, redir>>

-----------------------------------------------------------------------------
Init ==
    /\ now = 0
    /\ primary = [c \in Codes |-> NoRow]
    /\ replica = [c \in Codes |-> NoRow]
    /\ hist = [c \in Codes |-> {}]
    /\ pos = [c \in Codes |-> NoRow]
    /\ neg = [c \in Codes |-> FALSE]
    /\ missed = [c \in Codes |-> FALSE]
    /\ late = [c \in Codes |-> FALSE]
    /\ lateNeg = [c \in Codes |-> FALSE]
    /\ wpc = [w \in Writers |-> "idle"]
    /\ wcmd = [w \in Writers |-> NoCmd]
    /\ wcode = [w \in Writers |-> NoCode]
    /\ wrow = [w \in Writers |-> NoRow]
    /\ wtry = [w \in Writers |-> 1]
    /\ issued = 0
    /\ goneAck = {}
    /\ rpc = [r \in Resolvers |-> "idle"]
    /\ rcode = [r \in Resolvers |-> NoCode]
    /\ rrow = [r \in Resolvers |-> NoRow]
    /\ rans = [r \in Resolvers |-> "none"]
    /\ rsaw = [r \in Resolvers |-> "other"]

StartRequest(w) ==
    \E s \in Workspaces :
        \/ \E c \in Codes \cup {NoCode}, o \in Targets, e \in Times \cup {Never} :
              ShortenStart(w, [op |-> "shorten", code |-> c, ws |-> s,
                               target |-> o, expires |-> e])
        \/ \E c \in Codes, o \in Targets \cup {Keep}, e \in Times \cup {Keep, Null} :
              ModifyStart(w, [op |-> "update", code |-> c, ws |-> s,
                              target |-> o, expires |-> e])
        \/ \E c \in Codes : ModifyStart(w, [op |-> "delete", code |-> c, ws |-> s])

ApiStep(w) ==
    \/ \E c \in Codes : ShortenCreate(w, c) \/ ShortenConflict(w, c)
                          \/ ShortenDbError(w, c)
    \/ ShortenPrewarm(w)
    \/ Fetch(w)
    \/ Write(w) \/ WriteNotFound(w) \/ WriteDbError(w)
    \/ Invalidate(w)
    \/ ApiCrash(w)

ResolveStep(r) ==
    \/ ResolveHit(r) \/ ResolveMiss(r) \/ ResolveCorrupt(r)
    \/ ResolveNegative(r) \/ ResolveDb(r)
    \/ AsyncSetCache(r) \/ AsyncSetNotFound(r)
    \/ ResolveLost(r)

Next ==
    \/ \E w \in Writers : StartRequest(w) \/ ApiStep(w)
    \/ \E r \in Resolvers : (\E c \in Codes : Resolve(r, c)) \/ ResolveStep(r)
    \/ \E c \in Codes : Replicate(c) \/ ExpirePositive(c) \/ ExpireNegative(c)
    \/ Tick

Spec == Init /\ [][Next]_vars

-----------------------------------------------------------------------------
(* Fairness: requests run to completion (every handler has a deadline and   *)
(* every goroutine is scheduled), the replica catches up, TTLs run out.     *)
(* Nothing makes a client send a request, so starting one is not fair.      *)

Fairness ==
    /\ \A w \in Writers : WF_vars(ApiStep(w))
    /\ \A r \in Resolvers : WF_vars(ResolveStep(r))
    /\ \A c \in Codes : WF_vars(Replicate(c)) /\ WF_vars(ExpirePositive(c))
                          /\ WF_vars(ExpireNegative(c))

FairSpec == Spec /\ Fairness

-----------------------------------------------------------------------------
(* Properties                                                              *)

RowOrNone == Row \cup {NoRow}

StoreType ==
    /\ now \in Nat
    /\ primary \in [Codes -> RowOrNone]
    /\ replica \in [Codes -> RowOrNone]
    /\ hist \in [Codes -> SUBSET Row]
    /\ pos \in [Codes -> RowOrNone]
    /\ neg \in [Codes -> BOOLEAN]
    /\ missed \in [Codes -> BOOLEAN]
    /\ late \in [Codes -> BOOLEAN]
    /\ lateNeg \in [Codes -> BOOLEAN]

ApiType ==
    /\ wpc \in [Writers -> {"idle", "create", "prewarm", "fetch", "update",
                            "softdelete", "invalidate"}]
    /\ wcmd \in [Writers -> ShortenCmd \cup UpdateCmd \cup DeleteCmd \cup {NoCmd}]
    /\ wcode \in [Writers -> Codes \cup {NoCode}]
    /\ wrow \in [Writers -> RowOrNone]
    /\ wtry \in [Writers -> 1 .. MaxRetries]
    /\ issued \in 0 .. MaxCommands
    /\ goneAck \in SUBSET Codes
    /\ \A w \in Writers :
        /\ wpc[w] \in {"create", "prewarm"} => wcmd[w] \in ShortenCmd
        /\ wpc[w] = "fetch" => wcmd[w] \in UpdateCmd \cup DeleteCmd
        /\ wpc[w] = "update" => wcmd[w] \in UpdateCmd
        /\ wpc[w] = "softdelete" => wcmd[w] \in DeleteCmd
        /\ wpc[w] = "invalidate" => wcmd[w] \in UpdateCmd \cup DeleteCmd
        /\ wpc[w] \notin {"idle", "create"} => wcode[w] \in Codes
        /\ wpc[w] \in {"create", "prewarm", "update"} => wrow[w] \in Row

RedirectType ==
    /\ rpc \in [Resolvers -> {"idle", "get", "negative", "db", "fill", "fillneg"}]
    /\ rcode \in [Resolvers -> Codes \cup {NoCode}]
    /\ rrow \in [Resolvers -> RowOrNone]
    /\ rans \in [Resolvers -> Answers]
    /\ rsaw \in [Resolvers -> {"deleted", "other"}]
    /\ \A r \in Resolvers :
        /\ rpc[r] # "idle" => rcode[r] \in Codes
        /\ rpc[r] = "fill" => rrow[r] \in Row

\* Every variable holds a value of its kind, and the locals of a request fit
\* the step it is at (entity.go, the handlers' local variables).
TypeOK == StoreType /\ ApiType /\ RedirectType

\* Some request has committed a write of c and not yet deleted the keys.
InvalidationPending(c) ==
    \E w \in Writers : wpc[w] = "invalidate" /\ wcode[w] = c

\* A redirect only ever sends the client to a target that the primary really
\* held for that very code at some moment, whatever cache entries, replica
\* reads, retried inserts and fills were involved (resolve.Handle).
ServedWasStored ==
    \A r \in Resolvers :
        rans[r] = "redirect" => rrow[r] \in hist[rcode[r]] /\ ~rrow[r].deleted

\* A positive key older than the row it caches is always explained: the
\* writer is about to delete it, its delete was lost to a fault, or the key
\* was set after that delete from a row read before the write.  No handler
\* forgets the delete or does it before its write (update_handler.go,
\* delete_handler.go, shorten/handler.go).
LagIsExplained ==
    \A c \in Codes :
        pos[c] # NoRow /\ Lags(c, pos[c])
            => InvalidationPending(c) \/ missed[c] \/ late[c]

\* A negative key on a link that can redirect is explained too: beside the
\* reasons above, the row is as ShortenURL made it, which leaves in place the key
\* of a lookup that did not see the row; a PATCH has not touched it since.
NegativeIsExplained ==
    \A c \in Codes :
        neg[c] /\ primary[c] # NoRow /\ CanRedirect(primary[c], now)
            => \/ InvalidationPending(c) \/ missed[c] \/ lateNeg[c]
               \/ primary[c].ver = 1

Coherent(c) ==
    /\ pos[c] \in {NoRow, primary[c]}
    /\ neg[c] => primary[c] = NoRow \/ ~CanRedirect(primary[c], now)

\* Once clients stop writing, Redis agrees with the primary for good: no
\* late fill, lost delete or lagging replica keeps the old target alive
\* beyond the TTLs (url_cache.go: "the stale entry will expire naturally").
EventuallyCoherent == <>[](\A c \in Codes : Coherent(c))

\* The directory this system presents to its clients: rows on the primary,
\* and the answers redirects have given.
Directory == INSTANCE UrlDirectory WITH
    dir  <- primary,
    ever <- hist,
    out  <- [r \in Resolvers |->
                [code |-> rcode[r], ans |-> rans[r], row |-> rrow[r]]]

\* The service implements the directory: a code is never given out twice, a
\* link never changes owner, a deleted link stays as it is whatever update
\* was under way, and redirects answer from states the link has been in
\* (url_repository.go's WHERE clauses against the handlers' stale reads).
ImplementsDirectory == Directory!DSpec

-----------------------------------------------------------------------------
(* What a comment in the code says, and the code does not keep             *)

\* delete_handler.go: "After soft-delete, the redirect service must not serve
\* the old target."  A redirect that starts after DELETE answered 204 is not
\* sent anywhere.
DeletedNotServed ==
    \A r \in Resolvers : rsaw[r] = "deleted" => rans[r] # "redirect"

=============================================================================
