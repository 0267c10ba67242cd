------------------------------ MODULE UrlProofs -----------------------------
(***************************************************************************)
(* UrlLifecycle, for every set of codes, tenants, targets and requests,    *)
(* any set of faults, with or without a replica; and UrlListing, for any   *)
(* links, limits and changes.                                              *)
(*                                                                         *)
(* ServedWasStored is not inductive: a redirect is served from the cache,  *)
(* the replica or a fill goroutine's memory, so all of them have to hold   *)
(* rows of the right code.  Stored says so, and adds that deleted rows,    *)
(* and only those, carry the status "deleted".  Explained then says, code  *)
(* by code, that the cache is stale for the reasons UrlLifecycle names     *)
(* only; and the service implements the abstract directory.                *)
(*                                                                         *)
(* A walk is exact because a page is what comes first of what remains      *)
(* (PageIsFirst), so that its last link parts what was listed from what    *)
(* was not.  Naturals have no infinite descent (Smallest): the links of a  *)
(* page and the digits of a limit are counted on that.                     *)
(***************************************************************************)
EXTENDS UrlLifecycle, UrlListing, FiniteSetTheorems, WellFoundedInduction, TLAPS

USE EntityConstants, NoRowIsNoRow, LifecycleConstants
USE DEF db, redis, api, redir

\* The record sets keep the fields the actions read.
LEMMA CommandFields ==
    /\ \A cmd \in ShortenCmd : /\ cmd.code \in Codes \cup {NoCode}
                               /\ cmd.ws \in Workspaces /\ cmd.op = "shorten"
                               /\ cmd.target \in Targets /\ cmd.expires \in Expiry
    /\ \A cmd \in UpdateCmd : /\ cmd.code \in Codes
                              /\ cmd.ws \in Workspaces /\ cmd.op = "update"
                              /\ cmd.target \in Targets \cup {Keep}
                              /\ cmd.expires \in Nat \cup {Keep, Null}
    /\ \A cmd \in DeleteCmd : /\ cmd.code \in Codes
                              /\ cmd.ws \in Workspaces /\ cmd.op = "delete"
BY DEF ShortenCmd, UpdateCmd, DeleteCmd

LEMMA NewRowType ==
    ASSUME NEW w \in Workspaces, NEW o \in Targets, NEW e \in Expiry
    PROVE  NewRow(w, o, e) \in Row
BY DEF NewRow, Row, Status

LEMMA ApplyPatchType ==
    ASSUME NEW u \in Row, NEW cmd \in UpdateCmd
    PROVE  ApplyPatch(u, cmd) \in Row
BY DEF ApplyPatch, Row, UpdateCmd, Expiry

LEMMA UpdatedRowType ==
    ASSUME NEW c \in Codes, primary[c] \in Row, NEW u \in Row
    PROVE  /\ UpdatedRow(c, u) \in Row
           /\ UpdatedRow(c, u).ver = primary[c].ver + 1
           /\ UpdatedRow(c, u).ws = primary[c].ws
           /\ UpdatedRow(c, u).status = u.status
           /\ UpdatedRow(c, u).deleted = primary[c].deleted
BY DEF UpdatedRow, Row

LEMMA DeletedRowType ==
    ASSUME NEW c \in Codes, primary[c] \in Row
    PROVE  /\ DeletedRow(c) \in Row
           /\ DeletedRow(c).ver = primary[c].ver + 1
           /\ DeletedRow(c).ws = primary[c].ws
           /\ DeletedRow(c).status = "deleted"
           /\ DeletedRow(c).deleted = TRUE
BY DEF DeletedRow, Row, Status

LEMMA WrittenRowType ==
    ASSUME TypeOK, NEW w \in Writers, wpc[w] \in {"update", "softdelete"},
           primary[wcode[w]] # NoRow
    PROVE  /\ WrittenRow(w) \in Row
           /\ WrittenRow(w).ver = primary[wcode[w]].ver + 1
           /\ WrittenRow(w).ws = primary[wcode[w]].ws
<1>1. wcode[w] \in Codes /\ primary[wcode[w]] \in Row
  BY DEF TypeOK, StoreType, ApiType, RowOrNone
<1>2. wpc[w] = "update" => wrow[w] \in Row
  BY DEF TypeOK, ApiType
<1> QED
  BY <1>1, <1>2, UpdatedRowType, DeletedRowType DEF WrittenRow

LEMMA InitType == Init => TypeOK
BY DEF Init, TypeOK, StoreType, ApiType, RedirectType, RowOrNone, Answers

LEMMA StartKeepsType ==
    ASSUME TypeOK, NEW w \in Writers, NEW cmd, NEW pc, NEW u, Start(w, cmd, pc, u),
           \/ pc = "create" /\ cmd \in ShortenCmd /\ u \in Row
           \/ pc = "fetch" /\ cmd \in UpdateCmd \cup DeleteCmd /\ u = NoRow
    PROVE  TypeOK'
<1>1. StoreType' /\ RedirectType'
  BY DEF TypeOK, StoreType, RedirectType, Start
<1>2. cmd.code \in Codes \cup {NoCode} /\ (pc = "fetch" => cmd.code \in Codes)
  BY CommandFields
<1>3. ApiType'
  BY <1>2 DEF TypeOK, ApiType, Start, RowOrNone
<1> QED
  BY <1>1, <1>3 DEF TypeOK

LEMMA StartType ==
    ASSUME TypeOK, NEW w \in Writers, StartRequest(w)
    PROVE  TypeOK'
<1>1. PICK s \in Workspaces :
        \/ \E c \in Codes \cup {NoCode}, o \in Targets, e \in Times \cup {Never} :
              ShortenStart(w, [op |-> "shorten", code |-> c, ws |-> s,
                               target |-> o, expires |-> e])
        \/ \E c \in Codes, o \in Targets \cup {Keep}, e \in Times \cup {Keep, Null} :
              ModifyStart(w, [op |-> "update", code |-> c, ws |-> s,
                              target |-> o, expires |-> e])
        \/ \E c \in Codes : ModifyStart(w, [op |-> "delete", code |-> c, ws |-> s])
  BY DEF StartRequest
<1>2. ASSUME NEW c \in Codes \cup {NoCode}, NEW o \in Targets,
             NEW e \in Times \cup {Never},
             ShortenStart(w, [op |-> "shorten", code |-> c, ws |-> s,
                              target |-> o, expires |-> e])
      PROVE  TypeOK'
  <2>1. [op |-> "shorten", code |-> c, ws |-> s, target |-> o, expires |-> e]
          \in ShortenCmd
    BY DEF ShortenCmd, Expiry
  <2>2. e \in Expiry /\ NewRow(s, o, e) \in Row
    BY NewRowType DEF Expiry
  <2> QED
    BY <1>2, <2>1, <2>2, StartKeepsType DEF ShortenStart
<1>3. ASSUME NEW c \in Codes, NEW o \in Targets \cup {Keep},
             NEW e \in Times \cup {Keep, Null},
             ModifyStart(w, [op |-> "update", code |-> c, ws |-> s,
                             target |-> o, expires |-> e])
      PROVE  TypeOK'
  <2>1. [op |-> "update", code |-> c, ws |-> s, target |-> o, expires |-> e]
          \in UpdateCmd
    BY DEF UpdateCmd
  <2> QED
    BY <1>3, <2>1, StartKeepsType DEF ModifyStart
<1>4. ASSUME NEW c \in Codes,
             ModifyStart(w, [op |-> "delete", code |-> c, ws |-> s])
      PROVE  TypeOK'
  <2>1. [op |-> "delete", code |-> c, ws |-> s] \in DeleteCmd
    BY DEF DeleteCmd
  <2> QED
    BY <1>4, <2>1, StartKeepsType DEF ModifyStart
<1> QED
  BY <1>1, <1>2, <1>3, <1>4

\* A finished request has no locals left.
LEMMA FinishType ==
    ASSUME TypeOK, NEW w \in Writers, Finish(w), goneAck' \in SUBSET Codes
    PROVE  ApiType'
BY DEF TypeOK, ApiType, Finish, RowOrNone

LEMMA CommitType ==
    ASSUME TypeOK, NEW c \in Codes, NEW u \in Row, Commit(c, u)
    PROVE  /\ primary' \in [Codes -> RowOrNone]
           /\ replica' \in [Codes -> RowOrNone]
           /\ hist' \in [Codes -> SUBSET Row]
BY DEF TypeOK, StoreType, Commit, RowOrNone

LEMMA CacheType ==
    ASSUME TypeOK, NEW c \in Codes, NEW u \in RowOrNone,
           \/ CacheSet(c, u) \/ CacheSetNotFound(c, u)
           \/ CacheDelete(c) \/ LoseCacheDelete(c)
    PROVE  /\ pos' \in [Codes -> RowOrNone]
           /\ neg' \in [Codes -> BOOLEAN]
           /\ missed' \in [Codes -> BOOLEAN]
           /\ late' \in [Codes -> BOOLEAN]
           /\ lateNeg' \in [Codes -> BOOLEAN]
<1> USE DEF TypeOK, StoreType
<1>1. CASE CacheSet(c, u)
  <2>1. Lags(c, u) \in BOOLEAN
    BY DEF Lags
  <2>2. late' \in [Codes -> BOOLEAN]
    BY <1>1, <2>1 DEF CacheSet
  <2> QED
    BY <1>1, <2>2 DEF CacheSet
<1>2. CASE CacheSetNotFound(c, u)
  <2>1. lateNeg' \in [Codes -> BOOLEAN]
    BY <1>2 DEF CacheSetNotFound
  <2> QED
    BY <1>2, <2>1 DEF CacheSetNotFound
<1>3. CASE CacheDelete(c)
  BY <1>3 DEF CacheDelete, RowOrNone
<1>4. CASE LoseCacheDelete(c)
  BY <1>4 DEF LoseCacheDelete
<1> QED
  BY <1>1, <1>2, <1>3, <1>4

LEMMA ApiStepType ==
    ASSUME TypeOK, NEW w \in Writers, ApiStep(w)
    PROVE  TypeOK'
<1> USE DEF TypeOK
<1>1. ASSUME NEW c \in Codes, ShortenCreate(w, c) PROVE TypeOK'
  <2>1. wrow[w] \in Row
    BY <1>1 DEF ShortenCreate, ApiType
  <2>2. StoreType'
    BY <1>1, <2>1, CommitType DEF ShortenCreate, StoreType
  <2>3. ApiType' /\ RedirectType'
    BY <1>1, <2>1 DEF ShortenCreate, ApiType, RedirectType
  <2> QED BY <2>2, <2>3
<1>2. ASSUME NEW c \in Codes, ShortenConflict(w, c) PROVE TypeOK'
  <2>1. StoreType' /\ RedirectType'
    BY <1>2 DEF ShortenConflict, StoreType, RedirectType
  <2>2. CASE LastAttempt(w)
    BY <1>2, <2>1, <2>2, FinishType DEF ShortenConflict, GiveUp, ApiType
  <2>3. CASE ~LastAttempt(w)
    BY <1>2, <2>1, <2>3 DEF ShortenConflict, LastAttempt, ApiType
  <2> QED BY <2>2, <2>3
<1>3. ASSUME NEW c \in Codes, ShortenDbError(w, c) PROVE TypeOK'
  <2>1. wrow[w] \in Row
    BY <1>3 DEF ShortenDbError, ApiType
  <2>2. StoreType'
    BY <1>3, <2>1, CommitType DEF ShortenDbError, StoreType
  <2>3. ApiType' /\ RedirectType'
    BY <1>3, FinishType DEF ShortenDbError, ApiType, RedirectType
  <2> QED BY <2>2, <2>3
<1>4. CASE ShortenPrewarm(w)
  <2>1. wcode[w] \in Codes /\ wrow[w] \in RowOrNone
    BY <1>4 DEF ShortenPrewarm, ApiType, RowOrNone
  <2>2. StoreType'
    BY <1>4, <2>1, CacheType DEF ShortenPrewarm, StoreType
  <2>3. ApiType' /\ RedirectType'
    BY <1>4, FinishType DEF ShortenPrewarm, ApiType, RedirectType
  <2> QED BY <2>2, <2>3
<1>5. CASE Fetch(w)
  <2> DEFINE u == ReadPool(wcode[w])
  <2>1. StoreType' /\ RedirectType'
    BY <1>5 DEF Fetch, StoreType, RedirectType
  <2>2. wcode[w] \in Codes /\ u \in RowOrNone
    BY <1>5 DEF Fetch, ApiType, StoreType, ReadPool
  <2>3. CASE Finish(w)
    BY <1>5, <2>1, <2>3, FinishType DEF Fetch, ApiType
  <2>4. CASE ~Finish(w)
    <3>1. Found(u) /\ u \in Row
      BY <1>5, <2>2, <2>4 DEF Fetch, Found, RowOrNone
    <3>2. wcmd[w].op = "update" => wcmd[w] \in UpdateCmd
      BY <1>5, CommandFields DEF Fetch, ApiType
    <3>3. wcmd[w].op # "update" => wcmd[w] \in DeleteCmd
      BY <1>5, CommandFields DEF Fetch, ApiType
    <3>4. CASE wcmd[w].op = "update"
      <4>1. ApplyPatch(u, wcmd[w]) \in Row
        BY <3>1, <3>2, <3>4, ApplyPatchType
      <4>2. /\ wrow' = [wrow EXCEPT ![w] = ApplyPatch(u, wcmd[w])]
            /\ wpc' = [wpc EXCEPT ![w] = "update"]
            /\ UNCHANGED <<wcmd, wcode, wtry, issued, goneAck>>
        BY <1>5, <2>4, <3>4 DEF Fetch
      <4>3. ApiType'
        BY <2>2, <3>2, <3>4, <4>1, <4>2 DEF ApiType, RowOrNone
      <4> QED BY <2>1, <4>3
    <3>5. CASE wcmd[w].op # "update"
      <4>1. ApiType'
        BY <1>5, <2>2, <2>4, <3>3, <3>5 DEF Fetch, Goto, ApiType
      <4> QED BY <2>1, <4>1
    <3> QED BY <3>4, <3>5
  <2> QED BY <2>3, <2>4
<1>6. CASE Write(w)
  <2>1. wcode[w] \in Codes /\ WrittenRow(w) \in Row
    BY <1>6, WrittenRowType DEF Write, Matches, ApiType
  <2>2. StoreType'
    BY <1>6, <2>1, CommitType DEF Write, StoreType
  <2>3. ApiType' /\ RedirectType'
    BY <1>6 DEF Write, AfterWrite, Goto, ApiType, RedirectType
  <2> QED BY <2>2, <2>3
<1>7. CASE WriteNotFound(w)
  <2>1. StoreType' /\ RedirectType'
    BY <1>7 DEF WriteNotFound, StoreType, RedirectType
  <2>2. ApiType'
    BY <1>7, FinishType DEF WriteNotFound, ApiType
  <2> QED BY <2>1, <2>2
<1>8. CASE WriteDbError(w)
  <2>1. wcode[w] \in Codes /\ (Matches(wcode[w], wcmd[w].ws) => WrittenRow(w) \in Row)
    BY <1>8, WrittenRowType DEF WriteDbError, Matches, ApiType
  <2>2. NoRow \in RowOrNone
    BY DEF RowOrNone
  <2>3. StoreType'
    BY <1>8, <2>1, <2>2, CommitType, CacheType DEF WriteDbError, StoreType
  <2>4. ApiType' /\ RedirectType'
    BY <1>8, FinishType DEF WriteDbError, ApiType, RedirectType
  <2> QED BY <2>3, <2>4
<1>9. CASE Invalidate(w)
  <2>1. wcode[w] \in Codes /\ NoRow \in RowOrNone
    BY <1>9 DEF Invalidate, ApiType, RowOrNone
  <2>2. StoreType' /\ RedirectType'
    BY <1>9, <2>1, CacheType DEF Invalidate, StoreType, RedirectType
  <2>3. goneAck' \in SUBSET Codes
    BY <1>9, <2>1 DEF Invalidate, ApiType
  <2>4. ApiType'
    BY <1>9, <2>3, FinishType DEF Invalidate
  <2> QED BY <2>2, <2>4
<1>10. CASE ApiCrash(w)
  <2>1. NoRow \in RowOrNone /\ (wpc[w] = "invalidate" => wcode[w] \in Codes)
    BY DEF ApiType, RowOrNone
  <2>2. StoreType' /\ RedirectType'
    BY <1>10, <2>1, CacheType DEF ApiCrash, StoreType, RedirectType
  <2>3. ApiType'
    BY <1>10, FinishType DEF ApiCrash, ApiType
  <2> QED BY <2>2, <2>3
<1> QED
  BY <1>1, <1>2, <1>3, <1>4, <1>5, <1>6, <1>7, <1>8, <1>9, <1>10 DEF ApiStep

LEMMA StandingType ==
    ASSUME NEW c \in Codes
    PROVE  Standing(c) \in {"deleted", "other"}
BY DEF Standing

LEMMA ReadPoolType ==
    ASSUME TypeOK, NEW c \in Codes
    PROVE  ReadPool(c) \in RowOrNone
BY DEF TypeOK, StoreType, ReadPool

LEMMA ReplyType ==
    ASSUME TypeOK, NEW r \in Resolvers, NEW u \in RowOrNone, NEW a \in Answers,
           NEW pc \in {"idle", "fill", "fillneg"}, rpc[r] # "idle",
           pc = "fill" => u \in Row, Reply(r, u, a, pc)
    PROVE  RedirectType'
BY DEF TypeOK, RedirectType, Reply, RowOrNone

LEMMA ProceedType ==
    ASSUME TypeOK, NEW r \in Resolvers, NEW pc \in {"idle", "negative", "db"},
           rpc[r] # "idle", Proceed(r, pc)
    PROVE  RedirectType'
BY DEF TypeOK, RedirectType, Proceed

LEMMA ResolveType ==
    ASSUME TypeOK, NEW r \in Resolvers,
           ResolveStep(r) \/ \E c \in Codes : Resolve(r, c)
    PROVE  TypeOK'
<1> USE DEF TypeOK
<1> rpc[r] # "idle" => rcode[r] \in Codes
  BY DEF RedirectType
<1> NoRow \in RowOrNone
  BY DEF RowOrNone
<1>1. ASSUME NEW c \in Codes, Resolve(r, c) PROVE TypeOK'
  <2>1. StoreType' /\ ApiType'
    BY <1>1 DEF Resolve, StoreType, ApiType
  <2>2. RedirectType'
    BY <1>1, StandingType DEF Resolve, RedirectType, RowOrNone, Answers
  <2> QED BY <2>1, <2>2
<1>2. CASE ResolveHit(r)
  <2>1. StoreType' /\ ApiType'
    BY <1>2 DEF ResolveHit, StoreType, ApiType
  <2>2. pos[rcode[r]] \in RowOrNone
    BY <1>2 DEF ResolveHit, StoreType
  <2>3. RedirectType'
    BY <1>2, <2>2, ReplyType
       DEF ResolveHit, AnswerFromEntry, NonRedirectableAnswer, Answers
  <2> QED BY <2>1, <2>3
<1>3. CASE ResolveMiss(r)
  <2>1. StoreType' /\ ApiType'
    BY <1>3 DEF ResolveMiss, StoreType, ApiType
  <2> QED BY <1>3, <2>1, ProceedType DEF ResolveMiss
<1>4. CASE ResolveCorrupt(r)
  <2>1. StoreType' /\ ApiType'
    BY <1>4 DEF ResolveCorrupt, StoreType, ApiType, RowOrNone
  <2> QED BY <1>4, <2>1, ProceedType DEF ResolveCorrupt
<1>5. CASE ResolveNegative(r)
  <2>1. StoreType' /\ ApiType'
    BY <1>5 DEF ResolveNegative, StoreType, ApiType
  <2>2. RedirectType'
    BY <1>5, ProceedType, ReplyType DEF ResolveNegative, Answers
  <2> QED BY <2>1, <2>2
<1>6. CASE ResolveDb(r)
  <2>1. StoreType' /\ ApiType'
    BY <1>6 DEF ResolveDb, StoreType, ApiType
  <2>2. ReadPool(rcode[r]) \in RowOrNone
    BY <1>6, ReadPoolType DEF ResolveDb
  <2>3. Found(ReadPool(rcode[r])) => ReadPool(rcode[r]) \in Row
    BY <2>2 DEF Found, RowOrNone
  <2>4. RedirectType'
    BY <1>6, <2>2, <2>3, ReplyType DEF ResolveDb, NonRedirectableAnswer, Answers
  <2> QED BY <2>1, <2>4
<1>7. CASE AsyncSetCache(r)
  <2>1. ApiType' /\ RedirectType'
    BY <1>7, ProceedType DEF AsyncSetCache, ApiType
  <2>2. rrow[r] \in RowOrNone
    BY DEF RedirectType
  <2>3. StoreType'
    BY <1>7, <2>2, CacheType DEF AsyncSetCache, StoreType
  <2> QED BY <2>1, <2>3
<1>8. CASE AsyncSetNotFound(r)
  <2>1. ApiType' /\ RedirectType'
    BY <1>8, ProceedType DEF AsyncSetNotFound, ApiType
  <2>2. rrow[r] \in RowOrNone
    BY DEF RedirectType
  <2>3. StoreType'
    BY <1>8, <2>2, CacheType DEF AsyncSetNotFound, StoreType
  <2> QED BY <2>1, <2>3
<1>9. CASE ResolveLost(r)
  <2>1. StoreType' /\ ApiType'
    BY <1>9 DEF ResolveLost, StoreType, ApiType
  <2> QED BY <1>9, <2>1, ProceedType DEF ResolveLost
<1> QED
  BY <1>1, <1>2, <1>3, <1>4, <1>5, <1>6, <1>7, <1>8, <1>9 DEF ResolveStep

LEMMA EnvironmentType ==
    ASSUME TypeOK,
           Tick \/ \E c \in Codes :
                     Replicate(c) \/ ExpirePositive(c) \/ ExpireNegative(c)
    PROVE  TypeOK'
<1>1. ApiType' /\ RedirectType'
  BY DEF TypeOK, ApiType, RedirectType, Tick, Replicate, ExpirePositive, ExpireNegative
<1>2. CASE Tick
  BY <1>1, <1>2 DEF TypeOK, StoreType, Tick
<1>3. ASSUME NEW c \in Codes, Replicate(c) PROVE TypeOK'
  BY <1>1, <1>3 DEF TypeOK, StoreType, Replicate
<1>4. ASSUME NEW c \in Codes, ExpirePositive(c) PROVE TypeOK'
  BY <1>1, <1>4 DEF TypeOK, StoreType, ExpirePositive, RowOrNone
<1>5. ASSUME NEW c \in Codes, ExpireNegative(c) PROVE TypeOK'
  BY <1>1, <1>5 DEF TypeOK, StoreType, ExpireNegative
<1> QED
  BY <1>2, <1>3, <1>4, <1>5

LEMMA NextType == TypeOK /\ [Next]_vars => TypeOK'
<1> SUFFICES ASSUME TypeOK, [Next]_vars PROVE TypeOK'
  OBVIOUS
<1>1. CASE UNCHANGED vars
  BY <1>1 DEF vars, TypeOK, StoreType, ApiType, RedirectType
<1>2. CASE Next
  BY <1>2, StartType, ApiStepType, ResolveType, EnvironmentType DEF Next
<1> QED BY <1>1, <1>2

\* Every variable keeps its type, and a request's locals are what the step it
\* is at needs (for every instance, not only the ones TLC checks).
THEOREM TypeCorrect == Spec => []TypeOK
BY InitType, NextType, PTL DEF Spec

-----------------------------------------------------------------------------
(* What is served was stored                                               *)

\* status and deleted_at agree in every row.
Shaped(u) == u.status = IF u.deleted THEN "deleted" ELSE "active"

StoredRows ==
    \A c \in Codes :
        /\ primary[c] = NoRow => hist[c] = {}
        /\ primary[c] # NoRow => primary[c] \in hist[c]
        /\ replica[c] # NoRow => replica[c] \in hist[c]
        /\ pos[c] # NoRow => pos[c] \in hist[c] /\ ~pos[c].deleted
        /\ \A u \in hist[c] : Shaped(u)

StoredApi ==
    \A w \in Writers :
        /\ wpc[w] = "create" => /\ wrow[w].status = "active"
                                /\ ~wrow[w].deleted /\ wrow[w].ver = 1
        /\ wpc[w] = "prewarm" => wrow[w] \in hist[wcode[w]] /\ ~wrow[w].deleted
        /\ wpc[w] = "update" => wrow[w].status = "active"

StoredAnswers ==
    \A r \in Resolvers :
        /\ rans[r] # "none" => rcode[r] \in Codes
        /\ rpc[r] \in {"get", "negative", "db"} => rans[r] = "none"
        /\ rpc[r] = "fill" => rans[r] = "redirect"
        /\ rans[r] = "redirect" => rrow[r] \in hist[rcode[r]] /\ ~rrow[r].deleted
        /\ rans[r] = "gone" => rrow[r] \in hist[rcode[r]] /\ rrow[r].expires # Never
        /\ rpc[r] = "fillneg" => rrow[r] = NoRow \/ ~CanRedirect(rrow[r], now)

\* Every place a redirect can be answered from holds a row its code has had.
Stored == StoredRows /\ StoredApi /\ StoredAnswers

-----------------------------------------------------------------------------
LEMMA InitStored == Init => Stored
BY DEF Init, Stored, StoredRows, StoredApi, StoredAnswers

\* hist only grows when a statement commits.
LEMMA CommitGrows ==
    ASSUME TypeOK, NEW c \in Codes, NEW u \in Row, Commit(c, u)
    PROVE  /\ \A d \in Codes : hist[d] \subseteq hist'[d]
           /\ u \in hist'[c] /\ primary'[c] = u
BY DEF TypeOK, StoreType, Commit

LEMMA CommitStored ==
    ASSUME TypeOK, StoredRows, NEW c \in Codes, NEW u \in Row, Shaped(u),
           Commit(c, u), pos' = pos
    PROVE  StoredRows'
<1> SUFFICES ASSUME NEW d \in Codes
             PROVE  /\ primary'[d] = NoRow => hist'[d] = {}
                    /\ primary'[d] # NoRow => primary'[d] \in hist'[d]
                    /\ replica'[d] # NoRow => replica'[d] \in hist'[d]
                    /\ pos'[d] # NoRow => pos'[d] \in hist'[d] /\ ~pos'[d].deleted
                    /\ \A v \in hist'[d] : Shaped(v)
  BY DEF StoredRows, Shaped
<1>1. CASE d = c
  <2>1. primary'[d] = u /\ hist'[d] = hist[d] \cup {u} /\ replica'[d] = replica[d]
    BY <1>1 DEF TypeOK, StoreType, Commit
  <2> QED
    BY <2>1 DEF StoredRows
<1>2. CASE d # c
  <2>1. primary'[d] = primary[d] /\ hist'[d] = hist[d] /\ replica'[d] = replica[d]
    BY <1>2 DEF TypeOK, StoreType, Commit
  <2> QED
    BY <2>1 DEF StoredRows
<1> QED BY <1>1, <1>2

\* A change of one positive key to nothing, or to a row the code has had.
LEMMA SetPosStored ==
    ASSUME TypeOK, StoredRows, NEW c \in Codes, NEW v,
           UNCHANGED <<primary, replica, hist>>, pos' = [pos EXCEPT ![c] = v],
           v # NoRow => v \in hist[c] /\ ~v.deleted
    PROVE  StoredRows'
<1> SUFFICES ASSUME NEW d \in Codes
             PROVE  pos'[d] # NoRow => pos'[d] \in hist[d] /\ ~pos'[d].deleted
  BY DEF StoredRows, Shaped
<1>1. pos'[d] = IF d = c THEN v ELSE pos[d]
  BY DEF TypeOK, StoreType
<1> QED
  BY <1>1 DEF StoredRows

LEMMA SameRowsStored ==
    ASSUME StoredRows, UNCHANGED <<primary, replica, hist, pos>>
    PROVE  StoredRows'
BY DEF StoredRows, Shaped

\* The other requests' locals stay good as long as no history is lost.
LEMMA FinishStored ==
    ASSUME TypeOK, StoredApi, NEW w \in Writers, Finish(w),
           \A d \in Codes : hist[d] \subseteq hist'[d]
    PROVE  StoredApi'
<1> SUFFICES ASSUME NEW v \in Writers
             PROVE  /\ wpc'[v] = "create" => /\ wrow'[v].status = "active"
                                             /\ ~wrow'[v].deleted /\ wrow'[v].ver = 1
                    /\ wpc'[v] = "prewarm"
                         => wrow'[v] \in hist'[wcode'[v]] /\ ~wrow'[v].deleted
                    /\ wpc'[v] = "update" => wrow'[v].status = "active"
  BY DEF StoredApi
<1>1. CASE v = w
  BY <1>1 DEF TypeOK, ApiType, Finish
<1>2. CASE v # w
  <2>1. wpc'[v] = wpc[v] /\ wrow'[v] = wrow[v] /\ wcode'[v] = wcode[v]
    BY <1>2 DEF TypeOK, ApiType, Finish
  <2>2. wpc[v] = "prewarm" => wcode[v] \in Codes
    BY DEF TypeOK, ApiType
  <2> QED BY <2>1, <2>2 DEF StoredApi
<1> QED BY <1>1, <1>2

LEMMA SameApiStored ==
    ASSUME StoredApi, UNCHANGED <<hist, wpc, wrow, wcode>>
    PROVE  StoredApi'
BY DEF StoredApi

\* A row that cannot redirect never can again.
LEMMA ExpiredStays ==
    ASSUME NEW u \in Row, NEW t \in Nat, NEW s \in Nat, t <= s,
           ~CanRedirect(u, t)
    PROVE  ~CanRedirect(u, s)
BY DEF CanRedirect, IsExpired, Row, Expiry

LEMMA SameAnswersStored ==
    ASSUME TypeOK, StoredAnswers, UNCHANGED redir,
           \A d \in Codes : hist[d] \subseteq hist'[d],
           now' \in Nat, now <= now'
    PROVE  StoredAnswers'
<1> SUFFICES ASSUME NEW r \in Resolvers
             PROVE  /\ rans[r] # "none" => rcode[r] \in Codes
                    /\ rpc[r] \in {"get", "negative", "db"} => rans[r] = "none"
                    /\ rpc[r] = "fill" => rans[r] = "redirect"
                    /\ rans[r] = "redirect"
                         => rrow[r] \in hist'[rcode[r]] /\ ~rrow[r].deleted
                    /\ rans[r] = "gone"
                         => rrow[r] \in hist'[rcode[r]] /\ rrow[r].expires # Never
                    /\ rpc[r] = "fillneg"
                         => rrow[r] = NoRow \/ ~CanRedirect(rrow[r], now')
  BY DEF StoredAnswers, CanRedirect, IsExpired
<1>1. rpc[r] = "fillneg" => rrow[r] = NoRow \/ ~CanRedirect(rrow[r], now')
  <2>1. now \in Nat /\ rrow[r] \in Row \cup {NoRow}
    BY DEF TypeOK, StoreType, RedirectType, RowOrNone
  <2> QED BY <2>1, ExpiredStays DEF StoredAnswers
<1> QED BY <1>1 DEF StoredAnswers

-----------------------------------------------------------------------------
LEMMA StartKeepsStored ==
    ASSUME TypeOK, Stored, NEW w \in Writers, NEW cmd, NEW pc, NEW u,
           Start(w, cmd, pc, u),
           \/ pc = "fetch"
           \/ pc = "create" /\ u.status = "active" /\ ~u.deleted /\ u.ver = 1
    PROVE  Stored'
<1>1. StoredRows'
  BY SameRowsStored DEF Stored, Start
<1>2. StoredAnswers'
  BY SameAnswersStored DEF Stored, Start, TypeOK, StoreType
<1>3. StoredApi'
  BY DEF Stored, StoredApi, Start, TypeOK, ApiType
<1> QED BY <1>1, <1>2, <1>3 DEF Stored

LEMMA StartStored ==
    ASSUME TypeOK, Stored, NEW w \in Writers, StartRequest(w)
    PROVE  Stored'
<1>1. ASSUME NEW cmd, ModifyStart(w, cmd) PROVE Stored'
  BY <1>1, StartKeepsStored DEF ModifyStart
<1>2. ASSUME NEW cmd, ShortenStart(w, cmd) PROVE Stored'
  <2> DEFINE u == NewRow(cmd.ws, cmd.target, cmd.expires)
  <2>1. u.status = "active" /\ ~u.deleted /\ u.ver = 1
    BY DEF NewRow
  <2>2. Start(w, cmd, "create", u)
    BY <1>2 DEF ShortenStart
  <2> HIDE DEF u
  <2> QED BY <2>1, <2>2, StartKeepsStored
<1> QED
  BY <1>1, <1>2 DEF StartRequest

-----------------------------------------------------------------------------
LEMMA ReadPoolStored ==
    ASSUME Stored, NEW c \in Codes, ReadPool(c) # NoRow
    PROVE  ReadPool(c) \in hist[c] /\ Shaped(ReadPool(c))
BY DEF Stored, StoredRows, ReadPool

\* What a statement writes is well shaped, and an update leaves a live link.
LEMMA WrittenRowStored ==
    ASSUME TypeOK, Stored, NEW w \in Writers,
           wpc[w] \in {"update", "softdelete"}, Matches(wcode[w], wcmd[w].ws)
    PROVE  /\ Shaped(WrittenRow(w))
           /\ wpc[w] = "update" => ~WrittenRow(w).deleted
<1>1. wcode[w] \in Codes /\ primary[wcode[w]] \in Row /\ ~primary[wcode[w]].deleted
  BY DEF TypeOK, StoreType, ApiType, RowOrNone, Matches
<1>2. CASE wpc[w] = "update"
  <2>1. wrow[w] \in Row /\ wrow[w].status = "active"
    BY <1>2 DEF TypeOK, ApiType, Stored, StoredApi
  <2> QED
    BY <1>1, <1>2, <2>1, UpdatedRowType DEF WrittenRow, Shaped
<1>3. CASE wpc[w] = "softdelete"
  BY <1>1, <1>3, DeletedRowType DEF WrittenRow, Shaped
<1> QED BY <1>2, <1>3

LEMMA ApiStepStored ==
    ASSUME TypeOK, Stored, NEW w \in Writers, ApiStep(w)
    PROVE  Stored'
<1> USE DEF Stored
<1> now \in Nat
  BY DEF TypeOK, StoreType
<1> hist \in [Codes -> SUBSET Row]
  BY DEF TypeOK, StoreType
<1>1. ASSUME NEW c \in Codes, ShortenCreate(w, c) PROVE Stored'
  <2>1. wrow[w] \in Row /\ wrow[w].status = "active" /\ ~wrow[w].deleted
    BY <1>1 DEF ShortenCreate, TypeOK, ApiType, StoredApi
  <2>2. Commit(c, wrow[w]) /\ pos' = pos /\ UNCHANGED redir /\ now' = now
    BY <1>1 DEF ShortenCreate
  <2>3. StoredRows'
    BY <2>1, <2>2, CommitStored DEF Shaped
  <2>4. /\ \A d \in Codes : hist[d] \subseteq hist'[d]
        /\ wrow[w] \in hist'[c]
    BY <2>1, <2>2, CommitGrows
  <2>5. StoredAnswers'
    BY <2>2, <2>4, SameAnswersStored
  <2>6. StoredApi'
    <3> SUFFICES ASSUME NEW v \in Writers
                 PROVE  /\ wpc'[v] = "create"
                             => /\ wrow'[v].status = "active"
                                /\ ~wrow'[v].deleted /\ wrow'[v].ver = 1
                        /\ wpc'[v] = "prewarm"
                             => wrow'[v] \in hist'[wcode'[v]] /\ ~wrow'[v].deleted
                        /\ wpc'[v] = "update" => wrow'[v].status = "active"
      BY DEF StoredApi
    <3>1. CASE v = w
      BY <1>1, <2>1, <2>4, <3>1 DEF ShortenCreate, TypeOK, ApiType
    <3>2. CASE v # w
      <4>1. wpc'[v] = wpc[v] /\ wrow'[v] = wrow[v] /\ wcode'[v] = wcode[v]
        BY <1>1, <3>2 DEF ShortenCreate, TypeOK, ApiType
      <4>2. wpc[v] = "prewarm" => wcode[v] \in Codes
        BY DEF TypeOK, ApiType
      <4> QED BY <2>4, <4>1, <4>2 DEF StoredApi
    <3> QED BY <3>1, <3>2
  <2> QED BY <2>3, <2>5, <2>6
<1>2. ASSUME NEW c \in Codes, ShortenConflict(w, c) PROVE Stored'
  <2>1. StoredRows' /\ StoredAnswers'
    BY <1>2, SameRowsStored, SameAnswersStored DEF ShortenConflict
  <2>2. CASE LastAttempt(w)
    BY <1>2, <2>1, <2>2, FinishStored DEF ShortenConflict, GiveUp
  <2>3. CASE ~LastAttempt(w)
    BY <1>2, <2>1, <2>3, SameApiStored DEF ShortenConflict
  <2> QED BY <2>2, <2>3
<1>3. ASSUME NEW c \in Codes, ShortenDbError(w, c) PROVE Stored'
  <2>1. wrow[w] \in Row /\ wrow[w].status = "active" /\ ~wrow[w].deleted
    BY <1>3 DEF ShortenDbError, TypeOK, ApiType, StoredApi
  <2>2. pos' = pos /\ UNCHANGED redir /\ now' = now /\ Finish(w)
    BY <1>3 DEF ShortenDbError
  <2>3. StoredRows' /\ \A d \in Codes : hist[d] \subseteq hist'[d]
    <3>1. CASE Commit(c, wrow[w])
      BY <2>1, <2>2, <3>1, CommitStored, CommitGrows DEF Shaped
    <3>2. CASE UNCHANGED <<primary, replica, hist>>
      BY <2>2, <3>2, SameRowsStored
    <3> QED BY <1>3, <3>1, <3>2 DEF ShortenDbError
  <2>4. StoredAnswers'
    BY <2>2, <2>3, SameAnswersStored
  <2>5. StoredApi'
    BY <2>2, <2>3, FinishStored
  <2> QED BY <2>3, <2>4, <2>5
<1>4. CASE ShortenPrewarm(w)
  <2>1. /\ wcode[w] \in Codes /\ wrow[w] \in hist[wcode[w]] /\ ~wrow[w].deleted
        /\ UNCHANGED <<primary, replica, hist>>
    BY <1>4 DEF ShortenPrewarm, TypeOK, ApiType, StoredApi
  <2>2. StoredRows'
    BY <1>4, <2>1, SameRowsStored, SetPosStored DEF ShortenPrewarm, CacheSet
  <2>3. StoredAnswers'
    BY <1>4, SameAnswersStored DEF ShortenPrewarm
  <2>4. StoredApi'
    BY <1>4, FinishStored DEF ShortenPrewarm
  <2> QED BY <2>2, <2>3, <2>4
<1>5. CASE Fetch(w)
  <2> DEFINE u == ReadPool(wcode[w])
  <2>1. StoredRows' /\ StoredAnswers'
    BY <1>5, SameRowsStored, SameAnswersStored DEF Fetch
  <2>2. wcode[w] \in Codes /\ UNCHANGED hist
    BY <1>5 DEF Fetch, TypeOK, ApiType
  <2>3. CASE Finish(w)
    BY <2>1, <2>2, <2>3, FinishStored
  <2>4. CASE Found(u) /\ wcmd[w].op = "update" /\ ~Finish(w)
    <3>1. /\ wrow' = [wrow EXCEPT ![w] = ApplyPatch(u, wcmd[w])]
          /\ wpc' = [wpc EXCEPT ![w] = "update"]
          /\ wcode' = wcode
      BY <1>5, <2>4 DEF Fetch
    <3>2. u.status = "active" /\ u \in Row
      BY <2>2, <2>4, ReadPoolStored DEF Found, Shaped
    <3>3. ApplyPatch(u, wcmd[w]).status = "active"
      BY <3>2 DEF ApplyPatch, Row
    <3>4. StoredApi'
      BY <2>2, <3>1, <3>3 DEF StoredApi, TypeOK, ApiType
    <3> QED BY <2>1, <3>4
  <2>5. CASE wcmd[w].op # "update" /\ ~Finish(w)
    <3>1. Goto(w, "softdelete")
      BY <1>5, <2>5 DEF Fetch
    <3>2. StoredApi'
      BY <2>2, <3>1 DEF Goto, StoredApi, TypeOK, ApiType
    <3> QED BY <2>1, <3>2
  <2>6. Found(u) \/ Finish(w)
    BY <1>5 DEF Fetch
  <2> QED BY <2>3, <2>4, <2>5, <2>6
<1>6. CASE Write(w)
  <2>1. wcode[w] \in Codes /\ WrittenRow(w) \in Row /\ Shaped(WrittenRow(w))
    BY <1>6, WrittenRowType, WrittenRowStored DEF Write, Matches, TypeOK, ApiType
  <2>2. /\ Commit(wcode[w], WrittenRow(w)) /\ pos' = pos /\ UNCHANGED redir
        /\ now' = now /\ Goto(w, "invalidate")
    BY <1>6 DEF Write, AfterWrite
  <2>3. StoredRows' /\ \A d \in Codes : hist[d] \subseteq hist'[d]
    BY <2>1, <2>2, CommitStored, CommitGrows
  <2>4. StoredAnswers'
    BY <2>2, <2>3, SameAnswersStored
  <2>5. StoredApi'
    <3>1. \A v \in Writers : wpc[v] = "prewarm" => wcode[v] \in Codes
      BY DEF TypeOK, ApiType
    <3> QED
      BY <2>2, <2>3, <3>1 DEF Goto, StoredApi, TypeOK, ApiType
  <2> QED BY <2>3, <2>4, <2>5
<1>7. CASE WriteNotFound(w)
  BY <1>7, SameRowsStored, SameAnswersStored, FinishStored DEF WriteNotFound
<1>8. CASE WriteDbError(w)
  <2>1. UNCHANGED redir /\ now' = now /\ Finish(w)
    BY <1>8 DEF WriteDbError
  <2>2. StoredRows' /\ \A d \in Codes : hist[d] \subseteq hist'[d]
    <3>1. CASE /\ Matches(wcode[w], wcmd[w].ws)
               /\ Commit(wcode[w], WrittenRow(w)) /\ LoseCacheDelete(wcode[w])
      <4>1. wcode[w] \in Codes /\ WrittenRow(w) \in Row /\ Shaped(WrittenRow(w))
        BY <1>8, <3>1, WrittenRowType, WrittenRowStored
           DEF WriteDbError, Matches, TypeOK, ApiType
      <4> QED
        BY <3>1, <4>1, CommitStored, CommitGrows DEF LoseCacheDelete
    <3>2. CASE UNCHANGED <<db, redis>>
      BY <3>2, SameRowsStored
    <3> QED BY <1>8, <3>1, <3>2 DEF WriteDbError
  <2>3. StoredAnswers'
    BY <2>1, <2>2, SameAnswersStored
  <2>4. StoredApi'
    BY <2>1, <2>2, FinishStored
  <2> QED BY <2>2, <2>3, <2>4
<1>9. CASE Invalidate(w)
  <2>1. wcode[w] \in Codes
    BY <1>9 DEF Invalidate, TypeOK, ApiType
  <2>2. StoredRows'
    BY <1>9, <2>1, SameRowsStored, SetPosStored
       DEF Invalidate, CacheDelete, LoseCacheDelete
  <2>3. StoredAnswers' /\ StoredApi'
    BY <1>9, SameAnswersStored, FinishStored DEF Invalidate
  <2> QED BY <2>2, <2>3
<1>10. CASE ApiCrash(w)
  <2>1. StoredRows'
    BY <1>10, SameRowsStored DEF ApiCrash, LoseCacheDelete
  <2>2. StoredAnswers' /\ StoredApi'
    BY <1>10, SameAnswersStored, FinishStored DEF ApiCrash
  <2> QED BY <2>1, <2>2
<1> QED
  BY <1>1, <1>2, <1>3, <1>4, <1>5, <1>6, <1>7, <1>8, <1>9, <1>10 DEF ApiStep

-----------------------------------------------------------------------------
LEMMA ProceedStored ==
    ASSUME TypeOK, StoredAnswers, NEW r \in Resolvers, Proceed(r, "idle"),
           UNCHANGED <<now, hist>>
    PROVE  StoredAnswers'
BY DEF StoredAnswers, Proceed, TypeOK, RedirectType, CanRedirect, IsExpired

LEMMA LookOnStored ==
    ASSUME TypeOK, StoredAnswers, NEW r \in Resolvers,
           NEW pc \in {"negative", "db"}, Proceed(r, pc),
           rpc[r] \in {"get", "negative"}, UNCHANGED <<now, hist>>
    PROVE  StoredAnswers'
BY DEF StoredAnswers, Proceed, TypeOK, RedirectType, CanRedirect, IsExpired

LEMMA ReplyStored ==
    ASSUME TypeOK, StoredAnswers, NEW r \in Resolvers, NEW u,
           NEW a \in Answers, NEW pc \in {"idle", "fill", "fillneg"},
           rpc[r] # "idle", Reply(r, u, a, pc), UNCHANGED <<now, hist>>,
           pc = "fill" => a = "redirect",
           a = "redirect" => u \in hist[rcode[r]] /\ ~u.deleted,
           a = "gone" => u \in hist[rcode[r]] /\ u.expires # Never,
           pc = "fillneg" => u = NoRow \/ ~CanRedirect(u, now)
    PROVE  StoredAnswers'
<1> SUFFICES ASSUME NEW q \in Resolvers
             PROVE  /\ rans'[q] # "none" => rcode'[q] \in Codes
                    /\ rpc'[q] \in {"get", "negative", "db"} => rans'[q] = "none"
                    /\ rpc'[q] = "fill" => rans'[q] = "redirect"
                    /\ rans'[q] = "redirect"
                         => rrow'[q] \in hist[rcode'[q]] /\ ~rrow'[q].deleted
                    /\ rans'[q] = "gone"
                         => rrow'[q] \in hist[rcode'[q]] /\ rrow'[q].expires # Never
                    /\ rpc'[q] = "fillneg"
                         => rrow'[q] = NoRow \/ ~CanRedirect(rrow'[q], now)
  BY DEF StoredAnswers, CanRedirect, IsExpired
<1>1. CASE q = r
  <2>1. rans'[q] = a /\ rrow'[q] = u /\ rpc'[q] = pc /\ rcode'[q] = rcode[r]
    BY <1>1 DEF Reply, TypeOK, RedirectType
  <2>2. rcode[r] \in Codes
    BY DEF TypeOK, RedirectType
  <2> QED BY <2>1, <2>2
<1>2. CASE q # r
  <2>1. /\ rans'[q] = rans[q] /\ rrow'[q] = rrow[q]
        /\ rpc'[q] = rpc[q] /\ rcode'[q] = rcode[q]
    BY <1>2 DEF Reply, TypeOK, RedirectType
  <2> QED BY <2>1 DEF StoredAnswers
<1> QED BY <1>1, <1>2

LEMMA ResolveStored ==
    ASSUME TypeOK, Stored, NEW r \in Resolvers,
           ResolveStep(r) \/ \E c \in Codes : Resolve(r, c)
    PROVE  Stored'
<1> USE DEF Stored
<1> rpc[r] # "idle" => rcode[r] \in Codes
  BY DEF TypeOK, RedirectType
<1>1. ASSUME NEW c \in Codes, Resolve(r, c) PROVE Stored'
  <2>1. StoredRows' /\ StoredApi'
    BY <1>1, SameRowsStored, SameApiStored DEF Resolve
  <2>2. StoredAnswers'
    BY <1>1 DEF Resolve, StoredAnswers, TypeOK, RedirectType, CanRedirect, IsExpired
  <2> QED BY <2>1, <2>2
<1>2. CASE ResolveHit(r)
  <2> DEFINE u == pos[rcode[r]]
  <2>1. StoredRows' /\ StoredApi'
    BY <1>2, SameRowsStored, SameApiStored DEF ResolveHit
  <2>2. u \in hist[rcode[r]] /\ ~u.deleted
    BY <1>2 DEF ResolveHit, StoredRows
  <2>3. CASE CanRedirect(u, now)
    <3>1. Reply(r, u, "redirect", "idle") /\ rpc[r] = "get" /\ UNCHANGED <<now, hist>>
      BY <1>2, <2>3 DEF ResolveHit, AnswerFromEntry
    <3> QED BY <2>1, <2>2, <3>1, ReplyStored DEF Answers
  <2>4. CASE ~CanRedirect(u, now)
    <3>1. /\ Reply(r, u, NonRedirectableAnswer(u, now), "idle")
          /\ rpc[r] = "get" /\ UNCHANGED <<now, hist>>
      BY <1>2, <2>4 DEF ResolveHit, AnswerFromEntry
    <3>2. CASE IsExpired(u, now)
      <4>1. Reply(r, u, "gone", "idle") /\ u.expires # Never
        BY <3>1, <3>2 DEF NonRedirectableAnswer, IsExpired
      <4> QED BY <2>1, <2>2, <3>1, <4>1, ReplyStored DEF Answers
    <3>3. CASE ~IsExpired(u, now)
      <4>1. Reply(r, u, "notfound", "idle")
        BY <3>1, <3>3 DEF NonRedirectableAnswer
      <4> QED BY <2>1, <3>1, <4>1, ReplyStored DEF Answers
    <3> QED BY <3>2, <3>3
  <2> QED BY <2>3, <2>4
<1>3. CASE ResolveMiss(r)
  <2>1. StoredRows' /\ StoredApi'
    BY <1>3, SameRowsStored, SameApiStored DEF ResolveMiss
  <2> QED BY <1>3, <2>1, LookOnStored DEF ResolveMiss
<1>4. CASE ResolveCorrupt(r)
  <2>1. StoredApi' /\ StoredAnswers'
    BY <1>4, SameApiStored, LookOnStored DEF ResolveCorrupt
  <2>2. StoredRows'
    BY <1>4, SetPosStored DEF ResolveCorrupt
  <2> QED BY <2>1, <2>2
<1>5. CASE ResolveNegative(r)
  <2>1. StoredRows' /\ StoredApi'
    BY <1>5, SameRowsStored, SameApiStored DEF ResolveNegative
  <2>2. StoredAnswers'
    BY <1>5, ReplyStored, LookOnStored DEF ResolveNegative, Answers
  <2> QED BY <2>1, <2>2
<1>6. CASE ResolveDb(r)
  <2> DEFINE u == ReadPool(rcode[r])
  <2>1. StoredRows' /\ StoredApi'
    BY <1>6, SameRowsStored, SameApiStored DEF ResolveDb
  <2>2. rpc[r] = "db" /\ UNCHANGED <<now, hist>> /\ rcode[r] \in Codes
    BY <1>6 DEF ResolveDb
  <2>3. u # NoRow => u \in hist[rcode[r]] /\ Shaped(u)
    BY <2>2, ReadPoolStored
  <2>4. CASE ~Found(u) /\ Reply(r, u, "notfound", "fillneg")
    <3>1. u = NoRow \/ ~CanRedirect(u, now)
      BY <2>3, <2>4 DEF Found, Shaped, CanRedirect
    <3> QED BY <2>1, <2>2, <2>4, <3>1, ReplyStored DEF Answers
  <2>5. CASE /\ Found(u) /\ ~CanRedirect(u, now)
             /\ Reply(r, u, NonRedirectableAnswer(u, now), "fillneg")
    <3>1. CASE IsExpired(u, now)
      <4>1. Reply(r, u, "gone", "fillneg") /\ u.expires # Never
        BY <2>5, <3>1 DEF NonRedirectableAnswer, IsExpired
      <4> QED BY <2>1, <2>2, <2>3, <2>5, <4>1, ReplyStored DEF Answers, Found
    <3>2. CASE ~IsExpired(u, now)
      <4>1. Reply(r, u, "notfound", "fillneg")
        BY <2>5, <3>2 DEF NonRedirectableAnswer
      <4> QED BY <2>1, <2>2, <2>5, <4>1, ReplyStored DEF Answers
    <3> QED BY <3>1, <3>2
  <2>6. CASE Found(u) /\ CanRedirect(u, now) /\ Reply(r, u, "redirect", "fill")
    <3>1. u \in hist[rcode[r]] /\ ~u.deleted
      BY <2>3, <2>6 DEF Found
    <3> QED BY <2>1, <2>2, <2>6, <3>1, ReplyStored DEF Answers
  <2>7. CASE Reply(r, NoRow, "error", "idle")
    BY <2>1, <2>2, <2>7, ReplyStored DEF Answers
  <2> QED BY <1>6, <2>4, <2>5, <2>6, <2>7 DEF ResolveDb
<1>7. CASE AsyncSetCache(r)
  <2>1. StoredApi' /\ StoredAnswers'
    BY <1>7, SameApiStored, ProceedStored DEF AsyncSetCache
  <2>2. rrow[r] \in hist[rcode[r]] /\ ~rrow[r].deleted
    BY <1>7 DEF AsyncSetCache, StoredAnswers
  <2>3. StoredRows'
    BY <1>7, <2>2, SetPosStored DEF AsyncSetCache, CacheSet
  <2> QED BY <2>1, <2>3
<1>8. CASE AsyncSetNotFound(r)
  <2>1. StoredApi' /\ StoredAnswers'
    BY <1>8, SameApiStored, ProceedStored DEF AsyncSetNotFound
  <2>2. StoredRows'
    BY <1>8, SameRowsStored DEF AsyncSetNotFound, CacheSetNotFound
  <2> QED BY <2>1, <2>2
<1>9. CASE ResolveLost(r)
  <2>1. StoredRows' /\ StoredApi'
    BY <1>9, SameRowsStored, SameApiStored DEF ResolveLost
  <2> QED BY <1>9, <2>1, ProceedStored DEF ResolveLost
<1> QED
  BY <1>1, <1>2, <1>3, <1>4, <1>5, <1>6, <1>7, <1>8, <1>9 DEF ResolveStep

LEMMA EnvironmentStored ==
    ASSUME TypeOK, Stored,
           Tick \/ \E c \in Codes :
                     Replicate(c) \/ ExpirePositive(c) \/ ExpireNegative(c)
    PROVE  Stored'
<1> USE DEF Stored
<1> now \in Nat
  BY DEF TypeOK, StoreType
<1>1. StoredApi'
  BY SameApiStored DEF Tick, Replicate, ExpirePositive, ExpireNegative
<1>2. StoredAnswers'
  BY SameAnswersStored DEF Tick, Replicate, ExpirePositive, ExpireNegative
<1>3. StoredRows'
  <2>1. ASSUME NEW c \in Codes, Replicate(c) PROVE StoredRows'
    <3> SUFFICES ASSUME NEW d \in Codes
                 PROVE  replica'[d] # NoRow => replica'[d] \in hist[d]
      BY <2>1 DEF Replicate, StoredRows, Shaped
    <3>1. replica'[d] = IF d = c THEN primary[d] ELSE replica[d]
      BY <2>1 DEF Replicate, TypeOK, StoreType
    <3> QED BY <3>1 DEF StoredRows
  <2>2. ASSUME NEW c \in Codes, ExpirePositive(c) PROVE StoredRows'
    BY <2>2, SetPosStored DEF ExpirePositive
  <2>3. ASSUME NEW c \in Codes, ExpireNegative(c) PROVE StoredRows'
    BY <2>3, SameRowsStored DEF ExpireNegative
  <2>4. CASE Tick
    BY <2>4, SameRowsStored DEF Tick
  <2> QED BY <2>1, <2>2, <2>3, <2>4
<1> QED BY <1>1, <1>2, <1>3

LEMMA NextStored == TypeOK /\ Stored /\ [Next]_vars => Stored'
<1> SUFFICES ASSUME TypeOK, Stored, [Next]_vars PROVE Stored'
  OBVIOUS
<1>1. CASE UNCHANGED vars
  <2>1. now \in Nat
    BY DEF TypeOK, StoreType
  <2> QED
    BY <1>1, <2>1, SameRowsStored, SameApiStored, SameAnswersStored DEF vars, Stored
<1>2. CASE Next
  BY <1>2, StartStored, ApiStepStored, ResolveStored, EnvironmentStored DEF Next
<1> QED BY <1>1, <1>2

LEMMA StoredCorrect == Spec => []Stored
BY InitStored, NextStored, TypeCorrect, PTL DEF Spec

LEMMA StoredServes == Stored => ServedWasStored
BY DEF Stored, StoredAnswers, ServedWasStored

\* A redirect only leads to a target its code has had, for any number of
\* codes, tenants, requests and faults (resolve.Handle).
THEOREM ServedCorrect == Spec => []ServedWasStored
BY StoredCorrect, StoredServes, PTL

-----------------------------------------------------------------------------
(* Coherence of the cache, and the directory                               *)

\* LagIsExplained and NegativeIsExplained, for one code.
LagFine(c) ==
    pos[c] # NoRow /\ Lags(c, pos[c]) => InvalidationPending(c) \/ missed[c] \/ late[c]

NegFine(c) ==
    neg[c] /\ primary[c] # NoRow /\ CanRedirect(primary[c], now)
        => InvalidationPending(c) \/ missed[c] \/ lateNeg[c] \/ primary[c].ver = 1

Fine(c) == LagFine(c) /\ NegFine(c)

Explained == \A c \in Codes : Fine(c)

\* Code c is as coherent after the step as before: nothing was written, keys
\* were dropped at most, and no reason for staleness went away.
Undisturbed(c) ==
    /\ primary'[c] = primary[c]
    /\ pos'[c] = NoRow \/ (pos'[c] = pos[c] /\ late'[c] = late[c])
    /\ ~neg'[c] \/ (neg'[c] = neg[c] /\ lateNeg'[c] = lateNeg[c])
    /\ missed[c] => missed'[c]
    /\ InvalidationPending(c) => InvalidationPending(c)'
    /\ now' \in Nat /\ now <= now'

LEMMA UndisturbedFine ==
    ASSUME TypeOK, NEW c \in Codes, Fine(c), Undisturbed(c)
    PROVE  Fine(c)'
<1>1. LagFine(c)'
  BY DEF Fine, LagFine, Undisturbed, Lags
<1>2. NegFine(c)'
  <2> SUFFICES ASSUME neg'[c], primary[c] # NoRow, CanRedirect(primary[c], now')
               PROVE  \/ InvalidationPending(c)' \/ missed'[c] \/ lateNeg'[c]
                      \/ primary[c].ver = 1
    BY DEF NegFine, Undisturbed, CanRedirect, IsExpired
  <2>1. now \in Nat /\ primary[c] \in Row
    BY DEF TypeOK, StoreType, RowOrNone
  <2>2. CanRedirect(primary[c], now)
    BY <2>1, ExpiredStays DEF Undisturbed
  <2> QED BY <2>2 DEF Fine, NegFine, Undisturbed
<1> QED BY <1>1, <1>2 DEF Fine

\* A pending or lost delete explains anything.
LEMMA ExcusedFine ==
    ASSUME NEW c \in Codes, InvalidationPending(c)' \/ missed'[c]
    PROVE  Fine(c)'
BY DEF Fine, LagFine, NegFine

\* A code that has just been created has no positive key yet.
LEMMA CreatedFine ==
    ASSUME TypeOK, Stored, NEW c \in Codes, primary[c] = NoRow,
           primary'[c].ver = 1, pos' = pos
    PROVE  Fine(c)'
<1>1. pos[c] = NoRow
  BY DEF Stored, StoredRows
<1> QED BY <1>1 DEF Fine, LagFine, NegFine

\* A request that is not about to delete keys may go without leaving a debt.
LEMMA FinishKeepsPending ==
    ASSUME TypeOK, NEW w \in Writers, Finish(w), NEW c \in Codes,
           wpc[w] # "invalidate" \/ wcode[w] # c
    PROVE  InvalidationPending(c) => InvalidationPending(c)'
BY DEF InvalidationPending, Finish, TypeOK, ApiType

LEMMA InitExplained == Init => Explained
BY DEF Init, Explained, Fine, LagFine, NegFine

LEMMA StartExplained ==
    ASSUME TypeOK, Explained, NEW w \in Writers, StartRequest(w)
    PROVE  Explained'
<1>1. ASSUME NEW cmd, NEW pc, NEW u, Start(w, cmd, pc, u)
      PROVE  Explained'
  <2> SUFFICES ASSUME NEW c \in Codes PROVE Fine(c)'
    BY DEF Explained
  <2>1. InvalidationPending(c) => InvalidationPending(c)'
    BY <1>1 DEF InvalidationPending, Start, TypeOK, ApiType
  <2>2. Undisturbed(c)
    BY <1>1, <2>1 DEF Undisturbed, Start, TypeOK, StoreType
  <2> QED BY <2>2, UndisturbedFine DEF Explained
<1>2. ASSUME NEW cmd, ModifyStart(w, cmd) PROVE Explained'
  BY <1>1, <1>2 DEF ModifyStart
<1>3. ASSUME NEW cmd, ShortenStart(w, cmd) PROVE Explained'
  BY <1>1, <1>3 DEF ShortenStart
<1> QED BY <1>2, <1>3 DEF StartRequest

LEMMA ApiStepExplained ==
    ASSUME TypeOK, Stored, Explained, NEW w \in Writers, ApiStep(w)
    PROVE  Explained'
<1> SUFFICES ASSUME NEW d \in Codes PROVE Fine(d)'
  BY DEF Explained
<1> USE DEF TypeOK, StoreType
<1> Fine(d)
  BY DEF Explained
<1>1. ASSUME NEW c \in Codes, ShortenCreate(w, c) PROVE Fine(d)'
  <2>1. wrow[w].ver = 1
    BY <1>1 DEF ShortenCreate, Stored, StoredApi
  <2>2. CASE d = c
    BY <1>1, <2>1, <2>2, CreatedFine DEF ShortenCreate, Commit
  <2>3. CASE d # c
    <3>1. InvalidationPending(d) => InvalidationPending(d)'
      BY <1>1, <2>3 DEF ShortenCreate, InvalidationPending, ApiType
    <3>2. Undisturbed(d)
      BY <1>1, <2>3, <3>1 DEF ShortenCreate, Commit, Undisturbed
    <3> QED BY <3>2, UndisturbedFine
  <2> QED BY <2>2, <2>3
<1>2. ASSUME NEW c \in Codes, ShortenConflict(w, c) PROVE Fine(d)'
  <2>1. InvalidationPending(d) => InvalidationPending(d)'
    <3>1. CASE LastAttempt(w)
      BY <1>2, <3>1, FinishKeepsPending DEF ShortenConflict, GiveUp
    <3>2. CASE ~LastAttempt(w)
      BY <1>2, <3>2 DEF ShortenConflict, InvalidationPending
    <3> QED BY <3>1, <3>2
  <2>2. Undisturbed(d)
    BY <1>2, <2>1 DEF ShortenConflict, Undisturbed
  <2> QED BY <2>2, UndisturbedFine
<1>3. ASSUME NEW c \in Codes, ShortenDbError(w, c) PROVE Fine(d)'
  <2>1. wrow[w].ver = 1 /\ wpc[w] = "create" /\ Finish(w)
    BY <1>3 DEF ShortenDbError, Stored, StoredApi
  <2>2. InvalidationPending(d) => InvalidationPending(d)'
    BY <2>1, FinishKeepsPending
  <2>3. CASE UNCHANGED primary \/ d # c
    <3>1. Undisturbed(d)
      BY <1>3, <2>2, <2>3 DEF ShortenDbError, Commit, Undisturbed
    <3> QED BY <3>1, UndisturbedFine
  <2>4. CASE primary' # primary /\ d = c
    BY <1>3, <2>1, <2>4, CreatedFine DEF ShortenDbError, Commit
  <2> QED BY <2>3, <2>4
<1>4. CASE ShortenPrewarm(w)
  <2>1. wcode[w] \in Codes
    BY <1>4 DEF ShortenPrewarm, ApiType
  <2>2. InvalidationPending(d) => InvalidationPending(d)'
    BY <1>4, FinishKeepsPending DEF ShortenPrewarm
  <2>3. CASE CacheSet(wcode[w], wrow[w]) /\ d = wcode[w]
    <3>1. /\ pos'[d] = wrow[w] /\ late'[d] = Lags(d, wrow[w])
          /\ primary' = primary /\ neg' = neg /\ lateNeg' = lateNeg
          /\ missed' = missed /\ now' = now
      BY <1>4, <2>1, <2>3 DEF CacheSet, ShortenPrewarm
    <3>2. LagFine(d)'
      BY <3>1 DEF LagFine, Lags
    <3>3. NegFine(d)'
      BY <2>2, <3>1 DEF Fine, NegFine, CanRedirect, IsExpired
    <3> QED BY <3>2, <3>3 DEF Fine
  <2>4. CASE UNCHANGED redis \/ d # wcode[w]
    <3>1. Undisturbed(d)
      BY <1>4, <2>2, <2>4 DEF ShortenPrewarm, CacheSet, Undisturbed
    <3> QED BY <3>1, UndisturbedFine
  <2> QED BY <1>4, <2>3, <2>4 DEF ShortenPrewarm
<1>5. CASE Fetch(w)
  <2>1. InvalidationPending(d) => InvalidationPending(d)'
    <3>1. CASE Finish(w)
      BY <1>5, <3>1, FinishKeepsPending DEF Fetch
    <3>2. CASE ~Finish(w)
      BY <1>5, <3>2 DEF Fetch, Goto, InvalidationPending, ApiType
    <3> QED BY <3>1, <3>2
  <2>2. Undisturbed(d)
    BY <1>5, <2>1 DEF Fetch, Undisturbed
  <2> QED BY <2>2, UndisturbedFine
<1>6. CASE Write(w)
  <2>1. CASE d = wcode[w]
    <3>1. InvalidationPending(d)'
      BY <1>6, <2>1 DEF Write, AfterWrite, Goto, InvalidationPending, ApiType
    <3> QED BY <3>1, ExcusedFine
  <2>2. CASE d # wcode[w]
    <3>1. InvalidationPending(d) => InvalidationPending(d)'
      BY <1>6, <2>2 DEF Write, AfterWrite, Goto, InvalidationPending, ApiType
    <3>2. Undisturbed(d)
      BY <1>6, <2>2, <3>1 DEF Write, Commit, Undisturbed
    <3> QED BY <3>2, UndisturbedFine
  <2> QED BY <2>1, <2>2
<1>7. CASE WriteNotFound(w)
  <2>1. InvalidationPending(d) => InvalidationPending(d)'
    BY <1>7, FinishKeepsPending DEF WriteNotFound
  <2>2. Undisturbed(d)
    BY <1>7, <2>1 DEF WriteNotFound, Undisturbed
  <2> QED BY <2>2, UndisturbedFine
<1>8. CASE WriteDbError(w)
  <2>1. InvalidationPending(d) => InvalidationPending(d)'
    BY <1>8, FinishKeepsPending DEF WriteDbError
  <2>2. CASE missed'[d]
    BY <2>2, ExcusedFine
  <2>3. CASE ~missed'[d]
    <3>1. Undisturbed(d)
      BY <1>8, <2>1, <2>3 DEF WriteDbError, Commit, LoseCacheDelete, Undisturbed
    <3> QED BY <3>1, UndisturbedFine
  <2> QED BY <2>2, <2>3
<1>9. CASE Invalidate(w)
  <2>1. wcode[w] \in Codes /\ Finish(w) /\ primary' = primary /\ now' = now
    BY <1>9 DEF Invalidate, ApiType
  <2>2. CASE d = wcode[w] /\ CacheDelete(wcode[w])
    <3>1. pos'[d] = NoRow /\ neg'[d] = FALSE
      BY <2>1, <2>2 DEF CacheDelete
    <3> QED BY <3>1 DEF Fine, LagFine, NegFine
  <2>3. CASE d = wcode[w] /\ LoseCacheDelete(wcode[w])
    <3>1. missed'[d]
      BY <2>1, <2>3 DEF LoseCacheDelete
    <3> QED BY <3>1, ExcusedFine
  <2>4. CASE d # wcode[w]
    <3>1. InvalidationPending(d) => InvalidationPending(d)'
      BY <2>1, <2>4, FinishKeepsPending
    <3>2. Undisturbed(d)
      BY <1>9, <2>1, <2>4, <3>1
         DEF Invalidate, CacheDelete, LoseCacheDelete, Undisturbed
    <3> QED BY <3>2, UndisturbedFine
  <2> QED BY <1>9, <2>2, <2>3, <2>4 DEF Invalidate
<1>10. CASE ApiCrash(w)
  <2>1. CASE wpc[w] = "invalidate" /\ d = wcode[w]
    <3>1. missed'[d]
      BY <1>10, <2>1 DEF ApiCrash, LoseCacheDelete
    <3> QED BY <3>1, ExcusedFine
  <2>2. CASE wpc[w] # "invalidate" \/ d # wcode[w]
    <3>1. InvalidationPending(d) => InvalidationPending(d)'
      BY <1>10, <2>2, FinishKeepsPending DEF ApiCrash
    <3>2. Undisturbed(d)
      BY <1>10, <2>2, <3>1 DEF ApiCrash, LoseCacheDelete, Undisturbed
    <3> QED BY <3>2, UndisturbedFine
  <2> QED BY <2>1, <2>2
<1> QED
  BY <1>1, <1>2, <1>3, <1>4, <1>5, <1>6, <1>7, <1>8, <1>9, <1>10 DEF ApiStep

LEMMA ResolveExplained ==
    ASSUME TypeOK, Stored, Explained, NEW r \in Resolvers,
           ResolveStep(r) \/ \E c \in Codes : Resolve(r, c)
    PROVE  Explained'
<1> SUFFICES ASSUME NEW d \in Codes PROVE Fine(d)'
  BY DEF Explained
<1> USE DEF TypeOK, StoreType
<1> Fine(d)
  BY DEF Explained
<1>1. /\ InvalidationPending(d) => InvalidationPending(d)'
      /\ primary' = primary /\ now' = now /\ missed' = missed
  BY DEF ResolveStep, Resolve, ResolveHit, ResolveMiss, ResolveCorrupt,
         ResolveNegative, ResolveDb, AsyncSetCache, AsyncSetNotFound,
         ResolveLost, CacheSet, CacheSetNotFound, InvalidationPending
<1>2. CASE AsyncSetCache(r) /\ d = rcode[r]
  <2>1. /\ pos'[d] = rrow[r] /\ late'[d] = Lags(d, rrow[r])
        /\ neg' = neg /\ lateNeg' = lateNeg
    BY <1>2 DEF AsyncSetCache, CacheSet
  <2>2. LagFine(d)'
    BY <1>1, <2>1 DEF LagFine, Lags
  <2>3. NegFine(d)'
    BY <1>1, <2>1 DEF Fine, NegFine, CanRedirect, IsExpired
  <2> QED BY <2>2, <2>3 DEF Fine
<1>3. CASE AsyncSetNotFound(r) /\ d = rcode[r]
  <2>1. /\ lateNeg'[d] = (rrow[r] # primary[d])
        /\ pos' = pos /\ late' = late
    BY <1>3 DEF AsyncSetNotFound, CacheSetNotFound
  <2>2. rrow[r] = NoRow \/ ~CanRedirect(rrow[r], now)
    BY <1>3 DEF AsyncSetNotFound, Stored, StoredAnswers
  <2>3. LagFine(d)'
    BY <1>1, <2>1 DEF Fine, LagFine, Lags
  <2>4. NegFine(d)'
    BY <1>1, <2>1, <2>2 DEF NegFine, CanRedirect, IsExpired
  <2> QED BY <2>3, <2>4 DEF Fine
<1>4. CASE /\ ~(AsyncSetCache(r) /\ d = rcode[r])
           /\ ~(AsyncSetNotFound(r) /\ d = rcode[r])
  <2>1. /\ pos'[d] = NoRow \/ (pos'[d] = pos[d] /\ late'[d] = late[d])
        /\ neg'[d] = neg[d] /\ lateNeg'[d] = lateNeg[d]
    BY <1>4 DEF ResolveStep, Resolve, ResolveHit, ResolveMiss, ResolveCorrupt,
         ResolveNegative, ResolveDb, AsyncSetCache, AsyncSetNotFound,
         ResolveLost, CacheSet, CacheSetNotFound
  <2>2. Undisturbed(d)
    BY <1>1, <2>1 DEF Undisturbed
  <2> QED BY <2>2, UndisturbedFine
<1> QED BY <1>2, <1>3, <1>4

LEMMA EnvironmentExplained ==
    ASSUME TypeOK, Explained,
           \/ Tick \/ UNCHANGED vars
           \/ \E c \in Codes : Replicate(c) \/ ExpirePositive(c) \/ ExpireNegative(c)
    PROVE  Explained'
<1> SUFFICES ASSUME NEW d \in Codes PROVE Fine(d)'
  BY DEF Explained
<1>1. InvalidationPending(d) => InvalidationPending(d)'
  BY DEF Tick, Replicate, ExpirePositive, ExpireNegative, vars, InvalidationPending
<1>2. Undisturbed(d)
  BY <1>1 DEF Tick, Replicate, ExpirePositive, ExpireNegative, vars,
              Undisturbed, TypeOK, StoreType
<1> QED BY <1>2, UndisturbedFine DEF Explained

LEMMA NextExplained == TypeOK /\ Stored /\ Explained /\ [Next]_vars => Explained'
BY StartExplained, ApiStepExplained, ResolveExplained, EnvironmentExplained DEF Next

LEMMA ExplainedCorrect == Spec => []Explained
BY InitExplained, NextExplained, TypeCorrect, StoredCorrect, PTL DEF Spec

LEMMA ExplainedImplies == Explained => LagIsExplained /\ NegativeIsExplained
BY DEF Explained, Fine, LagFine, NegFine, LagIsExplained, NegativeIsExplained

\* No handler leaves a positive key behind its write except through a lost
\* delete or a late fill (update_handler.go, delete_handler.go, url_cache.go).
THEOREM LagCorrect == Spec => []LagIsExplained
BY ExplainedCorrect, ExplainedImplies, PTL

\* A negative key hides a live link only for the same reasons, or because it
\* is older than the link (shorten/handler.go, url_cache.go).
THEOREM NegativeCorrect == Spec => []NegativeIsExplained
BY ExplainedCorrect, ExplainedImplies, PTL

-----------------------------------------------------------------------------
(* The refinement.  API steps that commit map to Add, Change or Remove, the *)
(* start of a redirect to Ask, its reply to Answer, all others stutter.     *)

DirOut == [r \in Resolvers |->
              [code |-> rcode[r], ans |-> rans[r], row |-> rrow[r]]]

LEMMA InitDirectory == Init => Directory!DInit
BY DEF Init, Directory!DInit

LEMMA SameOut == ASSUME UNCHANGED redir PROVE UNCHANGED DirOut
BY DEF DirOut

LEMMA StutterDirectory ==
    ASSUME UNCHANGED <<primary, hist, rcode, rans, rrow>>
    PROVE  [Directory!DNext]_(Directory!dvars)
BY DEF Directory!dvars

LEMMA CreateDirectory ==
    ASSUME TypeOK, NEW c \in Codes, NEW u \in Row, primary[c] = NoRow,
           u.status = "active", ~u.deleted, Commit(c, u), UNCHANGED redir
    PROVE  Directory!DNext
<1>1. u \in hist'[c]
  BY CommitGrows
<1>2. Directory!Add(c, u)
  BY SameOut DEF Directory!Add, Directory!Put, Commit, DirOut
<1> QED BY <1>1, <1>2 DEF Directory!DNext

LEMMA WriteDirectory ==
    ASSUME TypeOK, Stored, NEW w \in Writers,
           wpc[w] \in {"update", "softdelete"}, Matches(wcode[w], wcmd[w].ws),
           Commit(wcode[w], WrittenRow(w)), UNCHANGED redir
    PROVE  Directory!DNext
<1> DEFINE c == wcode[w]
           u == WrittenRow(w)
<1>1. c \in Codes /\ primary[c] \in Row /\ ~primary[c].deleted /\ primary[c] # NoRow
  BY DEF TypeOK, StoreType, ApiType, RowOrNone, Matches
<1>2. CASE wpc[w] = "update"
  <2>1. /\ u \in Row /\ u.ws = primary[c].ws /\ u.ver = primary[c].ver + 1
        /\ Shaped(u) /\ ~u.deleted
    BY <1>1, <1>2, WrittenRowType, WrittenRowStored
  <2>2. u \in hist'[c]
    BY <1>1, <2>1, CommitGrows
  <2>3. Directory!Change(c, u)
    BY <1>1, <2>1, SameOut
       DEF Shaped, Directory!Change, Directory!Put, Commit, DirOut
  <2> QED BY <1>1, <2>2, <2>3 DEF Directory!DNext
<1>3. CASE wpc[w] = "softdelete"
  <2>1. u = [ws |-> primary[c].ws, target |-> primary[c].target,
             expires |-> primary[c].expires, status |-> "deleted",
             deleted |-> TRUE, ver |-> primary[c].ver + 1]
    BY <1>3 DEF WrittenRow, DeletedRow
  <2>2. Directory!Remove(c)
    BY <1>1, <2>1, SameOut DEF Directory!Remove, Directory!Put, Commit, DirOut
  <2> QED BY <1>1, <2>2 DEF Directory!DNext
<1> QED BY <1>2, <1>3

LEMMA ApiStepDirectory ==
    ASSUME TypeOK, Stored, NEW w \in Writers, ApiStep(w)
    PROVE  [Directory!DNext]_(Directory!dvars)
<1>1. ASSUME NEW c \in Codes, wpc[w] = "create", primary[c] = NoRow,
             Commit(c, wrow[w]), UNCHANGED redir
      PROVE  Directory!DNext
  BY <1>1, CreateDirectory DEF TypeOK, ApiType, Stored, StoredApi
<1>2. ASSUME NEW c \in Codes, ShortenCreate(w, c)
      PROVE  [Directory!DNext]_(Directory!dvars)
  BY <1>1, <1>2 DEF ShortenCreate
<1>3. ASSUME NEW c \in Codes, ShortenDbError(w, c)
      PROVE  [Directory!DNext]_(Directory!dvars)
  BY <1>1, <1>3, StutterDirectory DEF ShortenDbError
<1>4. CASE Write(w)
  BY <1>4, WriteDirectory DEF Write
<1>5. CASE WriteDbError(w)
  BY <1>5, WriteDirectory, StutterDirectory DEF WriteDbError
<1>6. ASSUME NEW c \in Codes, ShortenConflict(w, c)
      PROVE  [Directory!DNext]_(Directory!dvars)
  BY <1>6, StutterDirectory DEF ShortenConflict
<1>7. CASE \/ ShortenPrewarm(w) \/ Fetch(w) \/ WriteNotFound(w)
           \/ Invalidate(w) \/ ApiCrash(w)
  BY <1>7, StutterDirectory
     DEF ShortenPrewarm, Fetch, WriteNotFound, Invalidate, ApiCrash
<1> QED
  BY <1>2, <1>3, <1>4, <1>5, <1>6, <1>7 DEF ApiStep

\* A reply is an Answer of the directory when its row is one the code has had.
LEMMA ReplyDirectory ==
    ASSUME TypeOK, Stored, NEW r \in Resolvers,
           rpc[r] \in {"get", "negative", "db"},
           NEW u \in RowOrNone, NEW a \in Answers \ {"none"}, NEW pc,
           Reply(r, u, a, pc), UNCHANGED <<primary, hist>>,
           u # NoRow => u \in hist[rcode[r]] /\ Shaped(u),
           a = "redirect" => u # NoRow /\ ~u.deleted,
           a = "gone" => u # NoRow /\ u.expires # Never
    PROVE  Directory!DNext
<1>1. rcode[r] \in Codes /\ rans[r] = "none" /\ DirOut[r].code = rcode[r]
      /\ DirOut[r].ans = "none"
  BY DEF TypeOK, RedirectType, Stored, StoredAnswers, DirOut
<1>2. DirOut' = [DirOut EXCEPT ![r] = [code |-> rcode[r], ans |-> a, row |-> u]]
  BY DEF DirOut, Reply, TypeOK, RedirectType
<1>3. Directory!Answer(r, a, u)
  BY <1>1, <1>2 DEF Directory!Answer, DirOut, Shaped
<1>4. u \in {NoRow} \cup UNION {hist[c] : c \in Codes}
  BY <1>1
<1>5. \E q \in Resolvers, b \in Answers \ {"none"} :
        \E v \in {NoRow} \cup UNION {hist[c] : c \in Codes} : Directory!Answer(q, b, v)
  BY <1>3, <1>4, Zenon
<1> QED BY <1>5 DEF Directory!DNext, Directory!Answers, Answers

LEMMA ResolveDirectory ==
    ASSUME TypeOK, Stored, NEW r \in Resolvers,
           ResolveStep(r) \/ \E c \in Codes : Resolve(r, c)
    PROVE  [Directory!DNext]_(Directory!dvars)
<1> NoRow \in RowOrNone
  BY DEF RowOrNone
<1> rpc[r] # "idle" => rcode[r] \in Codes
  BY DEF TypeOK, RedirectType
<1>1. ASSUME NEW c \in Codes, Resolve(r, c) PROVE Directory!DNext
  <2>1. DirOut' = [DirOut EXCEPT ![r] = [code |-> c, ans |-> "none", row |-> NoRow]]
    BY <1>1 DEF DirOut, Resolve, TypeOK, RedirectType
  <2>2. Directory!Ask(r, c)
    BY <1>1, <2>1 DEF Directory!Ask, DirOut, Resolve
  <2> QED BY <2>2 DEF Directory!DNext
<1>2. CASE ResolveHit(r)
  <2> DEFINE u == pos[rcode[r]]
  <2>1. /\ u \in hist[rcode[r]] /\ ~u.deleted /\ Shaped(u) /\ u # NoRow
        /\ u \in RowOrNone
    BY <1>2 DEF ResolveHit, Stored, StoredRows, TypeOK, StoreType
  <2>2. PICK a \in Answers \ {"none"} :
          Reply(r, u, a, "idle") /\ (a = "gone" => u.expires # Never)
    BY <1>2 DEF ResolveHit, AnswerFromEntry, NonRedirectableAnswer, Answers, IsExpired
  <2>3. rpc[r] = "get" /\ UNCHANGED <<primary, hist>>
    BY <1>2 DEF ResolveHit
  <2> HIDE DEF u
  <2> QED BY <2>1, <2>2, <2>3, ReplyDirectory
<1>3. CASE ResolveNegative(r)
  <2>1. CASE Reply(r, NoRow, "notfound", "idle")
    BY <1>3, <2>1, ReplyDirectory DEF ResolveNegative, Answers
  <2>2. CASE Proceed(r, "db")
    BY <1>3, <2>2, StutterDirectory DEF ResolveNegative, Proceed
  <2> QED BY <1>3, <2>1, <2>2 DEF ResolveNegative
<1>4. CASE ResolveDb(r)
  <2> DEFINE u == ReadPool(rcode[r])
  <2>1. rpc[r] = "db" /\ UNCHANGED <<primary, hist>>
    BY <1>4 DEF ResolveDb
  <2>2. u \in RowOrNone /\ (u # NoRow => u \in hist[rcode[r]] /\ Shaped(u))
    BY <2>1, ReadPoolType, ReadPoolStored
  <2>3. CASE Reply(r, NoRow, "error", "idle")
    BY <2>1, <2>3, ReplyDirectory DEF Answers
  <2>4. CASE ~Reply(r, NoRow, "error", "idle")
    <3>1. PICK a \in Answers \ {"none"}, pc \in {"fill", "fillneg"} :
            /\ Reply(r, u, a, pc)
            /\ a = "redirect" => Found(u)
            /\ a = "gone" => Found(u) /\ u.expires # Never
      BY <1>4, <2>4 DEF ResolveDb, NonRedirectableAnswer, Answers, IsExpired
    <3> HIDE DEF u
    <3> QED BY <2>1, <2>2, <3>1, ReplyDirectory DEF Found
  <2> QED BY <2>3, <2>4
<1>5. CASE \/ ResolveMiss(r) \/ ResolveCorrupt(r) \/ AsyncSetCache(r)
           \/ AsyncSetNotFound(r) \/ ResolveLost(r)
  BY <1>5, StutterDirectory
     DEF ResolveMiss, ResolveCorrupt, AsyncSetCache, AsyncSetNotFound,
         ResolveLost, Proceed
<1> QED
  BY <1>1, <1>2, <1>3, <1>4, <1>5 DEF ResolveStep

LEMMA NextDirectory ==
    TypeOK /\ Stored /\ [Next]_vars => [Directory!DNext]_(Directory!dvars)
<1> SUFFICES ASSUME TypeOK, Stored, [Next]_vars
             PROVE  [Directory!DNext]_(Directory!dvars)
  OBVIOUS
<1>1. ASSUME NEW w \in Writers, StartRequest(w)
      PROVE  [Directory!DNext]_(Directory!dvars)
  <2>1. ASSUME NEW cmd, NEW pc, NEW u, Start(w, cmd, pc, u)
        PROVE  [Directory!DNext]_(Directory!dvars)
    BY <2>1, StutterDirectory DEF Start
  <2>2. ASSUME NEW cmd, ModifyStart(w, cmd)
        PROVE  [Directory!DNext]_(Directory!dvars)
    BY <2>1, <2>2 DEF ModifyStart
  <2>3. ASSUME NEW cmd, ShortenStart(w, cmd)
        PROVE  [Directory!DNext]_(Directory!dvars)
    BY <2>1, <2>3 DEF ShortenStart
  <2> QED BY <1>1, <2>2, <2>3 DEF StartRequest
<1>2. CASE \/ Tick \/ UNCHANGED vars
           \/ \E c \in Codes : Replicate(c) \/ ExpirePositive(c) \/ ExpireNegative(c)
  BY <1>2, StutterDirectory
     DEF Tick, vars, Replicate, ExpirePositive, ExpireNegative
<1> QED
  BY <1>1, <1>2, ApiStepDirectory, ResolveDirectory DEF Next

\* The URL service, with its caches, replica, races and faults, implements the
\* abstract directory (url_repository.go, the four handlers).
THEOREM DirectoryCorrect == Spec => ImplementsDirectory
BY InitDirectory, NextDirectory, TypeCorrect, StoredCorrect, PTL
   DEF Spec, ImplementsDirectory, Directory!DSpec

-----------------------------------------------------------------------------
(* Listing: the limit                                                      *)

USE ListingConstants

\* A set of naturals that is not empty has a smallest element.
LEMMA Smallest ==
    ASSUME NEW T, T \subseteq Nat, T # {}
    PROVE  \E m \in T : \A n \in T : m <= n
<1>1. PICK m \in T : \A n \in T : <<n, m>> \notin OpToRel(<, Nat)
  BY NatLessThanWellFounded, WFMin
<1>2. ASSUME NEW n \in T
      PROVE  m <= n
  <2>1. ~(n < m)
    BY <1>1, <1>2 DEF OpToRel
  <2> QED
    BY <2>1
<1> QED
  BY <1>2

LEMMA WrapType == \A n \in Int : Wrap(n) \in Int
BY DEF Wrap

\* The number read after k digits.
Step(f, q, k) == IF k = 0 THEN 0 ELSE Wrap(f[k - 1] * 10 + q[k])

LEMMA StepType ==
    ASSUME NEW q \in Queries, NEW k \in 0 .. Len(q), NEW f, k = 0 \/ f[k - 1] \in Int
    PROVE  Step(f, q, k) \in Int
<1>1. CASE k = 0
  BY <1>1 DEF Step
<1>2. CASE k # 0
  <2>1. q \in Seq(0 .. 9) /\ k \in 1 .. Len(q)
    BY <1>2
  <2>2. q[k] \in Int /\ f[k - 1] \in Int
    BY <1>2, <2>1
  <2>3. f[k - 1] * 10 + q[k] \in Int
    BY <2>2
  <2> QED
    BY <1>2, <2>3, WrapType DEF Step
<1> QED
  BY <1>1, <1>2

\* A digit more, as long as there are digits: no first one is missing.
LEMMA NumberExists ==
    ASSUME NEW q \in Queries, NEW m \in 0 .. Len(q)
    PROVE  \E f \in [0 .. m -> Int] : \A k \in 0 .. m : f[k] = Step(f, q, k)
<1> DEFINE Good(n) == \E f \in [0 .. n -> Int] : \A k \in 0 .. n : f[k] = Step(f, q, k)
           Bad == {n \in 0 .. Len(q) : ~Good(n)}
<1>0. Len(q) \in Nat
  OBVIOUS
<1>1. Good(0)
  <2> DEFINE f == [k \in 0 .. 0 |-> 0]
  <2>1. f \in [0 .. 0 -> Int] /\ \A k \in 0 .. 0 : f[k] = Step(f, q, k)
    BY DEF Step
  <2> QED
    BY <2>1
<1>2. ASSUME NEW n \in 1 .. Len(q), Good(n - 1)
      PROVE  Good(n)
  <2>1. PICK f \in [0 .. n - 1 -> Int] : \A k \in 0 .. n - 1 : f[k] = Step(f, q, k)
    BY <1>2
  <2> DEFINE g == [k \in 0 .. n |-> IF k = n THEN Step(f, q, n) ELSE f[k]]
  <2>2. f[n - 1] \in Int /\ n \in 0 .. Len(q)
    BY <1>0
  <2>3. Step(f, q, n) \in Int
    BY <2>2, StepType
  <2>4. g \in [0 .. n -> Int]
    BY <2>3
  <2>5. ASSUME NEW k \in 0 .. n
        PROVE  g[k] = Step(g, q, k)
    <3>1. Step(g, q, k) = Step(f, q, k)
      BY <1>0 DEF Step
    <3>2. CASE k = n
      BY <3>1, <3>2
    <3>3. CASE k # n
      <4>1. k \in 0 .. n - 1
        BY <1>0, <3>3
      <4> QED
        BY <2>1, <3>1, <3>3, <4>1
    <3> QED
      BY <3>2, <3>3
  <2> HIDE DEF g
  <2> QED
    BY <2>4, <2>5
<1>3. Bad = {}
  <2> SUFFICES ASSUME Bad # {}
               PROVE  FALSE
    OBVIOUS
  <2>1. Bad \subseteq Nat
    BY <1>0
  <2>2. PICK n \in Bad : \A i \in Bad : n <= i
    BY <2>1, Smallest
  <2> HIDE DEF Good
  <2>3. n # 0 /\ n \in 1 .. Len(q)
    BY <1>0, <1>1
  <2>4. n - 1 \notin Bad
    BY <1>0, <2>2, <2>3
  <2>5. Good(n - 1)
    BY <1>0, <2>3, <2>4
  <2> QED
    BY <1>2, <2>3, <2>5
<1> QED
  BY <1>3

LEMMA NumberType ==
    ASSUME NEW q \in Queries
    PROVE  Number(q) \in Int
<1> DEFINE upTo == CHOOSE f : f = [k \in 0 .. Len(q) |-> Step(f, q, k)]
<1>0. Len(q) \in Nat
  OBVIOUS
<1>1. upTo = [k \in 0 .. Len(q) |-> Step(upTo, q, k)]
  <2>1. PICK f \in [0 .. Len(q) -> Int] : \A k \in 0 .. Len(q) : f[k] = Step(f, q, k)
    BY <1>0, NumberExists
  <2>2. f = [k \in 0 .. Len(q) |-> Step(f, q, k)]
    BY <2>1
  <2> QED
    BY <2>2
<1>2. Number(q) = upTo[Len(q)]
  BY DEF Number, Step
<1> HIDE DEF upTo
<1> DEFINE Bad == {k \in 0 .. Len(q) : upTo[k] \notin Int}
<1>3. Bad = {}
  <2> SUFFICES ASSUME Bad # {}
               PROVE  FALSE
    OBVIOUS
  <2>1. Bad \subseteq Nat
    BY <1>0
  <2>2. PICK k \in Bad : \A i \in Bad : k <= i
    BY <2>1, Smallest
  <2>3. k = 0 \/ upTo[k - 1] \in Int
    BY <1>0, <2>2
  <2>4. upTo[k] = Step(upTo, q, k)
    BY <1>1
  <2> QED
    BY <2>3, <2>4, StepType
<1> QED
  BY <1>0, <1>2, <1>3

LEMMA LimitType ==
    ASSUME NEW q \in Queries
    PROVE  ParseIntQuery(q) \in 1 .. MaxLimit
BY NumberType DEF ParseIntQuery

-----------------------------------------------------------------------------
(* Pages                                                                   *)

\* How many of the links of R come before i.
Before(R, i) == Cardinality({j \in R : j < i})

LEMMA Counted ==
    ASSUME NEW R \in SUBSET Ids, NEW i \in Ids
    PROVE  /\ Before(R, i) \in Nat
           /\ \A j \in R : j < i => Before(R, j) < Before(R, i)
           /\ \A j \in Ids : j <= i => Before(R, j) <= Before(R, i)
<1> DEFINE below(j) == {k \in R : k < j}
<1>1. ASSUME NEW j \in Ids
      PROVE  IsFiniteSet(below(j)) /\ Cardinality(below(j)) \in Nat
  BY FS_Subset, FS_CardinalityType
<1>2. ASSUME NEW j \in Ids, j <= i
      PROVE  Cardinality(below(j)) <= Cardinality(below(i))
  <2>1. i \in Nat /\ j \in Nat /\ \A k \in R : k \in Nat
    BY <1>2
  <2>2. \A k \in R : k < j => k < i
    BY <1>2, <2>1
  <2>3. below(j) \subseteq below(i)
    BY <2>2
  <2> HIDE DEF below
  <2> QED
    BY <1>1, <2>3, FS_Subset
<1>3. ASSUME NEW j \in R, j < i
      PROVE  Cardinality(below(j)) < Cardinality(below(i))
  <2>1. i \in Nat /\ j \in Nat /\ \A k \in R : k \in Nat
    BY <1>3
  <2>2. (\A k \in R : k < j => k < i) /\ ~(j < j)
    BY <1>3, <2>1
  <2>3. below(j) \subseteq below(i) /\ j \in below(i) /\ j \notin below(j)
    BY <1>3, <2>2
  <2> HIDE DEF below
  <2>4. /\ Cardinality(below(j)) <= Cardinality(below(i))
        /\ Cardinality(below(i)) # Cardinality(below(j))
    BY <1>1, <2>3, FS_Subset
  <2> QED
    BY <1>1, <2>4
<1> QED
  BY <1>1, <1>2, <1>3 DEF Before

\* A page is what comes first of what remains; it is not empty if something
\* remains, and the cursor is its last link if something remains after it.
LEMMA PageIsFirst ==
    ASSUME NEW cursor \in Ids \cup {NoCursor}, NEW limit \in 1 .. MaxLimit
    PROVE  LET rest == Remaining(cursor)
               page == Page(cursor, limit)
               next == NextCursor(cursor, limit)
           IN  /\ page \subseteq rest /\ rest \subseteq Ids /\ \A i \in rest : i > cursor
               /\ IF rest = page THEN next = NoCursor
                  ELSE /\ next \in page
                       /\ \A j \in page : j <= next
                       /\ \A j \in rest \ page : j > next
<1> DEFINE rest == Remaining(cursor)
           page == Page(cursor, limit)
           next == NextCursor(cursor, limit)
<1>1. rest \subseteq Ids /\ \A i \in rest : i > cursor
  BY DEF Remaining
<1>2. page = {i \in rest : Before(rest, i) < limit}
  BY DEF Page, Before
<1>3. ASSUME rest # page
      PROVE  \E i \in page : \A j \in page : j <= i
  <2>1. PICK i \in rest : \A j \in rest : i <= j
    <3>1. rest \subseteq Nat /\ rest # {}
      BY <1>1, <1>2, <1>3
    <3> QED
      BY <3>1, Smallest
  <2>2. i \in page
    <3>1. rest \subseteq Nat
      BY <1>1
    <3>2. {j \in rest : j < i} = {}
      BY <2>1, <3>1
    <3>3. Before(rest, i) = 0
      BY <3>2, FS_EmptySet DEF Before
    <3> QED
      BY <1>2, <3>3
  <2> HIDE DEF rest, page
  <2> DEFINE left(k) == limit - Before(rest, k)
             Lefts == {left(k) : k \in page}
  <2>3. /\ \A k \in page : k \in rest /\ k \in Ids /\ Before(rest, k) \in Nat /\ left(k) \in Nat
        /\ Lefts \subseteq Nat /\ Lefts # {}
    <3>1. rest \in SUBSET Ids /\ \A k \in page : k \in rest /\ Before(rest, k) < limit
      BY <1>1, <1>2
    <3>2. \A k \in page : Before(rest, k) \in Nat
      BY <3>1, Counted
    <3>3. \A k \in page : left(k) \in Nat
      BY <3>1, <3>2
    <3> HIDE DEF left
    <3> QED
      BY <2>2, <3>1, <3>2, <3>3
  <2>4. PICK m \in Lefts : \A n \in Lefts : m <= n
    BY <2>3, Smallest
  <2>5. PICK k \in page : m = left(k)
    BY <2>4
  <2>6. ASSUME NEW j \in page
        PROVE  j <= k
    <3>1. left(k) <= left(j)
      <4>1. left(j) \in Lefts
        OBVIOUS
      <4> QED
        BY <2>4, <2>5, <4>1
    <3>2. k \in Nat /\ j \in Nat
      BY <2>3
    <3>3. k < j => Before(rest, k) < Before(rest, j)
      BY <1>1, <2>3, Counted
    <3> QED
      BY <2>3, <3>1, <3>3, <3>2
  <2> QED
    BY <2>6
<1>4. rest # page => next \in page /\ \A j \in page : j <= next
  BY <1>3 DEF NextCursor
<1>5. ASSUME rest # page, NEW j \in rest \ page
      PROVE  j > next
  <2>1. next \in Ids /\ j \in Ids /\ next \in page
    BY <1>1, <1>2, <1>4, <1>5
  <2> HIDE DEF rest, page, next
  <2>2. j <= next => Before(rest, j) <= Before(rest, next)
    BY <1>1, <2>1, Counted
  <2>3. /\ Before(rest, j) \in Nat /\ Before(rest, next) \in Nat
        /\ Before(rest, next) < limit /\ ~(Before(rest, j) < limit)
    BY <1>1, <1>2, <1>5, <2>1, Counted
  <2> QED
    BY <2>1, <2>2, <2>3
<1>6. rest = page => next = NoCursor
  BY DEF NextCursor
<1> QED
  BY <1>1, <1>2, <1>4, <1>5, <1>6

-----------------------------------------------------------------------------
(* Walks                                                                   *)

WalkSound ==
    /\ walk.on => walk.cursor \in Ids /\ \A i \in walk.seen : i <= walk.cursor
    /\ \A i \in steady : shown[i] = "selected"

ListingInv == ListingTypeOK /\ WalkSound /\ WalkIsExact

\* A page more, of a walk whose list is exact so far.
LEMMA FetchInv ==
    ASSUME ListingTypeOK, NEW w,
           w \in [on: BOOLEAN, limit: 1 .. MaxLimit, cursor: Ids \cup {NoCursor},
                  seen: SUBSET Ids, again: BOOLEAN],
           \A i \in w.seen : i <= w.cursor, ~w.again,
           NEW S \in SUBSET Ids, \A i \in S : shown[i] = "selected",
           S \subseteq w.seen \cup {i \in Ids : i > w.cursor},
           FetchPage(w), steady' = S, UNCHANGED <<shown, lag>>
    PROVE  ListingInv'
<1> DEFINE rest == Remaining(w.cursor)
           page == Page(w.cursor, w.limit)
           next == NextCursor(w.cursor, w.limit)
<1>1. w.cursor \in Ids \cup {NoCursor} /\ w.limit \in 1 .. MaxLimit /\ w.seen \subseteq Ids
  OBVIOUS
<1>2. /\ page \subseteq rest /\ rest \subseteq Ids /\ \A i \in rest : i > w.cursor
      /\ rest = page => next = NoCursor
      /\ rest # page => /\ next \in page
                        /\ \A j \in page : j <= next
                        /\ \A j \in rest \ page : j > next
  BY <1>1, PageIsFirst
<1>3. \A i \in Ids : i > w.cursor /\ shown[i] = "selected" => i \in rest
  BY DEF Remaining
<1>4. /\ walk' = [w EXCEPT !.on = next # NoCursor, !.cursor = next,
                           !.seen = w.seen \cup page, !.again = page \cap w.seen # {}]
  BY DEF FetchPage
<1> HIDE DEF rest, page, next
<1>5. /\ walk'.on = (next # NoCursor) /\ walk'.cursor = next
      /\ walk'.seen = w.seen \cup page /\ walk'.again = (page \cap w.seen # {})
  BY <1>4
<1>6. /\ 0 \notin Ids /\ NoCursor = 0 /\ Ids \subseteq Nat
  BY DEF NoCursor
<1>7. next \in Ids \cup {NoCursor}
  BY <1>2
<1>8. \A x \in Ids \cup {0} : x \in Nat
  OBVIOUS
<1>9. w.cursor \in Nat /\ \A i \in w.seen : i \in Nat
  BY <1>1, <1>6, <1>8, Zenon
<1>10. ListingTypeOK'
  <2>1. walk' \in [on: BOOLEAN, limit: 1 .. MaxLimit, cursor: Ids \cup {NoCursor},
                   seen: SUBSET Ids, again: BOOLEAN]
    BY <1>1, <1>2, <1>4, <1>7
  <2> QED
    BY <2>1 DEF ListingTypeOK
<1>11. WalkSound'
  <2>1. ASSUME walk'.on
        PROVE  walk'.cursor \in Ids /\ \A i \in walk'.seen : i <= walk'.cursor
    <3>1. next \in Ids /\ rest # page /\ next \in page
      BY <1>2, <1>5, <1>7, <2>1
    <3>2. w.cursor < next
      <4>1. next \in rest
        BY <1>2, <3>1
      <4>2. next > w.cursor
        BY <1>2, <4>1
      <4> QED
        BY <4>2
    <3>3. w.cursor \in Nat /\ next \in Nat /\ w.seen \subseteq Nat
      BY <1>8, <1>9, <3>1, Zenon
    <3>5. ASSUME NEW i \in w.seen
          PROVE  i <= next
      <4>1. i <= w.cursor /\ i \in Nat
        BY <3>3
      <4> QED
        BY <3>2, <3>3, <4>1
    <3> QED
      BY <1>2, <1>5, <3>1, <3>5
  <2> QED
    BY <2>1 DEF WalkSound
<1>12. WalkIsExact'
  <2>1. ~walk'.again
    <3>1. ASSUME NEW i \in page, i \in w.seen
          PROVE  FALSE
      <4>1. i > w.cursor /\ i <= w.cursor
        BY <1>2, <3>1
      <4>2. i \in Nat /\ w.cursor \in Nat
        BY <1>9, <3>1, Zenon
      <4> QED
        BY <4>1, <4>2
    <3> QED
      BY <1>5, <3>1
  <2>2. ASSUME NEW i \in S
        PROVE  i \in w.seen \cup page \/ (next # NoCursor /\ i > next)
    <3>1. CASE i \in w.seen
      BY <3>1
    <3>2. CASE i \notin w.seen
      <4>1. i \in rest
        BY <1>3, <3>2
      <4>2. rest = page => i \in page
        BY <4>1
      <4>3. rest # page => next # NoCursor
        BY <1>2, <1>6
      <4> QED
        BY <1>2, <4>1, <4>2, <4>3
    <3> QED
      BY <3>1, <3>2
  <2> QED
    BY <1>5, <2>1, <2>2 DEF WalkIsExact, ListedOnce, NothingSkipped
<1> QED
  BY <1>10, <1>11, <1>12 DEF ListingInv

LEMMA PagesInv ==
    ASSUME ListingInv, NextPage \/ \E q \in Queries : FirstPage(q)
    PROVE  ListingInv'
<1>1. CASE NextPage
  <2>1. /\ walk.on /\ FetchPage(walk) /\ steady' = steady /\ UNCHANGED <<shown, lag>>
    BY <1>1 DEF NextPage
  <2>2. /\ ListingTypeOK /\ \A i \in walk.seen : i <= walk.cursor
        /\ ~walk.again /\ steady \in SUBSET Ids /\ \A i \in steady : shown[i] = "selected"
        /\ steady \subseteq walk.seen \cup {i \in Ids : i > walk.cursor}
        /\ walk \in [on: BOOLEAN, limit: 1 .. MaxLimit, cursor: Ids \cup {NoCursor},
                     seen: SUBSET Ids, again: BOOLEAN]
    BY <2>1 DEF ListingInv, ListingTypeOK, WalkSound, WalkIsExact, ListedOnce, NothingSkipped
  <2> QED
    BY <2>1, <2>2, FetchInv
<1>2. CASE \E q \in Queries : FirstPage(q)
  <2>1. PICK q \in Queries : FirstPage(q)
    BY <1>2
  <2> DEFINE w == [NoWalk EXCEPT !.limit = ParseIntQuery(q)]
  <2>2. /\ FetchPage(w) /\ steady' = Remaining(NoCursor) /\ UNCHANGED <<shown, lag>>
    BY <2>1 DEF FirstPage
  <2>3. /\ w \in [on: BOOLEAN, limit: 1 .. MaxLimit, cursor: Ids \cup {NoCursor},
                  seen: SUBSET Ids, again: BOOLEAN]
        /\ w.seen = {} /\ ~w.again /\ w.cursor = NoCursor
    BY LimitType DEF NoWalk
  <2>4. Remaining(NoCursor) = {i \in Ids : i > NoCursor /\ shown[i] = "selected"}
    BY DEF Remaining
  <2>5. ListingTypeOK
    BY DEF ListingInv
  <2> HIDE DEF w
  <2> QED
    BY <2>2, <2>3, <2>4, <2>5, FetchInv
<1> QED
  BY <1>1, <1>2

LEMMA ReplicateInv ==
    ASSUME ListingInv, ReplicateChange
    PROVE  ListingInv'
<1>1. /\ lag # <<>> /\ lag \in Seq([id: Ids, state: States \ {"none"}])
      /\ shown' = [shown EXCEPT ![Head(lag).id] = Head(lag).state] /\ lag' = Tail(lag)
      /\ steady' = {i \in steady : shown'[i] = "selected"} /\ walk' = walk
  BY DEF ReplicateChange, ListingInv, ListingTypeOK
<1>2. /\ Head(lag) \in [id: Ids, state: States \ {"none"}]
      /\ Tail(lag) \in Seq([id: Ids, state: States \ {"none"}])
  <2> DEFINE Entry == [id: Ids, state: States \ {"none"}]
  <2>1. lag \in Seq(Entry) /\ lag # <<>>
    BY <1>1
  <2> HIDE DEF Entry
  <2>2. Head(lag) \in Entry /\ Tail(lag) \in Seq(Entry)
    BY <2>1
  <2> QED
    BY <2>2 DEF Entry
<1>3. ListingTypeOK'
  BY <1>1, <1>2 DEF ListingInv, ListingTypeOK
<1> QED
  BY <1>1, <1>3 DEF ListingInv, WalkSound, WalkIsExact, ListedOnce, NothingSkipped

\* Changes on the primary, and a walk given up.
LEMMA OtherListingInv ==
    ASSUME ListingInv,
           \/ AbandonWalk
           \/ \E id \in Ids, state \in States \ {"none"} : Change(id, state)
    PROVE  ListingInv'
<1>1. CASE AbandonWalk
  BY <1>1 DEF AbandonWalk, NoWalk, NoCursor, ListingInv, ListingTypeOK, WalkSound, WalkIsExact,
              ListedOnce, NothingSkipped
<1>2. CASE \E id \in Ids, state \in States \ {"none"} : Change(id, state)
  <2>1. PICK id \in Ids, state \in States \ {"none"} : Change(id, state)
    BY <1>2
  <2>2. lag' = Append(lag, [id |-> id, state |-> state]) /\ UNCHANGED <<shown, walk, steady>>
    BY <2>1 DEF Change
  <2>3. lag' \in Seq([id: Ids, state: States \ {"none"}])
    BY <2>2 DEF ListingInv, ListingTypeOK
  <2>4. ListingTypeOK'
    BY <2>2, <2>3 DEF ListingInv, ListingTypeOK
  <2> QED
    BY <2>2, <2>4 DEF ListingInv, WalkSound, WalkIsExact, ListedOnce, NothingSkipped
<1> QED
  BY <1>1, <1>2

LEMMA InitListing == ListingInit => ListingInv
BY DEF ListingInit, NoWalk, NoCursor, States, ListingInv, ListingTypeOK, WalkSound, WalkIsExact,
       ListedOnce, NothingSkipped

LEMMA NextListing == ListingInv /\ [ListingNext]_listingVars => ListingInv'
<1> SUFFICES ASSUME ListingInv, [ListingNext]_listingVars
             PROVE  ListingInv'
  OBVIOUS
<1>1. CASE UNCHANGED listingVars
  BY <1>1 DEF listingVars, ListingInv, ListingTypeOK, WalkSound, WalkIsExact, ListedOnce,
              NothingSkipped
<1>2. CASE \E id \in Ids :
              \/ \E state \in {"selected", "other"} : Create(id, state) \/ Update(id, state)
              \/ SoftDelete(id)
  BY <1>2, OtherListingInv DEF Create, Update, SoftDelete, States
<1> QED
  BY <1>1, <1>2, PagesInv, ReplicateInv, OtherListingInv DEF ListingNext

\* The invariant of the walks.
THEOREM ListingInductive == ListingSpec => []ListingInv
BY InitListing, NextListing, PTL DEF ListingSpec

\* Kinds of values, and the limit of a page between 1 and MaxLimit whatever digits
\* the client wrote (parseIntQuery).
THEOREM ListingTypeCorrect == ListingSpec => []ListingTypeOK
<1>1. ListingInv => ListingTypeOK
  BY DEF ListingInv
<1> QED
  BY <1>1, ListingInductive, PTL

\* The pages of a walk list nothing twice and leave nothing out that the replica
\* showed all through it, for any number of links and changes (URLRepository.List).
THEOREM WalkCorrect == ListingSpec => []WalkIsExact
<1>1. ListingInv => WalkIsExact
  BY DEF ListingInv
<1> QED
  BY <1>1, ListingInductive, PTL

=============================================================================
