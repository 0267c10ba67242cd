-------------------------- MODULE AnalyticsReports --------------------------
(***************************************************************************)
(* What the dashboard is told: clicks on one link are stamped, enriched    *)
(* and stored, and the API reports them as a summary, a time series or a   *)
(* breakdown over a window, from a replica that shows a prefix of what the *)
(* primary has committed (handler/analytics.go, application/analytics,     *)
(* postgres/analytics_query_repository.go, pkg/iphasher).                  *)
(*                                                                         *)
(* Time is in ticks of one microsecond, the resolution of a TIMESTAMPTZ.   *)
(* The pipeline between Capture and the table is AnalyticsIngestion's; here *)
(* it stores captured clicks in any order, and perhaps never.              *)
(***************************************************************************)
EXTENDS Integers, FiniteSets, Sequences, FiniteSetsExt, SequencesExt

CONSTANTS MaxClicks,     \* bound: clicks
          MaxNow,        \* bound: the clock
          Visits,        \* what a click may look like: the peer's <<ip, port>>
                         \* and the class of its User-Agent
          HasProxy,      \* requests come with X-Forwarded-For or X-Real-IP
          Granularities, \* of 1m, 1h, 1d
          BucketSize,          \* length of a bucket of each
          MaxSpan,       \* longest window it may be asked for
          Windows,       \* of 1h, 24h, 7d, 30d, all
          Duration,      \* length of each, 0 for all
          Bounds,        \* explicit start and end times that may be asked for
          TopN,          \* rows of a breakdown (50)
          Nothing        \* no time given, no hash, no query, no answer

Clicks == 1 .. MaxClicks

\* The entry of the log that sets the link's deleted_at.
Deletion == 0

\* The longest window of a granularity is a whole number of its buckets.
ASSUME ReportConstants ==
    /\ MaxClicks \in Nat /\ MaxNow \in Nat /\ TopN \in Nat \ {0}
    /\ HasProxy \in BOOLEAN
    /\ {"1d"} \subseteq Granularities /\ {"all"} \subseteq Windows
    /\ BucketSize \in [Granularities -> Nat \ {0}]
    /\ MaxSpan \in [Granularities -> Nat]
    /\ \A g \in Granularities : MaxSpan[g] % BucketSize[g] = 0
    /\ Duration \in [Windows -> Nat] /\ Duration["all"] = 0
    /\ Bounds \subseteq Int /\ Nothing \notin Int

VARIABLES
    now,      \* the clock
    clicks,   \* redirects served, in the order they were stamped; the
              \* properties also read on which day (on) each was captured
    log,      \* what the primary has committed: rows, and the link's deletion
    applied,  \* how much of it the replica shows
    query,    \* the report being made, between its two reads: its present time
    answer,   \* what the last step answered, if it ended a report
    shown     \* the largest all-time total answered so far

reportVars == <<now, clicks, log, applied, query, answer, shown>>

-----------------------------------------------------------------------------
(* Clicks                                                                  *)

\* time.Now().UTC().Format("2006-01-02")
Day(t) == t \div BucketSize["1d"]

\* RemoteAddr, which RealIP replaces when a proxy says whom it forwards.
RawIP(a) == IF HasProxy THEN a[1] ELSE a

\* The class "bot" stands for every User-Agent that has a bot's pattern in it.
Parse(ua) == [value |-> ua, bot |-> ua = "bot"]

\* Mutant: the salt has the time in it, not only the date.
HashEveryTick(ip) == <<ip, now>>

\* SHA-256 of the address and the salt of the day on which Hash is called;
\* distinct arguments have distinct hashes.
Hash(ip) == <<ip, Day(now)>>

\* The redirect handler stamps the click, having answered it.
Redirect(v) ==
    /\ Len(clicks) < MaxClicks
    /\ clicks' = Append(clicks, [at |-> now, address |-> v.address, ua |-> v.ua,
                                 state |-> "stamped", hash |-> Nothing,
                                 on |-> Day(now)])
    /\ answer' = Nothing
    /\ UNCHANGED <<now, log, applied, query, shown>>

\* Capture: a bot's address is not hashed.
Capture(c) ==
    LET k == clicks[c] IN
    /\ k.state = "stamped"
    /\ clicks' = [clicks EXCEPT ![c].state = "captured", ![c].on = Day(now),
                    ![c].hash = IF Parse(k.ua).bot THEN Nothing ELSE Hash(RawIP(k.address))]
    /\ answer' = Nothing
    /\ UNCHANGED <<now, log, applied, query, shown>>

\* The row is committed.
Store(c) ==
    /\ clicks[c].state = "captured"
    /\ clicks' = [clicks EXCEPT ![c].state = "stored"]
    /\ log' = Append(log, c)
    /\ answer' = Nothing
    /\ UNCHANGED <<now, applied, query, shown>>

DeleteUrl ==
    /\ Deletion \notin ToSet(log)
    /\ log' = Append(log, Deletion)
    /\ answer' = Nothing
    /\ UNCHANGED <<now, clicks, applied, query, shown>>

ReplicateLog ==
    /\ applied < Len(log)
    /\ applied' = applied + 1
    /\ answer' = Nothing
    /\ UNCHANGED <<now, clicks, log, query, shown>>

Tick ==
    /\ now < MaxNow
    /\ now' = now + 1
    /\ answer' = Nothing
    /\ UNCHANGED <<clicks, log, applied, query, shown>>

-----------------------------------------------------------------------------
(* The SQL of the three reports, over what the replica shows               *)

Replica == ToSet(SubSeq(log, 1, applied))

IsHuman(c) == ~Parse(clicks[c].ua).bot

\* occurred_at >= start AND occurred_at < end
InWindow(start, end) ==
    {c \in Replica \ {Deletion} : start <= clicks[c].at /\ clicks[c].at < end}

\* .. AND is_bot = false
Humans(start, end) == {c \in InWindow(start, end) : IsHuman(c)}

\* COUNT(DISTINCT ip_hash)
UniqueIPs(S) == Cardinality({clicks[c].hash : c \in S})

GetSummary(start, end) ==
    [total  |-> Cardinality({c \in InWindow(start, end) : IsHuman(c)}),
     unique |-> UniqueIPs({c \in InWindow(start, end) : IsHuman(c)}),
     bots   |-> Cardinality({c \in InWindow(start, end) : ~IsHuman(c)})]

Trunc(t, g) == (t \div BucketSize[g]) * BucketSize[g]

\* Mutant: the last bucket is the one the end of the window is in.
LastBucketOfEnd(end, g) == Trunc(end, g)

\* date_trunc(end - 1 microsecond)
LastBucket(end, g) == Trunc(end - 1, g)

\* generate_series
BucketCount(start, end, g) ==
    IF LastBucket(end, g) < Trunc(start, g) THEN 0
    ELSE (LastBucket(end, g) - Trunc(start, g)) \div BucketSize[g] + 1

\* The buckets, joined with the clicks in each.
GetTimeSeries(start, end, g) ==
    [i \in 1 .. BucketCount(start, end, g) |->
        LET b == Trunc(start, g) + (i - 1) * BucketSize[g]
            S == {c \in Humans(start, end) : Trunc(clicks[c].at, g) = b}
        IN  [bucket |-> b, clicks |-> Cardinality(S), unique |-> UniqueIPs(S)]]

\* GROUP BY, ORDER BY clicks DESC, LIMIT: one of the answers that ties allow.
GetBreakdown(start, end) ==
    LET values == {Parse(clicks[c].ua).value : c \in Humans(start, end)}
        n(v)   == Cardinality({c \in Humans(start, end) : Parse(clicks[c].ua).value = v})
        sorted == {s \in SetToSeqs(values) :
                     \A i \in 1 .. Len(s) - 1 : n(s[i]) >= n(s[i + 1])}
    IN  {[i \in 1 .. Min({TopN, Len(s)}) |-> [value |-> s[i], clicks |-> n(s[i])]] :
            s \in sorted}

-----------------------------------------------------------------------------
(* The handlers                                                            *)

\* GetByID on the replica finds the link: it is not deleted there yet.
LinkFound == Deletion \notin Replica

\* The first read, and the clock; what is asked for only matters from here on.
ResolveLink ==
    /\ query = Nothing /\ LinkFound
    /\ query' = now
    /\ answer' = Nothing
    /\ UNCHANGED <<now, clicks, log, applied, shown>>

\* The report ends with an answer.
Answer(kind, asked, result) ==
    /\ answer' = [kind |-> kind, asked |-> asked, result |-> result]
    /\ query' = Nothing
    /\ UNCHANGED <<now, clicks, log, applied>>

\* The link's created_at.
CreatedAt == 0

\* The start of a named window that ends at end.
Start(w, end) == IF w = "all" THEN CreatedAt ELSE end - Duration[w]

\* SummaryHandler
ReportSummary(w) ==
    LET s == GetSummary(Start(w, query), query) IN
    /\ query # Nothing
    /\ Answer("summary", [window |-> w, start |-> Start(w, query), end |-> query], s)
    /\ shown' = IF w = "all" THEN Max({shown, s.total}) ELSE shown

\* BreakdownHandler
ReportBreakdown(w) ==
    /\ query # Nothing
    /\ \E b \in GetBreakdown(Start(w, query), query) :
         Answer("breakdown", [window |-> w, start |-> Start(w, query), end |-> query], b)
    /\ UNCHANGED shown

\* Mutant: the granularity is not checked against the window.
AnySpan(start, end, g) == TRUE

ValidateWindowGranularity(start, end, g) == end - start <= MaxSpan[g]

\* TimeSeriesHandler: an explicit start overrides the window, and an explicit
\* end the present; a named window counts back from the end.
SeriesWindow(s, e, w) ==
    LET end == IF e = Nothing THEN query ELSE e
    IN  [start |-> IF s = Nothing THEN Start(w, end) ELSE s, end |-> end]

ReportSeries(s, e, w, g) ==
    LET q == SeriesWindow(s, e, w) IN
    /\ query # Nothing
    /\ ValidateWindowGranularity(q.start, q.end, g)
    /\ Answer("series", [granularity |-> g, start |-> q.start, end |-> q.end],
              GetTimeSeries(q.start, q.end, g))
    /\ UNCHANGED shown

\* Refused (422), or the replica cannot be reached (500).
ReportError ==
    /\ query # Nothing /\ query' = Nothing
    /\ answer' = Nothing
    /\ UNCHANGED <<now, clicks, log, applied, shown>>

-----------------------------------------------------------------------------
ReportInit ==
    /\ now = CreatedAt
    /\ clicks = <<>> /\ log = <<>> /\ applied = 0
    /\ query = Nothing /\ answer = Nothing /\ shown = 0

ReportNext ==
    \/ \E v \in Visits : Redirect(v)
    \/ \E c \in DOMAIN clicks : Capture(c) \/ Store(c)
    \/ DeleteUrl \/ ReplicateLog \/ Tick
    \/ ResolveLink \/ ReportError
    \/ \E w \in Windows : ReportSummary(w) \/ ReportBreakdown(w)
    \/ \E s, e \in Bounds \cup {Nothing}, w \in Windows, g \in Granularities :
         ReportSeries(s, e, w, g)

ReportSpec == ReportInit /\ [][ReportNext]_reportVars

-----------------------------------------------------------------------------
(* Properties                                                              *)

Answered(kind) == answer # Nothing /\ answer.kind = kind

\* Kinds of values; however its bounds are given, a series has no more points
\* than the longest window of its granularity has buckets, and one
\* (ValidateWindowGranularity).
ReportTypeOK ==
    /\ now \in 0 .. MaxNow
    /\ \A c \in DOMAIN clicks :
        clicks[c].at \in 0 .. now /\ clicks[c].state \in {"stamped", "captured", "stored"}
    /\ Len(clicks) <= MaxClicks
    /\ ToSet(log) \subseteq Clicks \cup {Deletion} /\ applied \in 0 .. Len(log)
    /\ query \in (0 .. now) \cup {Nothing} /\ shown \in 0 .. MaxClicks
    /\ Answered("series") =>
        LET g == answer.asked.granularity
        IN  Len(answer.result) <= MaxSpan[g] \div BucketSize[g] + 1

Sum(s, field) == FoldSeq(LAMBDA r, acc : r[field] + acc, 0, s)

\* The points of a series are the buckets the window touches, each once and in
\* order, and their clicks add up to the summary of the same window: the join
\* loses none, at either end (GetTimeSeries, GetSummary).
SeriesAddsUp ==
    Answered("series") =>
        LET p == answer.result
            q == answer.asked
            s == GetSummary(q.start, q.end)
            size == BucketSize[q.granularity]
        IN  /\ Sum(p, "clicks") = s.total
            /\ Sum(p, "unique") >= s.unique
            /\ \A i \in DOMAIN p : /\ p[i].bucket < q.end /\ q.start < p[i].bucket + size
                                   /\ p[i].unique <= s.unique
                                   /\ i > 1 => p[i].bucket = p[i - 1].bucket + size

\* A breakdown lists no value twice, leaves none out that has more clicks than
\* one it lists, and is the summary's total when it leaves none out
\* (GetBreakdown's LIMIT; its total and percentages are of the rows listed).
BreakdownAddsUp ==
    Answered("breakdown") =>
        LET b == answer.result
            q == answer.asked
            total == GetSummary(q.start, q.end).total
            listed == {b[i].value : i \in DOMAIN b}
            rest == {c \in Humans(q.start, q.end) : Parse(clicks[c].ua).value \notin listed}
        IN  /\ Cardinality(listed) = Len(b)
            /\ Sum(b, "clicks") + Cardinality(rest) = total
            /\ Len(b) < TopN => rest = {}
            /\ \A c \in rest, i \in DOMAIN b :
                 b[i].clicks >= Cardinality({d \in rest : clicks[d].ua = clicks[c].ua})

\* The three reports of a window agree with one another.
ReportsAddUp == SeriesAddsUp /\ BreakdownAddsUp

\* The unique visitors of a summary are at least the different IPs in it, and
\* at most the different addresses on each day it covers, and one for each
\* click stamped on one day and hashed on another (Hash's own time.Now).
UniquesExplained ==
    Answered("summary") =>
        LET q == answer.asked
            S == Humans(q.start, q.end)
            ips == {clicks[c].address[1] : c \in S}
            daily == {<<RawIP(clicks[c].address), Day(clicks[c].at)>> : c \in S}
            late == {c \in S : clicks[c].on # Day(clicks[c].at)}
        IN  /\ Cardinality(ips) <= answer.result.unique
            /\ answer.result.unique <= Cardinality(daily) + Cardinality(late)

\* The all-time total a client is told, one report after another, never goes
\* down, although each takes its end before it reads and the replica lags
\* (SummaryHandler).
TotalsOnlyGrow ==
    Answered("summary") /\ answer.asked.window = "all" => answer.result.total = shown

\* What a summary says of its window holds up, whenever it is asked for.
SummaryIsSound == UniquesExplained /\ TotalsOnlyGrow

=============================================================================
