--------------------------- MODULE ReportingProofs ---------------------------
(***************************************************************************)
(* What the API tells of the clicks that were stored: its reports, for any *)
(* number of clicks, buckets and windows, and its exports, for any number  *)
(* of pods and jobs.                                                       *)
(*                                                                         *)
(* The reports of a window add up because each click in it is in one       *)
(* bucket, between the first and the last of the series, and has one value *)
(* in a breakdown (SeriesOfWindow, BreakdownOfWindow; a Sum of such counts *)
(* is the size of a union, SumOfDisjoint).  A summary's unique visitors    *)
(* are explained because every stored hash is of the click's address and   *)
(* of the day of its Capture (HashesExplained), and totals grow because a  *)
(* replica goes on showing what it showed (RowsGrow) and no report's end   *)
(* is before an earlier one's (ShownIsStored).                             *)
(*                                                                         *)
(* A completed export is whole wherever it is downloaded, and a job in     *)
(* processing has one worker or was cut off.  Neither is inductive.  That  *)
(* a job has one worker follows from what its row says (Attended): whoever *)
(* holds a job finds it in processing, and only pending jobs are claimed.  *)
(* That its file is whole goes back to the worker's locals (FilesKept):    *)
(* the rows counted are the rows in the file, no other pod has a file of a *)
(* job that is being worked on, and the statement that publishes the file  *)
(* runs only if nothing was cancelled.                                     *)
(***************************************************************************)
EXTENDS ExportJobs, AnalyticsReports, FiniteSetTheorems, WellFoundedInduction, TLAPS

-----------------------------------------------------------------------------
(* Lemmas about numbers, sums and sets                                     *)

\* A set of numbers that is not empty has a smallest one: what fails somewhere
\* fails somewhere first.
LEMMA Smallest ==
    ASSUME NEW T, T \subseteq Nat, T # {}
    PROVE  \E m \in T : \A n \in T : m <= n
<1>1. PICK m \in T : \A n \in T : <<n, m>> \notin OpToRel(<, Nat)
    BY NatLessThanWellFounded, WFMin
<1>2. ASSUME NEW n \in T PROVE m <= n
    <2>1. ~(n < m) BY <1>1, <1>2 DEF OpToRel
    <2> QED BY <2>1
<1> QED BY <1>2

\* What \div rounds down to.
LEMMA DivBounds ==
    ASSUME NEW t \in Int, NEW b \in Nat \ {0}
    PROVE  /\ t \div b \in Int
           /\ (t \div b) * b <= t
           /\ t < (t \div b) * b + b
OBVIOUS

\* Sum is the one function that adds up a row at a time.
LEMMA SumIs ==
    ASSUME NEW s, NEW field, IsFiniteSet(DOMAIN s),
           NEW f, f[{}] = 0,
           \A t \in SUBSET DOMAIN s : \A x \in t : f[t] = s[x][field] + f[t \ {x}]
    PROVE  Sum(s, field) = f[DOMAIN s]
<1> DEFINE step(h) == [t \in SUBSET DOMAIN s |->
              IF t = {} THEN 0
              ELSE LET x == CHOOSE x \in t : TRUE IN s[x][field] + h[t \ {x}]]
           iter == CHOOSE h : h = step(h)
           g == [t \in SUBSET DOMAIN s |-> f[t]]
<1>1. ASSUME NEW t \in SUBSET DOMAIN s PROVE g[t] = step(g)[t]
    <2>1. CASE t = {} BY <2>1
    <2>2. CASE t # {}
        <3> DEFINE x == CHOOSE x \in t : TRUE
        <3>1. x \in t BY <2>2
        <3> HIDE DEF x
        <3>2. f[t] = s[x][field] + f[t \ {x}] BY <3>1
        <3>3. g[t \ {x}] = f[t \ {x}] OBVIOUS
        <3>4. step(g)[t] = s[x][field] + g[t \ {x}] BY <2>2 DEF x
        <3> QED BY <3>2, <3>3, <3>4
    <2> QED BY <2>1, <2>2
<1>2. g = step(g)
    <2> HIDE DEF g
    <2>1. g = [t \in SUBSET DOMAIN s |-> g[t]] BY DEF g
    <2>2. step(g) = [t \in SUBSET DOMAIN s |-> step(g)[t]] OBVIOUS
    <2> HIDE DEF step
    <2> QED BY <1>1, <2>1, <2>2
<1>3. iter = step(iter)
    <2> HIDE DEF step, g
    <2> QED BY <1>2
<1>4. Sum(s, field) = iter[DOMAIN s]
    BY DEF Sum, FoldSeq, FoldFunction, FoldFunctionOnSet, MapThenFoldSet
<1> HIDE DEF iter
<1> DEFINE wrong == {t \in SUBSET DOMAIN s : iter[t] # f[t]}
           sizes == {Cardinality(t) : t \in wrong}
<1>5. ASSUME NEW t \in SUBSET DOMAIN s PROVE IsFiniteSet(t) /\ Cardinality(t) \in Nat
    BY FS_Subset, FS_CardinalityType
<1>6. wrong = {}
    <2> SUFFICES ASSUME wrong # {} PROVE FALSE OBVIOUS
    <2>1. sizes \subseteq Nat /\ sizes # {} BY <1>5
    <2>2. PICK m \in sizes : \A n \in sizes : m <= n
        <3> HIDE DEF sizes
        <3> QED BY <2>1, Smallest
    <2>3. PICK t \in wrong : m = Cardinality(t) BY <2>2
    <2>4. step(iter)[t] = IF t = {} THEN 0
              ELSE LET x == CHOOSE x \in t : TRUE IN s[x][field] + iter[t \ {x}]
        BY <2>3
    <2>5. CASE t = {}
        <3>1. step(iter)[t] = 0 BY <2>4, <2>5
        <3> HIDE DEF step
        <3> QED BY <1>3, <2>3, <2>5, <3>1
    <2>6. CASE t # {}
        <3> DEFINE x == CHOOSE x \in t : TRUE
        <3>1. x \in t BY <2>6
        <3>2. step(iter)[t] = s[x][field] + iter[t \ {x}] BY <2>4, <2>6
        <3> HIDE DEF x, step
        <3>3. f[t] = s[x][field] + f[t \ {x}] BY <3>1
        <3>4. t \ {x} \in SUBSET DOMAIN s OBVIOUS
        <3>5. Cardinality(t \ {x}) = Cardinality(t) - 1 BY <1>5, <3>1, FS_RemoveElement
        <3>6. t \ {x} \notin wrong
            <4> HIDE DEF wrong
            <4>1. ASSUME t \ {x} \in wrong PROVE FALSE
                <5>1. Cardinality(t \ {x}) \in sizes BY <4>1
                <5>2. Cardinality(t) <= Cardinality(t \ {x}) BY <5>1, <2>2, <2>3
                <5>3. Cardinality(t) \in Nat BY <1>5, <2>3 DEF wrong
                <5> QED BY <3>5, <5>2, <5>3
            <4> QED BY <4>1
        <3>7. iter[t \ {x}] = f[t \ {x}] BY <3>4, <3>6
        <3>8. iter[t] = f[t] BY <1>3, <3>2, <3>3, <3>7
        <3> QED BY <2>3, <3>8
    <2> QED BY <2>5, <2>6
<1>7. iter[DOMAIN s] = f[DOMAIN s] BY <1>6
<1> QED BY <1>4, <1>7

\* A function takes no more values than it has arguments.
LEMMA ImageSize ==
    ASSUME NEW S, IsFiniteSet(S), NEW f
    PROVE  /\ IsFiniteSet({f[x] : x \in S})
           /\ Cardinality({f[x] : x \in S}) <= Cardinality(S)
<1> DEFINE T == {f[x] : x \in S}
           g == [x \in S |-> f[x]]
<1>1. g \in Surjection(S, T) BY DEF Surjection
<1> HIDE DEF g
<1>2. IsFiniteSet(T) /\ Cardinality(T) <= Cardinality(S)
    <2> HIDE DEF T
    <2> QED BY <1>1, FS_Surjection
<1> QED BY <1>2

\* Sets with no element in common have as many elements as their union.
LEMMA SumOfDisjoint ==
    ASSUME NEW s, NEW field, NEW F, IsFiniteSet(DOMAIN s),
           \A i \in DOMAIN s : IsFiniteSet(F[i]) /\ s[i][field] = Cardinality(F[i]),
           \A i, j \in DOMAIN s : i # j => F[i] \cap F[j] = {}
    PROVE  Sum(s, field) = Cardinality(UNION {F[i] : i \in DOMAIN s})
<1> DEFINE all(t) == UNION {F[i] : i \in t}
           f == [t \in SUBSET DOMAIN s |-> Cardinality(all(t))]
<1>1. ASSUME NEW t \in SUBSET DOMAIN s PROVE IsFiniteSet(all(t))
    <2>1. IsFiniteSet(t) BY FS_Subset
    <2>2. IsFiniteSet({F[i] : i \in t}) BY <2>1, ImageSize
    <2>3. \A S \in {F[i] : i \in t} : IsFiniteSet(S) OBVIOUS
    <2> QED BY <2>2, <2>3, FS_UNION
<1>2. f[{}] = 0
    <2>1. all({}) = {} OBVIOUS
    <2> QED BY <2>1, FS_EmptySet
<1>3. ASSUME NEW t \in SUBSET DOMAIN s, NEW x \in t
      PROVE  f[t] = s[x][field] + f[t \ {x}]
    <2>1. all(t) = F[x] \cup all(t \ {x}) OBVIOUS
    <2>2. F[x] \cap all(t \ {x}) = {} OBVIOUS
    <2>3. IsFiniteSet(F[x]) /\ IsFiniteSet(all(t \ {x})) BY <1>1
    <2>4. f[t] = Cardinality(all(t)) /\ f[t \ {x}] = Cardinality(all(t \ {x})) OBVIOUS
    <2> HIDE DEF all, f
    <2>5. Cardinality(all(t)) = Cardinality(F[x]) + Cardinality(all(t \ {x}))
              - Cardinality(F[x] \cap all(t \ {x}))
        BY <2>1, <2>3, FS_Union
    <2>6. Cardinality(F[x] \cap all(t \ {x})) = 0 BY <2>2, FS_EmptySet
    <2>7. Cardinality(F[x]) \in Nat /\ Cardinality(all(t \ {x})) \in Nat
        BY <2>3, FS_CardinalityType
    <2>8. Cardinality(all(t)) = Cardinality(F[x]) + Cardinality(all(t \ {x}))
        BY <2>5, <2>6, <2>7
    <2>9. s[x][field] = Cardinality(F[x]) OBVIOUS
    <2> QED BY <2>4, <2>8, <2>9
<1>4. f[DOMAIN s] = Cardinality(all(DOMAIN s)) OBVIOUS
<1> HIDE DEF f
<1>5. Sum(s, field) = f[DOMAIN s] BY <1>2, <1>3, SumIs
<1> QED BY <1>4, <1>5

\* Sets have no fewer elements, one by one, than their union.
LEMMA SumCovers ==
    ASSUME NEW s, NEW field, NEW F, IsFiniteSet(DOMAIN s),
           \A i \in DOMAIN s : IsFiniteSet(F[i]) /\ s[i][field] = Cardinality(F[i])
    PROVE  Cardinality(UNION {F[i] : i \in DOMAIN s}) <= Sum(s, field)
<1> DEFINE G == [i \in DOMAIN s |-> {i} \X F[i]]
           pairs == UNION {G[i] : i \in DOMAIN s}
           one == [p \in pairs |-> p[2]]
<1>1. ASSUME NEW i \in DOMAIN s
      PROVE  IsFiniteSet(G[i]) /\ s[i][field] = Cardinality(G[i])
    <2>1. G[i] = {i} \X F[i] OBVIOUS
    <2>2. IsFiniteSet({i}) /\ Cardinality({i}) = 1 BY FS_Singleton
    <2>3. IsFiniteSet({i} \X F[i])
          /\ Cardinality({i} \X F[i]) = Cardinality({i}) * Cardinality(F[i])
        BY <2>2, FS_Product
    <2>4. Cardinality(F[i]) \in Nat BY FS_CardinalityType
    <2> QED BY <2>1, <2>2, <2>3, <2>4
<1>2. \A i, j \in DOMAIN s : i # j => G[i] \cap G[j] = {} OBVIOUS
<1>3. Sum(s, field) = Cardinality(pairs)
    <2> HIDE DEF G
    <2> QED BY <1>1, <1>2, SumOfDisjoint
<1>4. IsFiniteSet(pairs)
    <2>1. IsFiniteSet({G[i] : i \in DOMAIN s})
        <3> HIDE DEF G
        <3> QED BY ImageSize
    <2>2. \A S \in {G[i] : i \in DOMAIN s} : IsFiniteSet(S)
        <3> HIDE DEF G
        <3> QED BY <1>1
    <2> HIDE DEF G
    <2> QED BY <2>1, <2>2, FS_UNION
<1>5. UNION {F[i] : i \in DOMAIN s} = {one[p] : p \in pairs}
    <2>1. ASSUME NEW i \in DOMAIN s, NEW x \in F[i] PROVE x \in {one[p] : p \in pairs}
        <3>1. <<i, x>> \in G[i] OBVIOUS
        <3>2. <<i, x>> \in pairs BY <3>1
        <3>3. one[<<i, x>>] = x BY <3>2
        <3> HIDE DEF one, pairs
        <3> QED BY <3>2, <3>3
    <2>2. ASSUME NEW p \in pairs PROVE one[p] \in UNION {F[i] : i \in DOMAIN s}
        <3>1. PICK i \in DOMAIN s : p \in {i} \X F[i] OBVIOUS
        <3> QED BY <3>1
    <2> HIDE DEF one, pairs
    <2> QED BY <2>1, <2>2
<1>6. Cardinality({one[p] : p \in pairs}) <= Cardinality(pairs)
    <2> HIDE DEF one, pairs
    <2> QED BY <1>4, ImageSize
<1> QED BY <1>3, <1>5, <1>6

-----------------------------------------------------------------------------
(* The inductive invariant of the reports                                  *)

Click == [at : Nat, address : {v.address : v \in Visits}, ua : {v.ua : v \in Visits},
          state : {"stamped", "captured", "stored"},
          hash : {Nothing} \cup {<<RawIP(v.address), d>> : v \in Visits, d \in Nat},
          on : Nat]

\* What is stored, and what is known of it.
ClicksKept ==
    /\ now \in 0 .. MaxNow
    /\ clicks \in Seq(Click) /\ Len(clicks) <= MaxClicks
    /\ \A c \in DOMAIN clicks : clicks[c].at <= now

\* The hash of a click that is not a bot's is of its address and the day of
\* its Capture.
HashesExplained ==
    \A c \in DOMAIN clicks :
        clicks[c].state # "stamped" /\ IsHuman(c) =>
            clicks[c].hash = <<RawIP(clicks[c].address), clicks[c].on>>

\* Rows are stored clicks.
LogKept ==
    /\ log \in Seq(Nat) /\ applied \in 0 .. Len(log)
    /\ \A i \in DOMAIN log :
        log[i] # Deletion => /\ log[i] \in DOMAIN clicks
                             /\ clicks[log[i]].state = "stored"

\* A report that is being made will not say less than was said before.
ShownIsStored ==
    /\ query \in (0 .. now) \cup {Nothing} /\ shown \in 0 .. MaxClicks
    /\ shown <= Cardinality(Humans(CreatedAt, IF query = Nothing THEN now ELSE query))

RowsKept == ClicksKept /\ HashesExplained /\ LogKept

\* No series has more points than its granularity allows.
SeriesBounded ==
    Answered("series") =>
        LET g == answer.asked.granularity
        IN  Len(answer.result) <= MaxSpan[g] \div BucketSize[g] + 1

ReportInv == RowsKept /\ ShownIsStored /\ SeriesBounded /\ ReportsAddUp /\ SummaryIsSound

-----------------------------------------------------------------------------
(* The rows of a window                                                    *)

\* What a replica shows is what the first entries of the log are.
LEMMA Prefix ==
    ASSUME NEW l \in Seq(Nat), NEW k \in 0 .. Len(l)
    PROVE  /\ k \in Nat /\ \A i \in 1 .. k : i \in DOMAIN l
           /\ ToSet(SubSeq(l, 1, k)) = {l[i] : i \in 1 .. k}
           /\ IsFiniteSet(ToSet(SubSeq(l, 1, k)))
<1>1. k \in Nat /\ Len(l) \in Nat /\ k <= Len(l) OBVIOUS
<1>2. \A i \in 1 .. k : i \in DOMAIN l BY <1>1
<1>3. DOMAIN SubSeq(l, 1, k) = 1 .. k /\ \A i \in 1 .. k : SubSeq(l, 1, k)[i] = l[i]
    BY <1>1, <1>2
<1>4. ToSet(SubSeq(l, 1, k)) = {l[i] : i \in 1 .. k}
    <2>1. ToSet(SubSeq(l, 1, k)) = {SubSeq(l, 1, k)[i] : i \in 1 .. k} BY <1>3 DEF ToSet
    <2> QED BY <2>1, <1>3
<1>5. IsFiniteSet({l[i] : i \in 1 .. k})
    <2>1. IsFiniteSet(1 .. k) BY <1>1, FS_Interval
    <2> QED BY <2>1, ImageSize
<1> QED BY <1>1, <1>2, <1>4, <1>5

\* The rows a report reads are stored clicks.
LEMMA ReplicaIsStored ==
    ASSUME RowsKept, NEW c \in Replica \ {Deletion}
    PROVE  c \in DOMAIN clicks /\ clicks[c].state = "stored"
<1>1. log \in Seq(Nat) /\ applied \in 0 .. Len(log) BY DEF RowsKept, LogKept
<1>2. PICK i \in 1 .. applied : c = log[i] BY <1>1, Prefix DEF Replica
<1>3. i \in DOMAIN log /\ log[i] # Deletion BY <1>1, <1>2, Prefix
<1> QED BY <1>2, <1>3 DEF RowsKept, LogKept

\* A click has an entry of its type.
LEMMA ClickFields ==
    ASSUME RowsKept, NEW c \in DOMAIN clicks
    PROVE  /\ c \in 1 .. Len(clicks) /\ Len(clicks) \in Nat /\ clicks[c] \in Click
           /\ clicks[c].at \in Nat
<1>1. clicks \in Seq(Click) BY DEF RowsKept, ClicksKept
<1>2. c \in 1 .. Len(clicks) /\ Len(clicks) \in Nat /\ clicks[c] \in Click
    <2> HIDE DEF Click
    <2> QED BY <1>1
<1>3. clicks[c].at \in Nat BY <1>2 DEF Click
<1> QED BY <1>2, <1>3

\* The rows of a window: finitely many, each in the window, each with the hash
\* that its Capture gave it.
LEMMA HumansFacts ==
    ASSUME RowsKept, NEW start, NEW end
    PROVE  /\ Humans(start, end) \subseteq DOMAIN clicks
           /\ IsFiniteSet(Humans(start, end))
           /\ Cardinality(Humans(start, end)) \in 0 .. MaxClicks
           /\ \A c \in Humans(start, end) :
                /\ clicks[c].hash = <<RawIP(clicks[c].address), clicks[c].on>>
                /\ start <= clicks[c].at /\ clicks[c].at < end
<1> DEFINE S == Humans(start, end)
<1>1. ASSUME NEW c \in S
      PROVE  /\ c \in Replica \ {Deletion} /\ IsHuman(c)
             /\ start <= clicks[c].at /\ clicks[c].at < end
    BY DEF Humans, InWindow
<1>2. S \subseteq DOMAIN clicks BY <1>1, ReplicaIsStored
<1>3. clicks \in Seq(Click) /\ Len(clicks) \in Nat /\ Len(clicks) <= MaxClicks
    <2>1. clicks \in Seq(Click) /\ Len(clicks) <= MaxClicks BY DEF RowsKept, ClicksKept
    <2> QED BY <2>1
<1>4. DOMAIN clicks = 1 .. Len(clicks) BY <1>3
<1>5. IsFiniteSet(DOMAIN clicks) /\ Cardinality(DOMAIN clicks) = Len(clicks)
    <2>1. Len(clicks) \in Int /\ 1 \in Int BY <1>3
    <2>2. IsFiniteSet(1 .. Len(clicks))
          /\ Cardinality(1 .. Len(clicks)) = IF 1 > Len(clicks) THEN 0 ELSE Len(clicks) - 1 + 1
        BY <2>1, FS_Interval
    <2> QED BY <2>2, <1>3, <1>4
<1>6. IsFiniteSet(S) /\ Cardinality(S) <= Len(clicks)
    <2> HIDE DEF S
    <2>1. S \in SUBSET DOMAIN clicks BY <1>2
    <2> QED BY <2>1, <1>5, FS_Subset
<1>7. Cardinality(S) \in Nat
    <2> HIDE DEF S
    <2> QED BY <1>6, FS_CardinalityType
<1>8. Cardinality(S) \in 0 .. MaxClicks
    <2> HIDE DEF S
    <2>1. MaxClicks \in Nat BY ReportConstants
    <2> QED BY <2>1, <1>3, <1>6, <1>7
<1>9. ASSUME NEW c \in S PROVE clicks[c].hash = <<RawIP(clicks[c].address), clicks[c].on>>
    <2>1. c \in DOMAIN clicks /\ clicks[c].state = "stored" /\ IsHuman(c)
        BY <1>1, ReplicaIsStored
    <2>2. clicks[c].state # "stamped" BY <2>1
    <2> QED BY <2>1, <2>2 DEF RowsKept, HashesExplained
<1> QED BY <1>1, <1>2, <1>6, <1>8, <1>9

-----------------------------------------------------------------------------
(* A summary is sound                                                      *)

\* The hash of an address has its IP in it.
LEMMA IpOfHash ==
    ASSUME RowsKept, NEW start, NEW end
    PROVE  Cardinality({clicks[c].address[1] : c \in Humans(start, end)})
               <= UniqueIPs(Humans(start, end))
<1> DEFINE S == Humans(start, end)
           hashes == {clicks[c].hash : c \in S}
           ips == {clicks[c].address[1] : c \in S}
           ip == [h \in hashes |-> IF HasProxy THEN h[1] ELSE h[1][1]]
<1>1. IsFiniteSet(S) BY HumansFacts
<1>2. IsFiniteSet(hashes)
    <2> DEFINE f == [c \in S |-> clicks[c].hash]
    <2>1. hashes = {f[c] : c \in S} OBVIOUS
    <2> HIDE DEF f, hashes, S
    <2> QED BY <1>1, <2>1, ImageSize
<1>3. ASSUME NEW c \in S
      PROVE  clicks[c].hash \in hashes /\ ip[clicks[c].hash] = clicks[c].address[1]
    <2>1. clicks[c].hash = <<RawIP(clicks[c].address), clicks[c].on>> BY HumansFacts
    <2>2. clicks[c].hash \in hashes OBVIOUS
    <2>3. clicks[c].hash[1] = RawIP(clicks[c].address) BY <2>1
    <2>4. ip[clicks[c].hash] = IF HasProxy THEN clicks[c].hash[1] ELSE clicks[c].hash[1][1]
        BY <2>2
    <2> QED BY <2>2, <2>3, <2>4 DEF RawIP
<1>4. ips = {ip[h] : h \in hashes}
    <2>1. ASSUME NEW c \in S PROVE clicks[c].address[1] \in {ip[h] : h \in hashes}
        <3> HIDE DEF ip, hashes
        <3> QED BY <1>3
    <2>2. ASSUME NEW h \in hashes PROVE ip[h] \in ips
        <3>1. PICK c \in S : h = clicks[c].hash OBVIOUS
        <3> HIDE DEF ip, hashes, S
        <3> QED BY <1>3, <3>1
    <2> HIDE DEF ip, hashes, S
    <2> QED BY <2>1, <2>2
<1>5. Cardinality({ip[h] : h \in hashes}) <= Cardinality(hashes)
    <2> HIDE DEF ip, hashes
    <2> QED BY <1>2, ImageSize
<1>6. UniqueIPs(S) = Cardinality(hashes) BY DEF UniqueIPs
<1> QED BY <1>4, <1>5, <1>6

\* A hash is of the day on which its click was stamped, or of a late click.
LEMMA HashOfDayOrLate ==
    ASSUME RowsKept, NEW start, NEW end
    PROVE  LET S == Humans(start, end)
               daily == {<<RawIP(clicks[c].address), Day(clicks[c].at)>> : c \in S}
               late == {c \in S : clicks[c].on # Day(clicks[c].at)}
           IN  UniqueIPs(S) <= Cardinality(daily) + Cardinality(late)
<1> DEFINE S == Humans(start, end)
           hashes == {clicks[c].hash : c \in S}
           day(c) == <<RawIP(clicks[c].address), Day(clicks[c].at)>>
           daily == {day(c) : c \in S}
           late == {c \in S : clicks[c].on # Day(clicks[c].at)}
           lateHashes == {clicks[c].hash : c \in late}
<1>1. IsFiniteSet(S) BY HumansFacts
<1>2. IsFiniteSet(late) /\ Cardinality(late) \in Nat
    <2>1. late \in SUBSET S OBVIOUS
    <2> HIDE DEF late, S
    <2> QED BY <1>1, <2>1, FS_Subset, FS_CardinalityType
<1>3. IsFiniteSet(daily) /\ Cardinality(daily) \in Nat
    <2> DEFINE f == [c \in S |-> day(c)]
    <2>1. daily = {f[c] : c \in S} OBVIOUS
    <2> HIDE DEF f, daily, S
    <2>2. IsFiniteSet(daily) BY <1>1, <2>1, ImageSize
    <2> QED BY <2>2, FS_CardinalityType
<1>4. IsFiniteSet(lateHashes) /\ Cardinality(lateHashes) <= Cardinality(late)
    <2> DEFINE f == [c \in late |-> clicks[c].hash]
    <2>1. lateHashes = {f[c] : c \in late} OBVIOUS
    <2> HIDE DEF f, late, lateHashes
    <2> QED BY <1>2, <2>1, ImageSize
<1>5. hashes \subseteq daily \cup lateHashes
    <2>1. ASSUME NEW c \in S, c \notin late PROVE clicks[c].hash \in daily
        <3>1. clicks[c].hash = <<RawIP(clicks[c].address), clicks[c].on>> BY HumansFacts
        <3>2. clicks[c].on = Day(clicks[c].at) BY <2>1
        <3>3. clicks[c].hash = day(c) BY <3>1, <3>2
        <3> QED BY <3>3
    <2>2. ASSUME NEW c \in late PROVE clicks[c].hash \in lateHashes OBVIOUS
    <2> HIDE DEF daily, lateHashes, late
    <2> QED BY <2>1, <2>2
<1> HIDE DEF hashes, daily, lateHashes, late, day
<1>6. IsFiniteSet(daily \cup lateHashes)
      /\ Cardinality(daily \cup lateHashes) =
           Cardinality(daily) + Cardinality(lateHashes) - Cardinality(daily \cap lateHashes)
    BY <1>3, <1>4, FS_Union
<1>7. Cardinality(hashes) <= Cardinality(daily \cup lateHashes) /\ IsFiniteSet(hashes)
    <2>1. hashes \in SUBSET (daily \cup lateHashes) BY <1>5
    <2> QED BY <1>6, <2>1, FS_Subset
<1>8. Cardinality(daily \cap lateHashes) \in Nat
    <2>1. daily \cap lateHashes \in SUBSET daily OBVIOUS
    <2>2. IsFiniteSet(daily \cap lateHashes) BY <1>3, <2>1, FS_Subset
    <2> QED BY <2>2, FS_CardinalityType
<1>9. Cardinality(hashes) \in Nat /\ Cardinality(lateHashes) \in Nat
    BY <1>4, <1>7, FS_CardinalityType
<1>10. Cardinality(hashes) <= Cardinality(daily) + Cardinality(late)
    BY <1>2, <1>3, <1>4, <1>6, <1>7, <1>8, <1>9
<1> QED BY <1>10 DEF UniqueIPs, hashes, daily, late, day

-----------------------------------------------------------------------------
(* The buckets of a series                                                 *)

\* Multiples of a bucket's length are at least that length apart.
LEMMA MultiplesInOrder ==
    ASSUME NEW b \in Nat \ {0}, NEW x \in Int, NEW y \in Int, x < y
    PROVE  x * b + b <= y * b
<1>1. PICK d \in Nat : y = x + 1 + d
    <2>1. y - x - 1 \in Nat /\ y = x + 1 + (y - x - 1) OBVIOUS
    <2> QED BY <2>1
<1>2. y * b = x * b + b + d * b BY <1>1
<1>3. d * b >= 0 OBVIOUS
<1>4. x * b \in Int /\ y * b \in Int /\ d * b \in Int OBVIOUS
<1> QED BY <1>2, <1>3, <1>4

\* Of two times the later is in the later bucket, or both are in one.
LEMMA DivIsMonotone ==
    ASSUME NEW b \in Nat \ {0}, NEW s \in Int, NEW t \in Int, s <= t
    PROVE  s \div b <= t \div b
<1> DEFINE x == s \div b
           y == t \div b
<1>1. x \in Int /\ x * b <= s /\ s < x * b + b BY DivBounds
<1>2. y \in Int /\ y * b <= t /\ t < y * b + b BY DivBounds
<1> HIDE DEF x, y
<1>3. ASSUME y < x PROVE FALSE
    <2>1. y * b + b <= x * b BY <1>1, <1>2, <1>3, MultiplesInOrder
    <2>2. x * b \in Int /\ y * b \in Int BY <1>1, <1>2
    <2> QED BY <1>1, <1>2, <2>1, <2>2
<1>4. x <= y BY <1>1, <1>2, <1>3
<1> QED BY <1>4 DEF x, y

\* The start of a bucket is in that bucket.
LEMMA DivOfMultiple ==
    ASSUME NEW b \in Nat \ {0}, NEW x \in Int
    PROVE  (x * b) \div b = x
<1> DEFINE y == (x * b) \div b
<1>1. x * b \in Int OBVIOUS
<1>2. y \in Int /\ y * b <= x * b /\ x * b < y * b + b BY <1>1, DivBounds
<1> HIDE DEF y
<1>3. ASSUME x < y PROVE FALSE
    <2>1. x * b + b <= y * b BY <1>2, <1>3, MultiplesInOrder
    <2> QED BY <1>1, <1>2, <2>1
<1>4. ASSUME y < x PROVE FALSE
    <2>1. y * b + b <= x * b BY <1>2, <1>4, MultiplesInOrder
    <2>2. y * b \in Int BY <1>2
    <2> QED BY <1>1, <1>2, <2>1, <2>2
<1>5. x = y BY <1>2, <1>3, <1>4
<1> QED BY <1>5 DEF y

\* The buckets of a window are those from the one its start is in to the one
\* its last microsecond is in.
StartBucket(start, g) == start \div BucketSize[g]
EndBucket(end, g) == (end - 1) \div BucketSize[g]

\* The longest window of a granularity is a whole number of its buckets.
LEMMA SizeOfBucket ==
    ASSUME NEW g \in Granularities
    PROVE  /\ BucketSize[g] \in Nat \ {0} /\ MaxSpan[g] \in Nat
           /\ MaxSpan[g] = (MaxSpan[g] \div BucketSize[g]) * BucketSize[g]
           /\ MaxSpan[g] \div BucketSize[g] \in Nat
<1>1. BucketSize[g] \in Nat \ {0} /\ MaxSpan[g] \in Nat /\ MaxSpan[g] % BucketSize[g] = 0
    BY ReportConstants
<1> QED BY <1>1

\* How many buckets generate_series makes, and how many at most.
LEMMA Buckets ==
    ASSUME NEW g \in Granularities, NEW start \in Int, NEW end \in Int
    PROVE  /\ StartBucket(start, g) \in Int /\ EndBucket(end, g) \in Int
           /\ BucketCount(start, end, g) =
                IF EndBucket(end, g) < StartBucket(start, g) THEN 0
                ELSE EndBucket(end, g) - StartBucket(start, g) + 1
           /\ BucketCount(start, end, g) \in Nat
           /\ ValidateWindowGranularity(start, end, g) =>
                BucketCount(start, end, g) <= MaxSpan[g] \div BucketSize[g] + 1
<1> DEFINE b == BucketSize[g]
           a == StartBucket(start, g)
           z == EndBucket(end, g)
           k == MaxSpan[g] \div b
<1>1. b \in Nat \ {0} BY SizeOfBucket
<1>2. a \in Int /\ a * b <= start /\ start < a * b + b
    <2> HIDE DEF b
    <2>1. a = start \div b BY DEF StartBucket, b
    <2> HIDE DEF a
    <2> QED BY <1>1, <2>1, DivBounds
<1>3. z \in Int /\ z * b <= end - 1
    <2> HIDE DEF b
    <2>1. z = (end - 1) \div b /\ end - 1 \in Int BY DEF EndBucket, b
    <2> HIDE DEF z
    <2> QED BY <1>1, <2>1, DivBounds
<1>4. Trunc(start, g) = a * b /\ LastBucket(end, g) = z * b
    BY DEF Trunc, LastBucket, StartBucket, EndBucket
<1>5. k \in Nat /\ MaxSpan[g] = k * b BY SizeOfBucket
<1>6. BucketCount(start, end, g) = IF z * b < a * b THEN 0 ELSE (z * b - a * b) \div b + 1
    BY <1>4 DEF BucketCount
<1>7. ValidateWindowGranularity(start, end, g) <=> end - start <= k * b
    BY <1>5 DEF ValidateWindowGranularity
<1> DEFINE n == BucketCount(start, end, g)
<1> HIDE DEF b, a, z, k, n
<1>8. n = IF z * b < a * b THEN 0 ELSE (z * b - a * b) \div b + 1 BY <1>6 DEF n
<1>9. a * b \in Int /\ z * b \in Int /\ k * b \in Int BY <1>1, <1>2, <1>3, <1>5
<1>10. CASE z < a
    <2>1. z * b + b <= a * b BY <1>1, <1>2, <1>3, <1>10, MultiplesInOrder
    <2>2. n = 0 BY <2>1, <1>1, <1>8, <1>9
    <2>3. n <= k + 1 /\ n \in Nat BY <2>2, <1>5
    <2> QED BY <1>2, <1>3, <1>10, <2>2, <2>3 DEF n, a, z, k, b
<1>11. CASE a <= z
    <2>1. z * b - a * b = (z - a) * b BY <1>1, <1>2, <1>3
    <2>2. z - a \in Nat BY <1>2, <1>3, <1>11
    <2>3. (z - a) * b >= 0 BY <1>1, <2>2
    <2>4. ~(z * b < a * b) BY <1>9, <2>1, <2>3
    <2>5. ((z - a) * b) \div b = z - a BY <1>1, <2>2, DivOfMultiple
    <2>6. n = z - a + 1 BY <1>8, <2>1, <2>4, <2>5
    <2>7. ASSUME end - start <= k * b PROVE n <= k + 1
        <3>1. (z - a) * b < k * b + b
            BY <1>1, <1>2, <1>3, <1>9, <2>1, <2>7
        <3>2. ASSUME k < z - a PROVE FALSE
            <4>1. k * b + b <= (z - a) * b BY <1>1, <1>5, <2>2, <3>2, MultiplesInOrder
            <4>2. (z - a) * b \in Int BY <1>1, <2>2
            <4> QED BY <1>1, <1>9, <3>1, <4>1, <4>2
        <3>3. z - a <= k BY <1>5, <2>2, <3>2
        <3> QED BY <1>5, <2>2, <2>6, <3>3
    <2>8. n \in Nat BY <2>2, <2>6
    <2>9. ~(z < a) BY <1>2, <1>3, <1>11
    <2> QED BY <1>2, <1>3, <1>7, <2>6, <2>7, <2>8, <2>9 DEF n, a, z, k, b
<1> QED BY <1>2, <1>3, <1>10, <1>11

\* The bucket a click of the window is in is one of the series'.
LEMMA BucketOfClick ==
    ASSUME RowsKept, NEW g \in Granularities, NEW start \in Int, NEW end \in Int,
           NEW c \in Humans(start, end)
    PROVE  \E i \in 1 .. BucketCount(start, end, g) :
               Trunc(clicks[c].at, g) = Trunc(start, g) + (i - 1) * BucketSize[g]
<1> DEFINE b == BucketSize[g]
           a == StartBucket(start, g)
           z == EndBucket(end, g)
           x == clicks[c].at \div b
<1>1. b \in Nat \ {0} BY SizeOfBucket
<1>2. clicks[c].at \in Nat /\ start <= clicks[c].at /\ clicks[c].at <= end - 1
    <2>1. c \in DOMAIN clicks /\ start <= clicks[c].at /\ clicks[c].at < end BY HumansFacts
    <2>2. clicks[c].at \in Nat BY <2>1, ClickFields
    <2> QED BY <2>1, <2>2
<1>3. a \in Int /\ z \in Int BY Buckets
<1>4. x \in Int
    <2> HIDE DEF b
    <2>1. clicks[c].at \in Int BY <1>2
    <2>2. clicks[c].at \div b \in Int BY <1>1, <2>1, DivBounds, Zenon
    <2> QED BY <2>2
<1>5. a <= x /\ x <= z
    <2>1. a = start \div b /\ z = (end - 1) \div b BY DEF StartBucket, EndBucket
    <2> HIDE DEF a, z, b
    <2>2. start \div b <= clicks[c].at \div b BY <1>1, <1>2, DivIsMonotone
    <2>3. end - 1 \in Int /\ clicks[c].at \in Int BY <1>2
    <2>4. clicks[c].at \div b <= (end - 1) \div b BY <1>1, <1>2, <2>3, DivIsMonotone
    <2> QED BY <2>1, <2>2, <2>4
<1>6. BucketCount(start, end, g) = IF z < a THEN 0 ELSE z - a + 1 BY Buckets
<1>7. Trunc(start, g) = a * b /\ Trunc(clicks[c].at, g) = x * b BY DEF Trunc, StartBucket
<1> HIDE DEF a, b, x, z
<1>8. x - a + 1 \in 1 .. BucketCount(start, end, g) BY <1>3, <1>4, <1>5, <1>6
<1>9. x * b = a * b + ((x - a + 1) - 1) * b BY <1>1, <1>3, <1>4
<1> QED BY <1>7, <1>8, <1>9 DEF b

\* Two buckets of a series are not one.
LEMMA BucketsDiffer ==
    ASSUME NEW t \in Int, NEW b \in Nat \ {0}, NEW i \in Nat, NEW j \in Nat, i # j
    PROVE  t + (i - 1) * b # t + (j - 1) * b
<1>1. i - 1 \in Int /\ j - 1 \in Int OBVIOUS
<1>2. (i - 1) * b \in Int /\ (j - 1) * b \in Int OBVIOUS
<1>3. CASE i < j
    <2>1. (i - 1) * b + b <= (j - 1) * b BY <1>1, <1>3, MultiplesInOrder
    <2> QED BY <1>2, <2>1
<1>4. CASE j < i
    <2>1. (j - 1) * b + b <= (i - 1) * b BY <1>1, <1>4, MultiplesInOrder
    <2> QED BY <1>2, <2>1
<1> QED BY <1>3, <1>4

\* The clicks of a series' points add up to the summary's total, and their
\* unique visitors cover the summary's (GetTimeSeries, GetSummary).
LEMMA SeriesOfWindow ==
    ASSUME RowsKept, NEW g \in Granularities, NEW start \in Int, NEW end \in Int
    PROVE  LET p == GetTimeSeries(start, end, g)
               s == GetSummary(start, end)
           IN  /\ Sum(p, "clicks") = s.total
               /\ Sum(p, "unique") >= s.unique
               /\ \A i \in DOMAIN p : p[i].unique <= s.unique
<1> DEFINE p == GetTimeSeries(start, end, g)
           S == Humans(start, end)
           n == BucketCount(start, end, g)
           bucket(i) == Trunc(start, g) + (i - 1) * BucketSize[g]
           In(i) == {c \in S : Trunc(clicks[c].at, g) = bucket(i)}
           F == [i \in 1 .. n |-> In(i)]
           U(i) == {clicks[c].hash : c \in In(i)}
           G == [i \in 1 .. n |-> U(i)]
           hashes == {clicks[c].hash : c \in S}
<1>1. n \in Nat BY Buckets
<1>2. DOMAIN p = 1 .. n
      /\ \A i \in 1 .. n : p[i].clicks = Cardinality(In(i)) /\ p[i].unique = Cardinality(U(i))
    BY DEF GetTimeSeries, UniqueIPs
<1>3. IsFiniteSet(DOMAIN p)
    <2>1. IsFiniteSet(1 .. n) BY <1>1, FS_Interval
    <2> QED BY <1>2, <2>1
<1>4. IsFiniteSet(S) BY HumansFacts
<1>5. IsFiniteSet(hashes)
    <2> DEFINE f == [c \in S |-> clicks[c].hash]
    <2>1. hashes = {f[c] : c \in S} OBVIOUS
    <2> HIDE DEF f, hashes, S
    <2> QED BY <1>4, <2>1, ImageSize
<1>6. ASSUME NEW i \in 1 .. n
      PROVE  /\ F[i] = In(i) /\ G[i] = U(i)
             /\ IsFiniteSet(In(i)) /\ IsFiniteSet(U(i))
             /\ Cardinality(U(i)) <= Cardinality(hashes)
    <2>1. In(i) \in SUBSET S OBVIOUS
    <2>2. U(i) \in SUBSET hashes OBVIOUS
    <2>3. F[i] = In(i) /\ G[i] = U(i) OBVIOUS
    <2> HIDE DEF In, U, hashes, S, F, G
    <2>4. IsFiniteSet(In(i)) BY <1>4, <2>1, FS_Subset
    <2>5. IsFiniteSet(U(i)) /\ Cardinality(U(i)) <= Cardinality(hashes)
        BY <1>5, <2>2, FS_Subset
    <2> QED BY <2>3, <2>4, <2>5
<1>7. S = UNION {F[i] : i \in DOMAIN p}
    <2>1. ASSUME NEW c \in S PROVE \E i \in 1 .. n : c \in F[i]
        <3>1. PICK i \in 1 .. n : Trunc(clicks[c].at, g) = bucket(i) BY BucketOfClick
        <3>2. c \in In(i) BY <3>1
        <3> QED BY <1>6, <3>2
    <2>2. ASSUME NEW i \in 1 .. n PROVE F[i] \subseteq S BY <1>6
    <2> HIDE DEF F, S, n, p
    <2> QED BY <1>2, <2>1, <2>2
<1>8. hashes = UNION {G[i] : i \in DOMAIN p}
    <2>1. ASSUME NEW c \in S PROVE \E i \in 1 .. n : clicks[c].hash \in G[i]
        <3>1. PICK i \in 1 .. n : Trunc(clicks[c].at, g) = bucket(i) BY BucketOfClick
        <3>2. c \in In(i) BY <3>1
        <3>3. clicks[c].hash \in U(i) BY <3>2
        <3> QED BY <1>6, <3>3
    <2>2. ASSUME NEW i \in 1 .. n PROVE G[i] \subseteq hashes BY <1>6
    <2> HIDE DEF G, S, n, p, U, In
    <2> QED BY <1>2, <2>1, <2>2
<1>9. ASSUME NEW i \in 1 .. n, NEW j \in 1 .. n, i # j PROVE F[i] \cap F[j] = {}
    <2>1. BucketSize[g] \in Nat \ {0} BY SizeOfBucket
    <2>2. Trunc(start, g) \in Int
        <3>1. Trunc(start, g) = StartBucket(start, g) * BucketSize[g] BY DEF Trunc, StartBucket
        <3>2. StartBucket(start, g) \in Int BY Buckets
        <3> QED BY <2>1, <3>1, <3>2
    <2>3. i \in Nat /\ j \in Nat BY <1>1
    <2>4. bucket(i) # bucket(j) BY <1>9, <2>1, <2>2, <2>3, BucketsDiffer
    <2>5. In(i) \cap In(j) = {}
        <3> HIDE DEF bucket
        <3> QED BY <2>4
    <2> QED BY <1>6, <2>5
<1> HIDE DEF p, S, n, In, F, U, G, hashes, bucket
<1>10. Sum(p, "clicks") = Cardinality(S)
    <2>1. \A i \in DOMAIN p : IsFiniteSet(F[i]) /\ p[i]["clicks"] = Cardinality(F[i])
        BY <1>2, <1>6
    <2>2. \A i, j \in DOMAIN p : i # j => F[i] \cap F[j] = {} BY <1>2, <1>9
    <2> QED BY <1>3, <1>7, <2>1, <2>2, SumOfDisjoint
<1>11. Cardinality(hashes) <= Sum(p, "unique")
    <2>1. \A i \in DOMAIN p : IsFiniteSet(G[i]) /\ p[i]["unique"] = Cardinality(G[i])
        BY <1>2, <1>6
    <2> QED BY <1>3, <1>8, <2>1, SumCovers
<1>12. GetSummary(start, end).total = Cardinality(S)
       /\ GetSummary(start, end).unique = Cardinality(hashes)
    BY DEF GetSummary, UniqueIPs, Humans, S, hashes
<1>13. \A i \in DOMAIN p : p[i].unique <= Cardinality(hashes) BY <1>2, <1>6
<1>14. Sum(p, "unique") >= Cardinality(hashes)
    BY <1>11
<1> QED BY <1>10, <1>12, <1>13, <1>14 DEF p

\* Every bucket of a series is touched by its window, in order.
LEMMA BucketsInWindow ==
    ASSUME NEW g \in Granularities, NEW start \in Int, NEW end \in Int,
           NEW i \in DOMAIN GetTimeSeries(start, end, g)
    PROVE  LET p == GetTimeSeries(start, end, g)
               size == BucketSize[g]
           IN  /\ p[i].bucket < end /\ start < p[i].bucket + size
               /\ i > 1 => p[i].bucket = p[i - 1].bucket + size
<1> DEFINE p == GetTimeSeries(start, end, g)
           n == BucketCount(start, end, g)
           b == BucketSize[g]
           a == StartBucket(start, g)
           z == EndBucket(end, g)
<1>1. b \in Nat \ {0} BY SizeOfBucket
<1>2. a \in Int /\ a * b <= start /\ start < a * b + b
    <2> HIDE DEF b
    <2>1. a = start \div b BY DEF StartBucket, b
    <2> HIDE DEF a
    <2> QED BY <1>1, <2>1, DivBounds
<1>3. z \in Int /\ z * b <= end - 1
    <2> HIDE DEF b
    <2>1. z = (end - 1) \div b /\ end - 1 \in Int BY DEF EndBucket, b
    <2> HIDE DEF z
    <2> QED BY <1>1, <2>1, DivBounds
<1>4. n = (IF z < a THEN 0 ELSE z - a + 1) /\ n \in Nat BY Buckets
<1>5. DOMAIN p = 1 .. n /\ \A j \in 1 .. n : p[j].bucket = a * b + (j - 1) * b
    <2>1. Trunc(start, g) = a * b BY DEF Trunc, StartBucket
    <2> QED BY <2>1 DEF GetTimeSeries
<1>6. i \in 1 .. n BY <1>5
<1>7. p[i].bucket = a * b + (i - 1) * b BY <1>5, <1>6
<1>8. i > 1 => i - 1 \in 1 .. n BY <1>4, <1>6
<1>9. i > 1 => p[i - 1].bucket = a * b + (i - 2) * b
    <2> SUFFICES ASSUME i > 1 PROVE p[i - 1].bucket = a * b + (i - 2) * b OBVIOUS
    <2>1. p[i - 1].bucket = a * b + ((i - 1) - 1) * b BY <1>5, <1>8
    <2>2. (i - 1) - 1 = i - 2 BY <1>4, <1>6
    <2> QED BY <2>1, <2>2
<1> DEFINE x == a + i - 1
<1>10. x \in Int /\ a <= x /\ x <= z BY <1>2, <1>3, <1>4, <1>6
<1> HIDE DEF p, n, b, a, z
<1>11. i \in Int /\ i >= 1 BY <1>4, <1>6
<1>12. p[i].bucket = x * b BY <1>1, <1>2, <1>7, <1>11
<1> HIDE DEF x
<1>13. a * b \in Int /\ z * b \in Int /\ x * b \in Int BY <1>1, <1>2, <1>3, <1>10
<1>14. x * b <= z * b
    <2>1. CASE x = z BY <1>13, <2>1
    <2>2. CASE x < z
        <3>1. x * b + b <= z * b BY <1>1, <1>3, <1>10, <2>2, MultiplesInOrder
        <3> QED BY <1>1, <1>13, <3>1
    <2> QED BY <1>3, <1>10, <2>1, <2>2
<1>15. a * b <= x * b
    <2>1. CASE x = a BY <1>13, <2>1
    <2>2. CASE a < x
        <3>1. a * b + b <= x * b BY <1>1, <1>2, <1>10, <2>2, MultiplesInOrder
        <3> QED BY <1>1, <1>13, <3>1
    <2> QED BY <1>2, <1>10, <2>1, <2>2
<1>16. p[i].bucket < end /\ start < p[i].bucket + b
    BY <1>1, <1>2, <1>3, <1>12, <1>13, <1>14, <1>15
<1>17. i > 1 => p[i].bucket = p[i - 1].bucket + b
    BY <1>1, <1>2, <1>7, <1>9, <1>11
<1> QED BY <1>16, <1>17 DEF p, b

-----------------------------------------------------------------------------
(* The rows of a breakdown                                                 *)

\* The lesser of two numbers.
LEMMA MinOfTwo ==
    ASSUME NEW a \in Int, NEW b \in Int
    PROVE  /\ Min({a, b}) \in {a, b} /\ Min({a, b}) <= a /\ Min({a, b}) <= b
<1>1. \E x \in {a, b} : \A y \in {a, b} : x =< y
    <2>1. CASE a <= b BY <2>1
    <2>2. CASE b <= a BY <2>2
    <2> QED BY <2>1, <2>2
<1> DEFINE least(x) == \A y \in {a, b} : x =< y
           m == CHOOSE x \in {a, b} : least(x)
<1>2. m \in {a, b} /\ least(m)
    <2>1. \E x \in {a, b} : least(x) BY <1>1
    <2> HIDE DEF least
    <2> QED BY <2>1
<1>3. Min({a, b}) = m BY DEF Min
<1> HIDE DEF m
<1> QED BY <1>2, <1>3

\* The greater of two numbers.
LEMMA MaxOfTwo ==
    ASSUME NEW a \in Int, NEW b \in Int, a <= b
    PROVE  Max({a, b}) = b
<1> DEFINE most(x) == \A y \in {a, b} : x >= y
           m == CHOOSE x \in {a, b} : most(x)
<1>1. most(b) OBVIOUS
<1>2. m \in {a, b} /\ most(m)
    <2> HIDE DEF most
    <2> QED BY <1>1
<1>3. Max({a, b}) = m BY DEF Max
<1> HIDE DEF m
<1>4. m >= b BY <1>2
<1>5. m = b BY <1>2, <1>4
<1> QED BY <1>3, <1>5

\* What does not grow from one place to the next does not grow at all.
LEMMA Descending ==
    ASSUME NEW N \in Nat, NEW v \in [1 .. N -> Nat],
           \A i \in 1 .. N - 1 : v[i] >= v[i + 1],
           NEW i \in 1 .. N, NEW j \in 1 .. N, i <= j
    PROVE  v[i] >= v[j]
<1> DEFINE wrong == {k \in 1 .. N : i <= k /\ v[i] < v[k]}
<1>1. wrong = {}
    <2> SUFFICES ASSUME wrong # {} PROVE FALSE OBVIOUS
    <2>1. wrong \subseteq Nat OBVIOUS
    <2>2. PICK m \in wrong : \A k \in wrong : m <= k
        <3> HIDE DEF wrong
        <3> QED BY <2>1, Smallest
    <2>3. m \in 1 .. N /\ i <= m /\ v[i] < v[m] OBVIOUS
    <2>4. v[i] \in Nat /\ v[m] \in Nat BY <2>3
    <2>5. i # m BY <2>3, <2>4
    <2>6. m - 1 \in 1 .. N - 1 /\ i <= m - 1 /\ m - 1 \in 1 .. N /\ (m - 1) + 1 = m
        BY <2>3, <2>5
    <2>7. v[m - 1] >= v[m] BY <2>6
    <2>8. v[m - 1] \in Nat BY <2>6
    <2>9. v[i] < v[m - 1] BY <2>3, <2>4, <2>7, <2>8
    <2>10. m - 1 \in wrong BY <2>6, <2>9
    <2>11. m <= m - 1 BY <2>2, <2>10
    <2> QED BY <2>3, <2>11
<1>2. v[i] \in Nat /\ v[j] \in Nat OBVIOUS
<1>3. ~(v[i] < v[j]) BY <1>1
<1> QED BY <1>2, <1>3

\* As many different values as a set has are all of them.
LEMMA AllValuesListed ==
    ASSUME NEW V, IsFiniteSet(V), NEW s \in SetToSeqs(V)
    PROVE  /\ Cardinality(V) \in Nat
           /\ s \in [1 .. Cardinality(V) -> V]
           /\ \A i, j \in 1 .. Cardinality(V) : i # j => s[i] # s[j]
           /\ V = {s[i] : i \in 1 .. Cardinality(V)}
<1> DEFINE N == Cardinality(V)
<1>1. N \in Nat BY FS_CardinalityType
<1>2. s \in [1 .. N -> V] /\ \A i, j \in 1 .. N : i # j => s[i] # s[j] BY DEF SetToSeqs
<1> HIDE DEF N
<1>3. s \in Injection(1 .. N, V) BY <1>2 DEF Injection, IsInjective
<1>4. Cardinality(1 .. N) = N
    <2>1. Cardinality(1 .. N) = IF 1 > N THEN 0 ELSE N - 1 + 1 BY <1>1, FS_Interval
    <2> QED BY <1>1, <2>1
<1>5. s \in Surjection(1 .. N, V)
    <2>1. Cardinality(1 .. N) = Cardinality(V) BY <1>4 DEF N
    <2> QED BY <1>3, <2>1, FS_Injection
<1>6. V = {s[i] : i \in 1 .. N} BY <1>5 DEF Surjection
<1> QED BY <1>1, <1>2, <1>6 DEF N

\* What is said of a breakdown is true of every answer that ties allow
\* (GetBreakdown).
LEMMA BreakdownOfWindow ==
    ASSUME RowsKept, NEW start, NEW end, NEW b \in GetBreakdown(start, end)
    PROVE  LET total == GetSummary(start, end).total
               listed == {b[i].value : i \in DOMAIN b}
               rest == {c \in Humans(start, end) : Parse(clicks[c].ua).value \notin listed}
           IN  /\ Cardinality(listed) = Len(b)
               /\ Sum(b, "clicks") + Cardinality(rest) = total
               /\ Len(b) < TopN => rest = {}
               /\ \A c \in rest, i \in DOMAIN b :
                    b[i].clicks >= Cardinality({d \in rest : clicks[d].ua = clicks[c].ua})
<1> DEFINE S == Humans(start, end)
           V == {Parse(clicks[c].ua).value : c \in S}
           Of(v) == {c \in S : Parse(clicks[c].ua).value = v}
           n(v) == Cardinality(Of(v))
<1>1. PICK s \in SetToSeqs(V) :
        /\ \A i \in 1 .. Len(s) - 1 : n(s[i]) >= n(s[i + 1])
        /\ b = [i \in 1 .. Min({TopN, Len(s)}) |-> [value |-> s[i], clicks |-> n(s[i])]]
    BY DEF GetBreakdown
<1>2. IsFiniteSet(S) BY HumansFacts
<1>3. IsFiniteSet(V)
    <2> DEFINE f == [c \in S |-> Parse(clicks[c].ua).value]
    <2>1. V = {f[c] : c \in S} OBVIOUS
    <2> HIDE DEF f, V, S
    <2> QED BY <1>2, <2>1, ImageSize
<1>4. ASSUME NEW v PROVE IsFiniteSet(Of(v)) /\ n(v) \in Nat
    <2>1. Of(v) \in SUBSET S OBVIOUS
    <2> HIDE DEF Of, S
    <2>2. IsFiniteSet(Of(v)) BY <1>2, <2>1, FS_Subset
    <2> QED BY <2>2, FS_CardinalityType
<1> DEFINE N == Cardinality(V)
           m == Min({TopN, N})
<1>5. /\ N \in Nat /\ s \in [1 .. N -> V]
      /\ \A i, j \in 1 .. N : i # j => s[i] # s[j]
      /\ V = {s[i] : i \in 1 .. N}
    <2> HIDE DEF V
    <2> QED BY <1>1, <1>3, AllValuesListed
<1>6. Len(s) = N
    <2> HIDE DEF V, N
    <2>1. s \in Seq(V) BY <1>5
    <2>2. DOMAIN s = 1 .. N BY <1>5
    <2> QED BY <1>5, <2>1, <2>2
<1>7. m \in Nat /\ m <= N /\ m <= TopN /\ m \in {TopN, N}
    <2>1. TopN \in Nat /\ TopN \in Int BY ReportConstants
    <2>2. N \in Nat /\ N \in Int BY <1>5
    <2> HIDE DEF N
    <2>3. m \in {TopN, N} /\ m <= TopN /\ m <= N BY <2>1, <2>2, MinOfTwo
    <2> HIDE DEF m
    <2> QED BY <2>1, <2>2, <2>3
<1>8. b = [i \in 1 .. m |-> [value |-> s[i], clicks |-> n(s[i])]] BY <1>1, <1>6
<1> HIDE DEF m, N, n, V
<1>9. DOMAIN b = 1 .. m /\ \A i \in 1 .. m : b[i].value = s[i] /\ b[i].clicks = n(s[i])
    BY <1>8
<1>10. Len(b) = m BY <1>7, <1>8
<1>11. \A i \in 1 .. m : i \in 1 .. N BY <1>5, <1>7
<1> DEFINE listed == {b[i].value : i \in DOMAIN b}
           rest == {c \in S : Parse(clicks[c].ua).value \notin listed}
<1>12. listed = {s[i] : i \in 1 .. m} BY <1>9
<1>13. Cardinality(listed) = m
    <2> DEFINE f == [i \in 1 .. m |-> s[i]]
    <2>1. f \in Surjection(1 .. m, listed)
        <3> HIDE DEF listed
        <3> QED BY <1>12 DEF Surjection
    <2>2. f \in Injection(1 .. m, listed)
        <3>1. \A i, j \in 1 .. m : f[i] = f[j] => i = j BY <1>5, <1>11
        <3>2. f \in [1 .. m -> listed]
            <4> HIDE DEF listed
            <4> QED BY <1>12
        <3>3. DOMAIN f = 1 .. m OBVIOUS
        <3> HIDE DEF f, listed
        <3> QED BY <3>1, <3>2, <3>3 DEF Injection, IsInjective
    <2>3. IsFiniteSet(1 .. m) /\ Cardinality(1 .. m) = m
        <3>1. IsFiniteSet(1 .. m) /\ Cardinality(1 .. m) = IF 1 > m THEN 0 ELSE m - 1 + 1
            BY <1>7, FS_Interval
        <3> QED BY <1>7, <3>1
    <2> HIDE DEF f, listed
    <2> QED BY <2>1, <2>2, <2>3, FS_Surjection
<1> DEFINE F == [i \in 1 .. m |-> Of(s[i])]
           all == UNION {F[i] : i \in DOMAIN b}
<1>14. Sum(b, "clicks") = Cardinality(all)
    <2>1. IsFiniteSet(DOMAIN b)
        <3>1. IsFiniteSet(1 .. m) BY <1>7, FS_Interval
        <3> QED BY <1>9, <3>1
    <2>2. ASSUME NEW i \in DOMAIN b
          PROVE  IsFiniteSet(F[i]) /\ b[i]["clicks"] = Cardinality(F[i])
        <3>1. i \in 1 .. m BY <1>9
        <3>2. F[i] = Of(s[i]) BY <3>1
        <3>3. IsFiniteSet(Of(s[i])) BY <1>4
        <3>4. b[i]["clicks"] = n(s[i]) BY <1>9, <3>1
        <3> QED BY <3>2, <3>3, <3>4 DEF n
    <2>3. ASSUME NEW i \in DOMAIN b, NEW j \in DOMAIN b, i # j PROVE F[i] \cap F[j] = {}
        <3>1. i \in 1 .. m /\ j \in 1 .. m BY <1>9
        <3>2. s[i] # s[j] BY <1>5, <1>11, <2>3, <3>1
        <3>3. F[i] = Of(s[i]) /\ F[j] = Of(s[j]) BY <3>1
        <3> HIDE DEF F
        <3> QED BY <3>2, <3>3
    <2> HIDE DEF F
    <2> QED BY <2>1, <2>2, <2>3, SumOfDisjoint
<1>15. all = S \ rest
    <2>1. ASSUME NEW c \in all PROVE c \in S \ rest
        <3>1. PICK i \in DOMAIN b : c \in F[i] OBVIOUS
        <3>2. i \in 1 .. m BY <1>9
        <3>3. c \in S /\ Parse(clicks[c].ua).value = s[i] BY <3>1, <3>2
        <3>4. s[i] \in listed
            <4> HIDE DEF listed
            <4> QED BY <1>12, <3>2
        <3> QED BY <3>3, <3>4
    <2>2. ASSUME NEW c \in S \ rest PROVE c \in all
        <3>1. Parse(clicks[c].ua).value \in listed OBVIOUS
        <3>2. PICK i \in 1 .. m : Parse(clicks[c].ua).value = s[i]
            <4> HIDE DEF listed
            <4> QED BY <1>12, <3>1
        <3>3. c \in F[i] BY <3>2
        <3>4. i \in DOMAIN b BY <1>9
        <3> HIDE DEF F
        <3> QED BY <3>3, <3>4
    <2> HIDE DEF all, rest
    <2> QED BY <2>1, <2>2
<1>16. Cardinality(all) + Cardinality(rest) = Cardinality(S)
    <2>1. rest \in SUBSET S /\ S \cap rest = rest OBVIOUS
    <2> HIDE DEF all, rest, S
    <2>2. IsFiniteSet(rest) BY <1>2, <2>1, FS_Subset
    <2>3. Cardinality(S \ rest) = Cardinality(S) - Cardinality(S \cap rest)
        BY <1>2, FS_Difference
    <2>4. Cardinality(S) \in Nat /\ Cardinality(rest) \in Nat BY <1>2, <2>2, FS_CardinalityType
    <2>5. Cardinality(all) = Cardinality(S) - Cardinality(rest) BY <1>15, <2>1, <2>3
    <2> QED BY <2>4, <2>5
<1>17. ASSUME m < TopN PROVE rest = {}
    <2>1. TopN \in Nat BY ReportConstants
    <2>2. m = N BY <1>5, <1>7, <1>17, <2>1
    <2>3. listed = V
        <3> HIDE DEF listed
        <3> QED BY <1>5, <1>12, <2>2
    <2> HIDE DEF listed
    <2> QED BY <2>3 DEF V
<1>18. ASSUME NEW c \in rest, NEW i \in DOMAIN b
       PROVE  b[i].clicks >= Cardinality({d \in rest : clicks[d].ua = clicks[c].ua})
    <2> DEFINE others == {d \in rest : clicks[d].ua = clicks[c].ua}
               v == [k \in 1 .. N |-> n(s[k])]
    <2>1. Parse(clicks[c].ua).value \in V /\ Parse(clicks[c].ua).value \notin listed
        BY DEF V
    <2>2. PICK j \in 1 .. N : Parse(clicks[c].ua).value = s[j] BY <1>5, <2>1
    <2>3. i \in 1 .. m BY <1>9
    <2>4. i <= j
        <3>1. j \notin 1 .. m
            <4> HIDE DEF listed
            <4> QED BY <1>12, <2>1, <2>2
        <3> QED BY <1>5, <1>7, <2>3, <3>1
    <2>5. v \in [1 .. N -> Nat]
        <3>1. \A k \in 1 .. N : n(s[k]) \in Nat BY <1>4
        <3> QED BY <3>1
    <2>6. ASSUME NEW k \in 1 .. N - 1 PROVE v[k] >= v[k + 1]
        <3>1. k \in 1 .. N /\ k + 1 \in 1 .. N BY <1>5
        <3>2. n(s[k]) >= n(s[k + 1]) BY <1>1, <1>6
        <3> QED BY <3>1, <3>2
    <2>7. i \in 1 .. N BY <1>11, <2>3
    <2>8. v[i] = n(s[i]) /\ v[j] = n(s[j]) BY <2>7
    <2>9. n(s[i]) >= n(s[j])
        <3> HIDE DEF v
        <3>1. v[i] >= v[j] BY <1>5, <2>4, <2>5, <2>6, <2>7, Descending
        <3> QED BY <2>8, <3>1
    <2>10. Cardinality(others) <= n(s[j]) /\ Cardinality(others) \in Nat
        <3>1. others \in SUBSET Of(s[j])
            <4>1. \A d : Parse(clicks[d].ua).value = clicks[d].ua BY DEF Parse
            <4> QED BY <2>2, <4>1
        <3> HIDE DEF others, Of
        <3>2. IsFiniteSet(Of(s[j])) BY <1>4
        <3>3. IsFiniteSet(others) /\ Cardinality(others) <= Cardinality(Of(s[j]))
            BY <3>1, <3>2, FS_Subset
        <3> QED BY <3>3, FS_CardinalityType DEF n
    <2>11. b[i].clicks = n(s[i]) BY <1>9, <2>3
    <2>12. n(s[i]) \in Nat /\ n(s[j]) \in Nat BY <1>4
    <2> HIDE DEF others, n
    <2>13. Cardinality(others) <= n(s[i]) BY <2>9, <2>10, <2>12
    <2>14. b[i].clicks >= Cardinality(others) BY <2>10, <2>11, <2>12, <2>13
    <2> QED BY <2>14 DEF others
<1>19. GetSummary(start, end).total = Cardinality(S) BY DEF GetSummary, Humans
<1> HIDE DEF listed, all, Of, F
<1>20. Sum(b, "clicks") + Cardinality(rest) = GetSummary(start, end).total
    BY <1>14, <1>16, <1>19
<1> HIDE DEF rest, S
<1> QED BY <1>10, <1>13, <1>17, <1>18, <1>20 DEF listed, rest, S

-----------------------------------------------------------------------------
(* Rows only grow                                                          *)

\* What was stored stays, and the replica goes on showing it.
RowsGrow ==
    /\ now <= now' /\ applied <= applied'
    /\ \A i \in 1 .. applied : log'[i] = log[i]
    /\ \A c \in DOMAIN clicks : /\ c \in DOMAIN clicks'
                                /\ clicks'[c].at = clicks[c].at
                                /\ clicks'[c].ua = clicks[c].ua

\* A window with a later end has the rows of the earlier one, whatever the
\* replica has caught up with in between.
LEMMA HumansGrow ==
    ASSUME RowsKept, LogKept', RowsGrow,
           NEW start, NEW s \in Int, NEW t \in Int, s <= t
    PROVE  /\ Cardinality(Humans(start, s)) \in Nat
           /\ Cardinality(Humans(start, t)') \in Nat
           /\ Cardinality(Humans(start, s)) <= Cardinality(Humans(start, t)')
<1>1. log \in Seq(Nat) /\ applied \in 0 .. Len(log) BY DEF RowsKept, LogKept
<1>2. log' \in Seq(Nat) /\ applied' \in 0 .. Len(log') BY DEF LogKept
<1>3. /\ Replica = {log[i] : i \in 1 .. applied}
      /\ Replica' = {log'[i] : i \in 1 .. applied'} /\ IsFiniteSet(Replica')
      /\ applied \in Nat /\ applied' \in Nat
    BY <1>1, <1>2, Prefix DEF Replica
<1>4. Replica \subseteq Replica'
    <2> SUFFICES ASSUME NEW i \in 1 .. applied PROVE log[i] \in Replica' BY <1>3
    <2>1. i \in 1 .. applied' /\ log'[i] = log[i] BY <1>3 DEF RowsGrow
    <2> QED BY <1>3, <2>1
<1>5. Humans(start, t)' \in SUBSET (Replica') BY DEF Humans, InWindow
<1>6. IsFiniteSet(Humans(start, t)')
    BY <1>3, <1>5, FS_Subset
<1>7. ASSUME NEW c \in Humans(start, s) PROVE c \in Humans(start, t)'
    <2>1. /\ c \in Replica \ {Deletion} /\ IsHuman(c)
          /\ start <= clicks[c].at /\ clicks[c].at < s
        BY DEF Humans, InWindow
    <2>2. c \in DOMAIN clicks BY <2>1, ReplicaIsStored
    <2>3. clicks[c].at \in Nat BY <2>2, ClickFields
    <2>4. clicks'[c].at = clicks[c].at /\ clicks'[c].ua = clicks[c].ua BY <2>2 DEF RowsGrow
    <2>5. clicks'[c].at < t BY <2>1, <2>3, <2>4
    <2>6. start <= clicks'[c].at BY <2>1, <2>4
    <2>7. IsHuman(c)' BY <2>1, <2>4 DEF IsHuman, Parse
    <2>8. c \in Replica' \ {Deletion} BY <1>4, <2>1
    <2> QED BY <2>5, <2>6, <2>7, <2>8 DEF Humans, InWindow
<1>8. Humans(start, s) \in SUBSET (Humans(start, t)') BY <1>7
<1>9. IsFiniteSet(Humans(start, s))
      /\ Cardinality(Humans(start, s)) <= Cardinality(Humans(start, t)')
    BY <1>6, <1>8, FS_Subset
<1> QED BY <1>6, <1>9, FS_CardinalityType

\* A click that is told apart from another only by how far it has come.
LEMMA ReplaceClick ==
    ASSUME RowsKept, NEW c \in DOMAIN clicks, NEW r \in Click,
           clicks' = [clicks EXCEPT ![c] = r], now' = now,
           r.at = clicks[c].at, r.ua = clicks[c].ua, r.address = clicks[c].address,
           clicks[c].state = "stored" => r.state = "stored",
           r.state # "stamped" /\ r.ua # "bot" => r.hash = <<RawIP(r.address), r.on>>
    PROVE  /\ ClicksKept' /\ HashesExplained'
           /\ DOMAIN clicks' = DOMAIN clicks
           /\ \A d \in DOMAIN clicks :
                /\ clicks'[d].at = clicks[d].at /\ clicks'[d].ua = clicks[d].ua
                /\ clicks[d].state = "stored" => clicks'[d].state = "stored"
<1> HIDE DEF Click
<1>1. clicks \in Seq(Click) /\ Len(clicks) <= MaxClicks /\ now \in 0 .. MaxNow
      /\ \A d \in DOMAIN clicks : clicks[d].at <= now
    BY DEF RowsKept, ClicksKept
<1>2. clicks' \in Seq(Click) /\ Len(clicks') = Len(clicks) /\ DOMAIN clicks' = DOMAIN clicks
    BY <1>1
<1>3. \A d \in DOMAIN clicks : clicks'[d] = IF d = c THEN r ELSE clicks[d] BY <1>1
<1>4. \A d \in DOMAIN clicks' : clicks'[d].at <= now' BY <1>1, <1>2, <1>3
<1>5. ClicksKept'
    <2>1. clicks' \in Seq(Click)' BY <1>2 DEF Click, RawIP
    <2> QED BY <1>1, <1>2, <1>4, <2>1 DEF ClicksKept
<1>6. HashesExplained'
    <2> SUFFICES ASSUME NEW d \in DOMAIN clicks,
                        clicks'[d].state # "stamped", clicks'[d].ua # "bot"
                 PROVE  clicks'[d].hash = <<RawIP(clicks'[d].address), clicks'[d].on>>
        BY <1>2 DEF HashesExplained, IsHuman, Parse
    <2>1. CASE d = c BY <1>3, <2>1
    <2>2. CASE d # c
        <3>1. clicks'[d] = clicks[d] BY <1>3, <2>2
        <3>2. IsHuman(d) /\ clicks[d].state # "stamped" BY <3>1 DEF IsHuman, Parse
        <3>3. clicks[d].hash = <<RawIP(clicks[d].address), clicks[d].on>>
            BY <3>2 DEF RowsKept, HashesExplained
        <3> QED BY <3>1, <3>3
    <2> QED BY <2>1, <2>2
<1> QED BY <1>2, <1>3, <1>5, <1>6

\* Days count from the link's creation.
LEMMA DayIsNat ==
    ASSUME NEW t \in Nat
    PROVE  Day(t) \in Nat
<1> DEFINE b == BucketSize["1d"]
           d == t \div b
<1>1. b \in Nat \ {0} BY ReportConstants
<1> HIDE DEF b
<1>2. d \in Int /\ t < d * b + b BY <1>1, DivBounds
<1> HIDE DEF d
<1>3. ASSUME d < 0 PROVE FALSE
    <2>1. d * b + b <= 0 * b BY <1>1, <1>2, <1>3, MultiplesInOrder
    <2>2. d * b \in Int BY <1>1, <1>2
    <2> QED BY <1>1, <1>2, <2>1, <2>2
<1>4. d \in Nat BY <1>2, <1>3
<1> QED BY <1>4 DEF Day, d, b

\* Capture hashes the address of a click with the day's salt.
LEMMA CaptureRows ==
    ASSUME RowsKept, NEW c \in DOMAIN clicks, Capture(c)
    PROVE  RowsKept' /\ RowsGrow
<1> DEFINE k == clicks[c]
           h == IF Parse(k.ua).bot THEN Nothing ELSE Hash(RawIP(k.address))
           r == [k EXCEPT !.state = "captured", !.on = Day(now), !.hash = h]
<1>1. k \in Click /\ k.state = "stamped" BY ClickFields DEF Capture
<1>2. now \in Nat /\ Day(now) \in Nat
    <2>1. now \in 0 .. MaxNow BY DEF RowsKept, ClicksKept
    <2>2. now \in Nat BY <2>1
    <2> QED BY <2>2, DayIsNat
<1>3. h = IF k.ua = "bot" THEN Nothing ELSE <<RawIP(k.address), Day(now)>>
    BY DEF Parse, Hash
<1>4. clicks' = [clicks EXCEPT ![c] = r] /\ now' = now /\ log' = log /\ applied' = applied
    BY DEF Capture
<1> HIDE DEF h
<1>5. h \in {Nothing} \cup {<<RawIP(v.address), d>> : v \in Visits, d \in Nat}
    <2>1. PICK v \in Visits : k.address = v.address BY <1>1 DEF Click
    <2>2. <<RawIP(k.address), Day(now)>> \in {<<RawIP(w.address), d>> : w \in Visits, d \in Nat}
        BY <1>2, <2>1
    <2> QED BY <1>3, <2>2
<1>6. r.at = k.at /\ r.ua = k.ua /\ r.address = k.address /\ r.state = "captured"
      /\ r.on = Day(now) /\ r.hash = h /\ r \in Click
    <2> DEFINE addresses == {v.address : v \in Visits}
               uas == {v.ua : v \in Visits}
               hashes == {Nothing} \cup {<<RawIP(v.address), d>> : v \in Visits, d \in Nat}
    <2>1. Click = [at : Nat, address : addresses, ua : uas,
                   state : {"stamped", "captured", "stored"}, hash : hashes, on : Nat]
        BY DEF Click
    <2>2. h \in hashes BY <1>5
    <2> HIDE DEF addresses, uas, hashes
    <2> QED BY <1>1, <1>2, <2>1, <2>2
<1>7. r.ua # "bot" => r.hash = <<RawIP(r.address), r.on>> BY <1>3, <1>6
<1> HIDE DEF r
<1>8. /\ ClicksKept' /\ HashesExplained'
      /\ DOMAIN clicks' = DOMAIN clicks
      /\ \A d \in DOMAIN clicks :
           /\ clicks'[d].at = clicks[d].at /\ clicks'[d].ua = clicks[d].ua
           /\ clicks[d].state = "stored" => clicks'[d].state = "stored"
    BY <1>1, <1>4, <1>6, <1>7, ReplaceClick
<1>9. LogKept'
    <2>1. log \in Seq(Nat) /\ applied \in 0 .. Len(log)
          /\ \A i \in DOMAIN log : log[i] # Deletion =>
                log[i] \in DOMAIN clicks /\ clicks[log[i]].state = "stored"
        BY DEF RowsKept, LogKept
    <2> QED BY <1>4, <1>8, <2>1 DEF LogKept
<1>10. RowsGrow
    <2>1. applied \in Nat BY DEF RowsKept, LogKept
    <2> QED BY <1>2, <1>4, <1>8, <2>1 DEF RowsGrow
<1> QED BY <1>8, <1>9, <1>10 DEF RowsKept

\* An entry is added to the log.
LEMMA LogAppended ==
    ASSUME RowsKept, NEW e \in Nat, log' = Append(log, e), applied' = applied,
           DOMAIN clicks' = DOMAIN clicks,
           \A d \in DOMAIN clicks : clicks[d].state = "stored" => clicks'[d].state = "stored",
           e # Deletion => e \in DOMAIN clicks /\ clicks'[e].state = "stored"
    PROVE  LogKept' /\ applied <= applied' /\ \A i \in 1 .. applied : log'[i] = log[i]
<1>1. log \in Seq(Nat) /\ applied \in 0 .. Len(log)
      /\ \A i \in DOMAIN log : log[i] # Deletion =>
            log[i] \in DOMAIN clicks /\ clicks[log[i]].state = "stored"
    BY DEF RowsKept, LogKept
<1>2. Len(log) \in Nat /\ applied \in Nat /\ applied <= Len(log) BY <1>1
<1>3. /\ log' \in Seq(Nat) /\ Len(log') = Len(log) + 1
      /\ \A i \in 1 .. Len(log) : log'[i] = log[i]
      /\ log'[Len(log) + 1] = e
    BY <1>1
<1>4. applied' \in 0 .. Len(log') BY <1>2, <1>3
<1>5. DOMAIN log = 1 .. Len(log) /\ DOMAIN log' = 1 .. Len(log) + 1 BY <1>1, <1>3
<1>6. ASSUME NEW i \in DOMAIN log', log'[i] # Deletion
      PROVE  log'[i] \in DOMAIN clicks' /\ clicks'[log'[i]].state = "stored"
    <2>1. CASE i = Len(log) + 1 BY <1>3, <1>6, <2>1
    <2>2. CASE i \in DOMAIN log
        <3>1. log'[i] = log[i] BY <1>3, <1>5, <2>2
        <3>2. log[i] \in DOMAIN clicks /\ clicks[log[i]].state = "stored"
            BY <1>1, <1>6, <2>2, <3>1
        <3> QED BY <3>1, <3>2
    <2>3. i = Len(log) + 1 \/ i \in DOMAIN log BY <1>2, <1>5
    <2> QED BY <2>1, <2>2, <2>3
<1>7. \A i \in 1 .. applied : log'[i] = log[i] BY <1>2, <1>3
<1>8. LogKept' BY <1>3, <1>4, <1>6 DEF LogKept
<1> QED BY <1>2, <1>7, <1>8

\* A row is committed.
LEMMA StoreRows ==
    ASSUME RowsKept, NEW c \in DOMAIN clicks, Store(c)
    PROVE  RowsKept' /\ RowsGrow
<1> DEFINE k == clicks[c]
           r == [k EXCEPT !.state = "stored"]
<1>1. k \in Click /\ k.state = "captured" BY ClickFields DEF Store
<1>2. clicks' = [clicks EXCEPT ![c] = r] /\ now' = now /\ log' = Append(log, c)
      /\ applied' = applied
    BY DEF Store
<1>3. r.at = k.at /\ r.ua = k.ua /\ r.address = k.address /\ r.state = "stored"
      /\ r.on = k.on /\ r.hash = k.hash /\ r \in Click
    BY <1>1 DEF Click
<1>4. k.ua # "bot" => k.hash = <<RawIP(k.address), k.on>>
    BY <1>1 DEF RowsKept, HashesExplained, IsHuman, Parse
<1>5. r.ua # "bot" => r.hash = <<RawIP(r.address), r.on>> BY <1>3, <1>4
<1> HIDE DEF r
<1>6. /\ ClicksKept' /\ HashesExplained'
      /\ DOMAIN clicks' = DOMAIN clicks
      /\ \A d \in DOMAIN clicks :
           /\ clicks'[d].at = clicks[d].at /\ clicks'[d].ua = clicks[d].ua
           /\ clicks[d].state = "stored" => clicks'[d].state = "stored"
    BY <1>1, <1>2, <1>3, <1>5, ReplaceClick
<1>7. c \in Nat BY ClickFields
<1>8. clicks'[c].state = "stored"
    <2>1. clicks'[c] = r BY <1>2
    <2> QED BY <1>3, <2>1
<1>9. LogKept' /\ applied <= applied' /\ \A i \in 1 .. applied : log'[i] = log[i]
    BY <1>2, <1>6, <1>7, <1>8, LogAppended
<1>10. now <= now'
    <2>1. now \in Int BY DEF RowsKept, ClicksKept
    <2> QED BY <1>2, <2>1
<1> QED BY <1>6, <1>9, <1>10 DEF RowsKept, RowsGrow

\* A click is stamped.
LEMMA RedirectRows ==
    ASSUME RowsKept, NEW v \in Visits, Redirect(v)
    PROVE  RowsKept' /\ RowsGrow
<1> DEFINE r == [at |-> now, address |-> v.address, ua |-> v.ua,
                 state |-> "stamped", hash |-> Nothing, on |-> Day(now)]
           n == Len(clicks)
<1>1. clicks \in Seq(Click) /\ Len(clicks) <= MaxClicks /\ now \in 0 .. MaxNow
      /\ \A d \in DOMAIN clicks : clicks[d].at <= now
    BY DEF RowsKept, ClicksKept
<1>2. now \in Nat /\ Day(now) \in Nat
    <2>1. now \in Nat BY <1>1
    <2> QED BY <2>1, DayIsNat
<1>3. r \in Click
    <2> DEFINE addresses == {w.address : w \in Visits}
               uas == {w.ua : w \in Visits}
               hashes == {Nothing} \cup {<<RawIP(w.address), d>> : w \in Visits, d \in Nat}
    <2>1. Click = [at : Nat, address : addresses, ua : uas,
                   state : {"stamped", "captured", "stored"}, hash : hashes, on : Nat]
        BY DEF Click
    <2>2. v.address \in addresses /\ v.ua \in uas /\ Nothing \in hashes OBVIOUS
    <2> HIDE DEF addresses, uas, hashes
    <2> QED BY <1>2, <2>1, <2>2
<1>4. r.at = now /\ r.state = "stamped" OBVIOUS
<1>5. clicks' = Append(clicks, r) /\ now' = now /\ log' = log /\ applied' = applied
      /\ Len(clicks) < MaxClicks
    BY DEF Redirect
<1> HIDE DEF r, Click
<1>6. n \in Nat /\ DOMAIN clicks = 1 .. n BY <1>1
<1>7. /\ clicks' \in Seq(Click) /\ Len(clicks') = n + 1 /\ DOMAIN clicks' = 1 .. n + 1
      /\ \A d \in 1 .. n : clicks'[d] = clicks[d]
      /\ clicks'[n + 1] = r
    BY <1>1, <1>3, <1>5, <1>6
<1>8. \A d \in 1 .. n + 1 : d = n + 1 \/ d \in 1 .. n BY <1>6
<1>9. ClicksKept'
    <2>1. clicks' \in Seq(Click)' BY <1>7 DEF Click, RawIP
    <2>2. Len(clicks') <= MaxClicks
        <3>1. MaxClicks \in Nat BY ReportConstants
        <3> QED BY <1>5, <1>6, <1>7, <3>1
    <2>3. now <= now BY <1>2
    <2>4. \A d \in 1 .. n : clicks'[d].at <= now' BY <1>1, <1>5, <1>6, <1>7
    <2>5. clicks'[n + 1].at <= now' BY <1>4, <1>5, <1>7, <2>3
    <2>6. \A d \in DOMAIN clicks' : clicks'[d].at <= now' BY <1>7, <1>8, <2>4, <2>5
    <2> QED BY <1>1, <1>5, <2>1, <2>2, <2>6 DEF ClicksKept
<1>10. HashesExplained'
    <2> SUFFICES ASSUME NEW d \in DOMAIN clicks',
                        clicks'[d].state # "stamped", clicks'[d].ua # "bot"
                 PROVE  clicks'[d].hash = <<RawIP(clicks'[d].address), clicks'[d].on>>
        BY DEF HashesExplained, IsHuman, Parse
    <2>1. d \in 1 .. n
        <3>1. d = n + 1 \/ d \in 1 .. n
            <4>1. d \in 1 .. n + 1 BY <1>7
            <4> QED BY <1>8, <4>1
        <3>2. ASSUME d = n + 1 PROVE FALSE
            <4>1. clicks'[d] = r BY <1>7, <3>2
            <4> QED BY <1>4, <4>1
        <3> QED BY <3>1, <3>2
    <2>2. clicks'[d] = clicks[d] BY <1>7, <2>1
    <2>3. IsHuman(d) /\ clicks[d].state # "stamped" BY <2>2 DEF IsHuman, Parse
    <2>4. clicks[d].hash = <<RawIP(clicks[d].address), clicks[d].on>>
        BY <1>6, <2>1, <2>3 DEF RowsKept, HashesExplained
    <2> QED BY <2>2, <2>4
<1>11. LogKept'
    <2>1. log \in Seq(Nat) /\ applied \in 0 .. Len(log)
          /\ \A i \in DOMAIN log : log[i] # Deletion =>
                log[i] \in 1 .. n /\ clicks[log[i]].state = "stored"
        BY <1>6 DEF RowsKept, LogKept
    <2>2. \A d \in 1 .. n : d \in 1 .. n + 1 BY <1>6
    <2> QED BY <1>5, <1>7, <2>1, <2>2 DEF LogKept
<1>12. RowsGrow
    <2>1. applied \in Nat BY DEF RowsKept, LogKept
    <2>2. \A d \in DOMAIN clicks : d \in DOMAIN clicks' /\ clicks'[d] = clicks[d]
        BY <1>6, <1>7
    <2> QED BY <1>2, <1>5, <2>1, <2>2 DEF RowsGrow
<1> QED BY <1>9, <1>10, <1>11, <1>12 DEF RowsKept

\* The clock, the replica and the reports leave the clicks as they are.
LEMMA OtherRows ==
    ASSUME RowsKept, clicks' = clicks,
           \/ now' = now
           \/ now' = now + 1 /\ now < MaxNow,
           \/ log' = log /\ applied' = applied
           \/ log' = log /\ applied' = applied + 1 /\ applied < Len(log)
           \/ log' = Append(log, Deletion) /\ applied' = applied
    PROVE  RowsKept' /\ RowsGrow
<1>1. clicks \in Seq(Click) /\ Len(clicks) <= MaxClicks /\ now \in 0 .. MaxNow
      /\ \A d \in DOMAIN clicks : clicks[d].at <= now
    BY DEF RowsKept, ClicksKept
<1>2. now' \in 0 .. MaxNow /\ now <= now' /\ now \in Int /\ now' \in Int
    <2>1. MaxNow \in Nat BY ReportConstants
    <2> QED BY <1>1, <2>1
<1>3. \A d \in DOMAIN clicks : clicks[d].at \in Nat BY ClickFields
<1>4. \A d \in DOMAIN clicks : clicks[d].at <= now' BY <1>1, <1>2, <1>3
<1>5. clicks' \in Seq(Click)' BY <1>1 DEF Click, RawIP
<1>6. ClicksKept' BY <1>1, <1>2, <1>4, <1>5 DEF ClicksKept
<1>7. HashesExplained'
    <2>1. \A c \in DOMAIN clicks :
            clicks[c].state # "stamped" /\ ~Parse(clicks[c].ua).bot =>
                clicks[c].hash = <<RawIP(clicks[c].address), clicks[c].on>>
        BY DEF RowsKept, HashesExplained, IsHuman
    <2> QED BY <2>1 DEF HashesExplained, IsHuman, Parse
<1>8. log \in Seq(Nat) /\ applied \in 0 .. Len(log)
      /\ \A i \in DOMAIN log : log[i] # Deletion =>
            log[i] \in DOMAIN clicks /\ clicks[log[i]].state = "stored"
    BY DEF RowsKept, LogKept
<1>9. Len(log) \in Nat /\ applied \in Nat BY <1>8
<1>10. LogKept' /\ applied <= applied' /\ \A i \in 1 .. applied : log'[i] = log[i]
    <2>1. CASE log' = log /\ applied' = applied BY <1>8, <1>9, <2>1 DEF LogKept
    <2>2. CASE log' = log /\ applied' = applied + 1 /\ applied < Len(log)
        <3>1. applied' \in 0 .. Len(log') /\ applied <= applied' BY <1>9, <2>2
        <3> QED BY <1>8, <2>2, <3>1 DEF LogKept
    <2>3. CASE log' = Append(log, Deletion) /\ applied' = applied
        <3>1. Deletion \in Nat BY DEF Deletion
        <3> QED BY <2>3, <3>1, LogAppended
    <2> QED BY <2>1, <2>2, <2>3
<1>11. RowsGrow BY <1>2, <1>10 DEF RowsGrow
<1> QED BY <1>6, <1>7, <1>10, <1>11 DEF RowsKept

\* Every step keeps what is known of the rows, and all of them.
LEMMA NextRows ==
    ASSUME RowsKept, [ReportNext]_reportVars
    PROVE  RowsKept' /\ RowsGrow
<1>1. ASSUME NEW v \in Visits, Redirect(v) PROVE RowsKept' /\ RowsGrow BY <1>1, RedirectRows
<1>2. ASSUME NEW c \in DOMAIN clicks, Capture(c) PROVE RowsKept' /\ RowsGrow
    BY <1>2, CaptureRows
<1>3. ASSUME NEW c \in DOMAIN clicks, Store(c) PROVE RowsKept' /\ RowsGrow
    BY <1>3, StoreRows
<1>4. CASE DeleteUrl BY <1>4, OtherRows DEF DeleteUrl
<1>5. CASE ReplicateLog BY <1>5, OtherRows DEF ReplicateLog
<1>6. CASE Tick BY <1>6, OtherRows DEF Tick
<1>7. CASE ResolveLink BY <1>7, OtherRows DEF ResolveLink
<1>8. CASE ReportError BY <1>8, OtherRows DEF ReportError
<1>9. ASSUME NEW w \in Windows, ReportSummary(w) PROVE RowsKept' /\ RowsGrow
    BY <1>9, OtherRows DEF ReportSummary, Answer
<1>10. ASSUME NEW w \in Windows, ReportBreakdown(w) PROVE RowsKept' /\ RowsGrow
    <2>1. clicks' = clicks /\ now' = now /\ log' = log /\ applied' = applied
        BY <1>10 DEF ReportBreakdown, Answer
    <2> QED BY <2>1, OtherRows
<1>11. ASSUME NEW s \in Bounds \cup {Nothing}, NEW e \in Bounds \cup {Nothing},
              NEW w \in Windows, NEW g \in Granularities, ReportSeries(s, e, w, g)
       PROVE  RowsKept' /\ RowsGrow
    BY <1>11, OtherRows DEF ReportSeries, Answer
<1>12. CASE UNCHANGED reportVars BY <1>12, OtherRows DEF reportVars
<1> QED
    BY <1>1, <1>2, <1>3, <1>4, <1>5, <1>6, <1>7, <1>8, <1>9, <1>10, <1>11, <1>12
    DEF ReportNext

-----------------------------------------------------------------------------
(* What was shown                                                          *)

\* The end of the report being made, or of one made now.
ReportEnd == IF query = Nothing THEN now ELSE query

\* No time is Nothing.
LEMMA NothingIsNoTime ==
    \A n \in Int : n # Nothing
BY ReportConstants

\* The end of a report is not in the future.
LEMMA ReportEndType ==
    ASSUME RowsKept, ShownIsStored
    PROVE  now \in Nat /\ ReportEnd \in Nat /\ ReportEnd <= now /\ shown \in Nat
<1>1. now \in 0 .. MaxNow /\ query \in (0 .. now) \cup {Nothing} /\ shown \in 0 .. MaxClicks
    BY DEF RowsKept, ClicksKept, ShownIsStored
<1>2. now \in Nat /\ shown \in Nat BY <1>1
<1>3. CASE query = Nothing BY <1>2, <1>3 DEF ReportEnd
<1>4. CASE query # Nothing
    <2>1. query \in 0 .. now BY <1>1, <1>4
    <2> QED BY <1>2, <1>4, <2>1 DEF ReportEnd
<1> QED BY <1>2, <1>3, <1>4

\* The total of all time, at an end not before the last report's.
LEMMA ShownStays ==
    ASSUME RowsKept, ShownIsStored, RowsKept', RowsGrow, shown' = shown,
           query' \in (0 .. now') \cup {Nothing}, ReportEnd <= ReportEnd',
           ReportEnd' \in Int
    PROVE  ShownIsStored'
<1>1. ReportEnd \in Int /\ shown \in Nat BY ReportEndType
<1>2. shown <= Cardinality(Humans(CreatedAt, ReportEnd)) /\ shown \in 0 .. MaxClicks
    BY DEF ShownIsStored, ReportEnd
<1> DEFINE s == ReportEnd
           t == ReportEnd'
<1>3. PICK e \in Int : e = s BY <1>1
<1>4. PICK f \in Int : f = t OBVIOUS
<1>5. LogKept' BY DEF RowsKept
<1>6. e <= f BY <1>3, <1>4
<1>7. /\ Cardinality(Humans(CreatedAt, e)) \in Nat
      /\ Cardinality(Humans(CreatedAt, f)') \in Nat
      /\ Cardinality(Humans(CreatedAt, e)) <= Cardinality(Humans(CreatedAt, f)')
    BY <1>5, <1>6, HumansGrow
<1>8. Cardinality(Humans(CreatedAt, e)) = Cardinality(Humans(CreatedAt, ReportEnd)) BY <1>3
<1>9. shown <= Cardinality(Humans(CreatedAt, f)') BY <1>1, <1>2, <1>7, <1>8
<1>10. shown' <= Cardinality(Humans(CreatedAt, IF query = Nothing THEN now ELSE query))'
    BY <1>4, <1>9 DEF ReportEnd, Humans, InWindow, CreatedAt
<1> QED BY <1>2, <1>10 DEF ShownIsStored

\* Every step keeps what was shown within what is stored.
LEMMA NextShown ==
    ASSUME RowsKept, ShownIsStored, RowsKept', RowsGrow, [ReportNext]_reportVars
    PROVE  ShownIsStored'
<1>1. now \in Nat /\ ReportEnd \in Nat /\ ReportEnd <= now /\ shown \in Nat
    BY ReportEndType
<1>2. query \in (0 .. now) \cup {Nothing} BY DEF ShownIsStored
<1>3. now' \in Nat /\ now <= now'
    <2>1. now' \in 0 .. MaxNow BY DEF RowsKept, ClicksKept
    <2> QED BY <2>1 DEF RowsGrow
<1>4. ASSUME query' = query, shown' = shown PROVE ShownIsStored'
    <2>1. query' \in (0 .. now') \cup {Nothing} BY <1>1, <1>2, <1>3, <1>4
    <2>2. ReportEnd <= ReportEnd' /\ ReportEnd' \in Int
        BY <1>1, <1>3, <1>4 DEF ReportEnd
    <2> QED BY <1>4, <2>1, <2>2, ShownStays
<1>5. ASSUME query' = Nothing, shown' = shown PROVE ShownIsStored'
    <2>1. ReportEnd' = now' BY <1>5 DEF ReportEnd
    <2>2. ReportEnd <= ReportEnd' /\ ReportEnd' \in Int BY <1>1, <1>3, <2>1
    <2> QED BY <1>5, <2>2, ShownStays
<1>6. CASE ResolveLink
    <2>1. query = Nothing /\ query' = now /\ now' = now /\ shown' = shown
        BY <1>6 DEF ResolveLink
    <2>2. ReportEnd = now /\ ReportEnd' = now BY <1>1, <2>1, NothingIsNoTime DEF ReportEnd
    <2>3. query' \in (0 .. now') \cup {Nothing} BY <1>1, <2>1
    <2> QED BY <1>1, <2>1, <2>2, <2>3, ShownStays
<1>7. ASSUME NEW w \in Windows, ReportSummary(w), w = "all" PROVE ShownIsStored'
    <2>1. /\ query # Nothing /\ query' = Nothing /\ now' = now
          /\ shown' = Max({shown, GetSummary(CreatedAt, query).total})
        BY <1>7 DEF ReportSummary, Answer, Start
    <2>2. query \in Int /\ query <= now' BY <1>1, <1>2, <2>1
    <2>3. shown <= Cardinality(Humans(CreatedAt, query)) BY <2>1 DEF ShownIsStored
    <2>4. Cardinality(Humans(CreatedAt, query)) \in 0 .. MaxClicks BY HumansFacts
    <2>5. GetSummary(CreatedAt, query).total = Cardinality(Humans(CreatedAt, query))
        BY DEF GetSummary, Humans
    <2>6. Max({shown, Cardinality(Humans(CreatedAt, query))})
              = Cardinality(Humans(CreatedAt, query))
        BY <1>1, <2>3, <2>4, MaxOfTwo
    <2>7. shown' = Cardinality(Humans(CreatedAt, query)) BY <2>1, <2>5, <2>6
    <2>8. PICK e \in Int : e = query BY <2>2
    <2>9. PICK f \in Int : f = now' BY <1>3
    <2>10. LogKept' /\ e <= f BY <2>2, <2>8, <2>9 DEF RowsKept
    <2>11. Cardinality(Humans(CreatedAt, e)) <= Cardinality(Humans(CreatedAt, f)')
        BY <2>10, HumansGrow
    <2>12. Cardinality(Humans(CreatedAt, e)) = Cardinality(Humans(CreatedAt, query)) BY <2>8
    <2>13. shown' <= Cardinality(Humans(CreatedAt, f)') BY <2>7, <2>11, <2>12
    <2>14. shown' <= Cardinality(Humans(CreatedAt, IF query = Nothing THEN now ELSE query))'
        BY <2>1, <2>9, <2>13 DEF Humans, InWindow, CreatedAt
    <2>15. shown' \in 0 .. MaxClicks BY <2>4, <2>7
    <2> QED BY <2>1, <2>14, <2>15 DEF ShownIsStored
<1>8. ASSUME NEW w \in Windows, ReportSummary(w), w # "all" PROVE ShownIsStored'
    BY <1>5, <1>8 DEF ReportSummary, Answer
<1>9. ASSUME NEW w \in Windows, ReportBreakdown(w) PROVE ShownIsStored'
    <2>1. query' = Nothing /\ shown' = shown BY <1>9 DEF ReportBreakdown, Answer
    <2> QED BY <1>5, <2>1
<1>10. ASSUME NEW s \in Bounds \cup {Nothing}, NEW e \in Bounds \cup {Nothing},
              NEW w \in Windows, NEW g \in Granularities, ReportSeries(s, e, w, g)
       PROVE  ShownIsStored'
    BY <1>5, <1>10 DEF ReportSeries, Answer
<1>11. CASE ReportError BY <1>5, <1>11 DEF ReportError
<1>12. ASSUME NEW v \in Visits, Redirect(v) PROVE ShownIsStored'
    BY <1>4, <1>12 DEF Redirect
<1>13. ASSUME NEW c \in DOMAIN clicks, Capture(c) PROVE ShownIsStored'
    BY <1>4, <1>13 DEF Capture
<1>14. ASSUME NEW c \in DOMAIN clicks, Store(c) PROVE ShownIsStored'
    BY <1>4, <1>14 DEF Store
<1>15. CASE DeleteUrl BY <1>4, <1>15 DEF DeleteUrl
<1>16. CASE ReplicateLog BY <1>4, <1>16 DEF ReplicateLog
<1>17. CASE Tick BY <1>4, <1>17 DEF Tick
<1>18. CASE UNCHANGED reportVars BY <1>4, <1>18 DEF reportVars
<1> QED
    BY <1>6, <1>7, <1>8, <1>9, <1>10, <1>11, <1>12, <1>13, <1>14, <1>15, <1>16, <1>17,
       <1>18
    DEF ReportNext

-----------------------------------------------------------------------------
(* The answers                                                             *)

\* Where nothing was answered, nothing is claimed.
LEMMA NoAnswer ==
    ASSUME answer' = Nothing
    PROVE  SeriesBounded' /\ ReportsAddUp' /\ SummaryIsSound'
BY DEF SeriesBounded, ReportsAddUp, SeriesAddsUp, BreakdownAddsUp, SummaryIsSound,
       UniquesExplained, TotalsOnlyGrow, Answered

\* SummaryHandler's answer is sound.
LEMMA SummaryAnswer ==
    ASSUME RowsKept, ShownIsStored, NEW w \in Windows, ReportSummary(w)
    PROVE  SeriesBounded' /\ ReportsAddUp' /\ SummaryIsSound'
<1>1. PICK start : start = Start(w, query) OBVIOUS
<1>2. PICK end : end = query OBVIOUS
<1>3. PICK s : s = GetSummary(start, end) OBVIOUS
<1>4. /\ answer' = [kind |-> "summary", result |-> s,
                    asked |-> [window |-> w, start |-> start, end |-> end]]
      /\ clicks' = clicks /\ log' = log /\ applied' = applied /\ now' = now
      /\ shown' = IF w = "all" THEN Max({shown, s.total}) ELSE shown
      /\ query # Nothing
    BY <1>1, <1>2, <1>3 DEF ReportSummary, Answer
<1>5. answer'.kind = "summary" /\ answer'.result = s /\ answer'.asked.start = start
      /\ answer'.asked.end = end /\ answer'.asked.window = w
    BY <1>4
<1>6. SeriesBounded' /\ ReportsAddUp'
    BY <1>5 DEF SeriesBounded, ReportsAddUp, SeriesAddsUp, BreakdownAddsUp, Answered
<1> DEFINE S == Humans(start, end)
           ips == {clicks[c].address[1] : c \in S}
           daily == {<<RawIP(clicks[c].address), Day(clicks[c].at)>> : c \in S}
           late == {c \in S : clicks[c].on # Day(clicks[c].at)}
<1>7. /\ Cardinality(ips) <= s.unique
      /\ s.unique <= Cardinality(daily) + Cardinality(late)
    <2>1. s.unique = UniqueIPs(S) BY <1>3 DEF GetSummary, Humans
    <2> QED BY <2>1, IpOfHash, HashOfDayOrLate
<1>8. UniquesExplained'
    BY <1>4, <1>5, <1>7 DEF UniquesExplained, Answered, Humans, InWindow, Replica, IsHuman,
        RawIP, Day
<1>9. TotalsOnlyGrow'
    <2> SUFFICES ASSUME w = "all" PROVE s.total = shown'
        BY <1>5 DEF TotalsOnlyGrow
    <2>1. start = CreatedAt BY <1>1 DEF Start
    <2>2. s.total = Cardinality(Humans(CreatedAt, query))
        BY <1>2, <1>3, <2>1 DEF GetSummary, Humans
    <2>3. shown <= Cardinality(Humans(CreatedAt, query)) BY <1>4 DEF ShownIsStored
    <2>4. shown \in Nat BY ReportEndType
    <2>5. Cardinality(Humans(CreatedAt, query)) \in 0 .. MaxClicks BY HumansFacts
    <2>6. Max({shown, s.total}) = s.total BY <2>2, <2>3, <2>4, <2>5, MaxOfTwo
    <2> QED BY <1>4, <2>6
<1> QED BY <1>6, <1>8, <1>9 DEF SummaryIsSound

\* TimeSeriesHandler's answer adds up.
LEMMA SeriesAnswer ==
    ASSUME RowsKept, ShownIsStored,
           NEW s \in Bounds \cup {Nothing}, NEW e \in Bounds \cup {Nothing},
           NEW w \in Windows, NEW g \in Granularities, ReportSeries(s, e, w, g)
    PROVE  SeriesBounded' /\ ReportsAddUp' /\ SummaryIsSound'
<1>1. PICK start : start = SeriesWindow(s, e, w).start OBVIOUS
<1>2. PICK end : end = SeriesWindow(s, e, w).end OBVIOUS
<1>3. PICK p : p = GetTimeSeries(start, end, g) OBVIOUS
<1>4. /\ answer' = [kind |-> "series", result |-> p,
                    asked |-> [granularity |-> g, start |-> start, end |-> end]]
      /\ clicks' = clicks /\ log' = log /\ applied' = applied /\ now' = now
      /\ ValidateWindowGranularity(start, end, g) /\ query # Nothing
    BY <1>1, <1>2, <1>3 DEF ReportSeries, Answer
<1>5. /\ answer'.kind = "series" /\ answer'.result = p /\ answer'.asked.granularity = g
      /\ answer'.asked.start = start /\ answer'.asked.end = end
    BY <1>4
<1>6. start \in Int /\ end \in Int
    <2>1. query \in Int /\ Bounds \subseteq Int
        <3>1. now \in 0 .. MaxNow /\ query \in (0 .. now) \cup {Nothing}
            BY DEF RowsKept, ClicksKept, ShownIsStored
        <3>2. query \in 0 .. now BY <1>4, <3>1
        <3> QED BY <3>1, <3>2, ReportConstants
    <2>2. end \in Int
        <3>1. end = IF e = Nothing THEN query ELSE e BY <1>2 DEF SeriesWindow
        <3> QED BY <2>1, <3>1
    <2>3. start = IF s = Nothing THEN Start(w, end) ELSE s BY <1>1, <1>2 DEF SeriesWindow
    <2>4. Start(w, end) \in Int
        <3>1. Duration[w] \in Nat BY ReportConstants
        <3> QED BY <2>2, <3>1 DEF Start, CreatedAt
    <2> QED BY <2>1, <2>2, <2>3, <2>4
<1>7. SeriesBounded'
    <2> DEFINE n == BucketCount(start, end, g)
               k == MaxSpan[g] \div BucketSize[g] + 1
    <2>1. n \in Nat /\ n <= k BY <1>4, <1>6, Buckets
    <2>2. p = [i \in 1 .. n |-> p[i]] BY <1>3 DEF GetTimeSeries
    <2> HIDE DEF n
    <2>3. Len(p) = n BY <2>1, <2>2
    <2>4. Len(p) <= k BY <2>1, <2>3
    <2> QED BY <1>5, <2>4 DEF SeriesBounded
<1>8. SummaryIsSound' /\ BreakdownAddsUp'
    BY <1>5 DEF SummaryIsSound, UniquesExplained, TotalsOnlyGrow, BreakdownAddsUp, Answered
<1>9. /\ Sum(p, "clicks") = GetSummary(start, end).total
      /\ Sum(p, "unique") >= GetSummary(start, end).unique
      /\ \A i \in DOMAIN p :
            /\ p[i].bucket < end /\ start < p[i].bucket + BucketSize[g]
            /\ p[i].unique <= GetSummary(start, end).unique
            /\ i > 1 => p[i].bucket = p[i - 1].bucket + BucketSize[g]
    <2>1. /\ Sum(p, "clicks") = GetSummary(start, end).total
          /\ Sum(p, "unique") >= GetSummary(start, end).unique
          /\ \A i \in DOMAIN p : p[i].unique <= GetSummary(start, end).unique
        BY <1>3, <1>6, SeriesOfWindow
    <2>2. \A i \in DOMAIN p :
            /\ p[i].bucket < end /\ start < p[i].bucket + BucketSize[g]
            /\ i > 1 => p[i].bucket = p[i - 1].bucket + BucketSize[g]
        BY <1>3, <1>6, BucketsInWindow
    <2> QED BY <2>1, <2>2
<1>10. PICK t : t = GetSummary(start, end).total OBVIOUS
<1>11. PICK u : u = GetSummary(start, end).unique OBVIOUS
<1>12. t = GetSummary(start, end)'.total /\ u = GetSummary(start, end)'.unique
    BY <1>4, <1>10, <1>11 DEF GetSummary, InWindow, Replica, IsHuman, UniqueIPs
<1>13. SeriesAddsUp'
    <2> SUFFICES /\ Sum(p, "clicks") = t
                 /\ Sum(p, "unique") >= u
                 /\ \A i \in DOMAIN p :
                       /\ p[i].bucket < end /\ start < p[i].bucket + BucketSize[g]
                       /\ p[i].unique <= u
                       /\ i > 1 => p[i].bucket = p[i - 1].bucket + BucketSize[g]
        BY <1>5, <1>12 DEF SeriesAddsUp, GetSummary, InWindow, Replica, IsHuman, UniqueIPs
    <2> QED BY <1>9, <1>10, <1>11
<1> QED BY <1>7, <1>8, <1>13 DEF ReportsAddUp

\* What a breakdown says is true as long as the rows stay.
LEMMA BreakdownStays ==
    ASSUME clicks' = clicks, log' = log, applied' = applied,
           NEW b, NEW start, NEW end,
           answer'.result = b, answer'.asked.start = start, answer'.asked.end = end,
           LET listed == {b[i].value : i \in DOMAIN b}
               rest == {c \in Humans(start, end) : Parse(clicks[c].ua).value \notin listed}
           IN  /\ Cardinality(listed) = Len(b)
               /\ Sum(b, "clicks") + Cardinality(rest) = GetSummary(start, end).total
               /\ Len(b) < TopN => rest = {}
               /\ \A c \in rest, i \in DOMAIN b :
                    b[i].clicks >= Cardinality({d \in rest : clicks[d].ua = clicks[c].ua})
    PROVE  BreakdownAddsUp'
<1> DEFINE listed == {b[i].value : i \in DOMAIN b}
           rest == {c \in Humans(start, end) : Parse(clicks[c].ua).value \notin listed}
<1>1. PICK total : total = GetSummary(start, end).total OBVIOUS
<1>2. PICK r : r = rest OBVIOUS
<1>3. /\ Cardinality(listed) = Len(b)
      /\ Sum(b, "clicks") + Cardinality(r) = total
      /\ Len(b) < TopN => r = {}
      /\ \A c \in r, i \in DOMAIN b :
           b[i].clicks >= Cardinality({d \in r : clicks[d].ua = clicks[c].ua})
    <2>1. /\ Cardinality(listed) = Len(b)
          /\ Sum(b, "clicks") + Cardinality(rest) = GetSummary(start, end).total
          /\ Len(b) < TopN => rest = {}
          /\ \A c \in rest, i \in DOMAIN b :
               b[i].clicks >= Cardinality({d \in rest : clicks[d].ua = clicks[c].ua})
        OBVIOUS
    <2> HIDE DEF rest, listed
    <2> QED BY <1>1, <1>2, <2>1
<1>4. total = GetSummary(start, end)'.total
    BY <1>1 DEF GetSummary, InWindow, Replica, IsHuman
<1>5. r = {c \in Humans(start, end)' : Parse(clicks'[c].ua).value \notin listed}
    BY <1>2 DEF Humans, InWindow, Replica, IsHuman
<1> HIDE DEF rest
<1> SUFFICES
      /\ Cardinality(listed) = Len(b)
      /\ Sum(b, "clicks") + Cardinality(r) = total
      /\ Len(b) < TopN => r = {}
      /\ \A c \in r, i \in DOMAIN b :
           b[i].clicks >= Cardinality({d \in r : clicks'[d].ua = clicks'[c].ua})
    BY <1>4, <1>5 DEF BreakdownAddsUp, GetSummary, Humans, InWindow, Replica, IsHuman
<1> QED BY <1>3

\* BreakdownHandler's answer adds up.
LEMMA BreakdownAnswer ==
    ASSUME RowsKept, ShownIsStored, NEW w \in Windows, ReportBreakdown(w)
    PROVE  SeriesBounded' /\ ReportsAddUp' /\ SummaryIsSound'
<1>1. PICK start : start = Start(w, query) OBVIOUS
<1>2. PICK end : end = query OBVIOUS
<1>3. PICK b \in GetBreakdown(start, end) :
        /\ answer' = [kind |-> "breakdown", result |-> b,
                      asked |-> [window |-> w, start |-> start, end |-> end]]
        /\ clicks' = clicks /\ log' = log /\ applied' = applied
    BY <1>1, <1>2 DEF ReportBreakdown, Answer
<1>4. /\ answer'.kind = "breakdown" /\ answer'.result = b
      /\ answer'.asked.start = start /\ answer'.asked.end = end
    BY <1>3
<1>5. SeriesBounded' /\ SummaryIsSound' /\ SeriesAddsUp'
    BY <1>4 DEF SummaryIsSound, UniquesExplained, TotalsOnlyGrow, SeriesAddsUp,
        SeriesBounded, Answered
<1>6. LET listed == {b[i].value : i \in DOMAIN b}
          rest == {c \in Humans(start, end) : Parse(clicks[c].ua).value \notin listed}
      IN  /\ Cardinality(listed) = Len(b)
          /\ Sum(b, "clicks") + Cardinality(rest) = GetSummary(start, end).total
          /\ Len(b) < TopN => rest = {}
          /\ \A c \in rest, i \in DOMAIN b :
               b[i].clicks >= Cardinality({d \in rest : clicks[d].ua = clicks[c].ua})
    BY BreakdownOfWindow
<1>7. BreakdownAddsUp' BY <1>3, <1>4, <1>6, BreakdownStays
<1> QED BY <1>5, <1>7 DEF ReportsAddUp

-----------------------------------------------------------------------------
(* The invariant and the theorems                                          *)

\* Nothing is stored, and nothing was answered.
LEMMA ReportInvInit == ReportInit => ReportInv
<1> SUFFICES ASSUME ReportInit PROVE ReportInv OBVIOUS
<1>1. /\ now = 0 /\ clicks = <<>> /\ log = <<>> /\ applied = 0
      /\ query = Nothing /\ answer = Nothing /\ shown = 0
    BY DEF ReportInit, CreatedAt
<1>2. MaxNow \in Nat /\ MaxClicks \in Nat BY ReportConstants
<1>3. ClicksKept
    <2>1. clicks \in Seq(Click) /\ Len(clicks) = 0 /\ DOMAIN clicks = {}
        <3> HIDE DEF Click
        <3> QED BY <1>1
    <2> QED BY <1>1, <1>2, <2>1 DEF ClicksKept
<1>4. HashesExplained BY <1>1 DEF HashesExplained
<1>5. LogKept BY <1>1 DEF LogKept
<1>6. RowsKept BY <1>3, <1>4, <1>5 DEF RowsKept
<1>7. ShownIsStored
    <2>1. Cardinality(Humans(CreatedAt, now)) \in 0 .. MaxClicks BY <1>6, HumansFacts
    <2> QED BY <1>1, <1>2, <2>1 DEF ShownIsStored
<1>8. SeriesBounded /\ ReportsAddUp /\ SummaryIsSound
    BY <1>1 DEF SeriesBounded, ReportsAddUp, SeriesAddsUp, BreakdownAddsUp, SummaryIsSound,
        UniquesExplained, TotalsOnlyGrow, Answered
<1> QED BY <1>6, <1>7, <1>8 DEF ReportInv

\* Every step keeps the invariant of the reports.
LEMMA ReportInvNext == ReportInv /\ [ReportNext]_reportVars => ReportInv'
<1> SUFFICES ASSUME ReportInv, [ReportNext]_reportVars PROVE ReportInv' OBVIOUS
<1>1. RowsKept /\ ShownIsStored /\ SeriesBounded /\ ReportsAddUp /\ SummaryIsSound
    BY DEF ReportInv
<1>2. RowsKept' /\ RowsGrow BY <1>1, NextRows
<1>3. ShownIsStored' BY <1>1, <1>2, NextShown
<1>4. SeriesBounded' /\ ReportsAddUp' /\ SummaryIsSound'
    <2>1. ASSUME answer' = Nothing PROVE SeriesBounded' /\ ReportsAddUp' /\ SummaryIsSound'
        BY <2>1, NoAnswer
    <2>2. ASSUME NEW v \in Visits, Redirect(v) PROVE answer' = Nothing BY <2>2 DEF Redirect
    <2>3. ASSUME NEW c \in DOMAIN clicks, Capture(c) PROVE answer' = Nothing
        BY <2>3 DEF Capture
    <2>4. ASSUME NEW c \in DOMAIN clicks, Store(c) PROVE answer' = Nothing BY <2>4 DEF Store
    <2>5. ASSUME DeleteUrl PROVE answer' = Nothing BY <2>5 DEF DeleteUrl
    <2>6. ASSUME ReplicateLog PROVE answer' = Nothing BY <2>6 DEF ReplicateLog
    <2>7. ASSUME Tick PROVE answer' = Nothing BY <2>7 DEF Tick
    <2>8. ASSUME ResolveLink PROVE answer' = Nothing BY <2>8 DEF ResolveLink
    <2>9. ASSUME ReportError PROVE answer' = Nothing BY <2>9 DEF ReportError
    <2>10. ASSUME NEW w \in Windows, ReportSummary(w)
           PROVE  SeriesBounded' /\ ReportsAddUp' /\ SummaryIsSound'
        BY <1>1, <2>10, SummaryAnswer
    <2>11. ASSUME NEW w \in Windows, ReportBreakdown(w)
           PROVE  SeriesBounded' /\ ReportsAddUp' /\ SummaryIsSound'
        BY <1>1, <2>11, BreakdownAnswer
    <2>12. ASSUME NEW s \in Bounds \cup {Nothing}, NEW e \in Bounds \cup {Nothing},
                  NEW w \in Windows, NEW g \in Granularities, ReportSeries(s, e, w, g)
           PROVE  SeriesBounded' /\ ReportsAddUp' /\ SummaryIsSound'
        BY <1>1, <2>12, SeriesAnswer
    <2>13. ASSUME UNCHANGED reportVars
           PROVE  SeriesBounded' /\ ReportsAddUp' /\ SummaryIsSound'
        <3>1. SeriesBounded' BY <1>1, <2>13 DEF reportVars, SeriesBounded, Answered
        <3>2. SeriesAddsUp'
            BY <1>1, <2>13 DEF reportVars, ReportsAddUp, SeriesAddsUp, Answered, GetSummary,
                InWindow, Replica, IsHuman, UniqueIPs
        <3>3. BreakdownAddsUp'
            <4> SUFFICES ASSUME Answered("breakdown")' PROVE BreakdownAddsUp'
                BY DEF BreakdownAddsUp
            <4>1. answer' = answer /\ clicks' = clicks /\ log' = log /\ applied' = applied
                BY <2>13 DEF reportVars
            <4>2. PICK b, start, end : /\ b = answer.result /\ start = answer.asked.start
                                       /\ end = answer.asked.end
                OBVIOUS
            <4>3. Answered("breakdown") BY <4>1 DEF Answered
            <4>4. BreakdownAddsUp BY <1>1 DEF ReportsAddUp
            <4> QED BY <4>1, <4>2, <4>3, <4>4, BreakdownStays DEF BreakdownAddsUp
        <3>4. SummaryIsSound'
            BY <1>1, <2>13 DEF reportVars, SummaryIsSound, UniquesExplained, TotalsOnlyGrow,
                Answered, Humans, InWindow, Replica, IsHuman, RawIP, Day
        <3> QED BY <3>1, <3>2, <3>3, <3>4 DEF ReportsAddUp
    <2> QED
        BY <2>1, <2>2, <2>3, <2>4, <2>5, <2>6, <2>7, <2>8, <2>9, <2>10, <2>11, <2>12, <2>13
        DEF ReportNext
<1> QED BY <1>2, <1>3, <1>4 DEF ReportInv

\* The invariant of the reports says of what kind every value is.
LEMMA ReportTyped == ReportInv => ReportTypeOK
<1> SUFFICES ASSUME ReportInv PROVE ReportTypeOK OBVIOUS
<1>1. RowsKept /\ ShownIsStored /\ SeriesBounded BY DEF ReportInv
<1>2. now \in 0 .. MaxNow /\ Len(clicks) <= MaxClicks /\ clicks \in Seq(Click)
    BY <1>1 DEF RowsKept, ClicksKept
<1>3. ASSUME NEW c \in DOMAIN clicks
      PROVE  clicks[c].at \in 0 .. now /\ clicks[c].state \in {"stamped", "captured", "stored"}
    <2>1. clicks[c] \in Click /\ clicks[c].at \in Nat BY <1>1, ClickFields
    <2>2. clicks[c].at <= now BY <1>1 DEF RowsKept, ClicksKept
    <2>3. clicks[c].at \in 0 .. now BY <1>2, <2>1, <2>2
    <2>4. clicks[c].state \in {"stamped", "captured", "stored"} BY <2>1 DEF Click
    <2> QED BY <2>3, <2>4
<1>4. log \in Seq(Nat) /\ applied \in 0 .. Len(log)
      /\ \A i \in DOMAIN log : log[i] # Deletion => log[i] \in DOMAIN clicks
    BY <1>1 DEF RowsKept, LogKept
<1>5. \A c \in DOMAIN clicks : c \in Clicks
    <2>1. MaxClicks \in Nat /\ Len(clicks) \in Nat BY <1>2, ReportConstants
    <2>2. DOMAIN clicks = 1 .. Len(clicks)
        <3> HIDE DEF Click
        <3> QED BY <1>2
    <2> QED BY <1>2, <2>1, <2>2 DEF Clicks
<1>6. ToSet(log) \subseteq Clicks \cup {Deletion} BY <1>4, <1>5 DEF ToSet
<1>7. query \in (0 .. now) \cup {Nothing} /\ shown \in 0 .. MaxClicks
    BY <1>1 DEF ShownIsStored
<1> QED BY <1>1, <1>2, <1>3, <1>4, <1>6, <1>7 DEF ReportTypeOK, SeriesBounded

\* What is known of the rows and of the answers is true in every reachable
\* state.
THEOREM ReportsInductive == ReportSpec => []ReportInv
<1>1. ReportInit => ReportInv BY ReportInvInit
<1>2. ReportInv /\ [ReportNext]_reportVars => ReportInv' BY ReportInvNext
<1> QED BY <1>1, <1>2, PTL DEF ReportSpec

\* Every variable keeps its type; in particular a series never has more points
\* than the longest window of its granularity has buckets, and one, however its
\* bounds are given (ValidateWindowGranularity, TimeSeriesHandler).
THEOREM ReportsTyped == ReportSpec => []ReportTypeOK
<1>1. ReportInv => ReportTypeOK BY ReportTyped
<1> QED BY <1>1, ReportsInductive, PTL

\* A summary's unique visitors are at least the different IPs in its window and
\* at most its addresses day by day and its late clicks, and the all-time total
\* never goes down from one report to the next, on a replica that lags (Hash,
\* GetSummary, SummaryHandler).
THEOREM SummariesAreSound == ReportSpec => []SummaryIsSound
<1>1. ReportInv => SummaryIsSound BY DEF ReportInv
<1> QED BY <1>1, ReportsInductive, PTL

\* A series and a breakdown add up to the summary of their window, over the same
\* rows, for every start and end, every size of a bucket and every TopN
\* (GetTimeSeries, GetBreakdown, GetSummary).
THEOREM ReportsAgree == ReportSpec => []ReportsAddUp
<1>1. ReportInv => ReportsAddUp BY DEF ReportInv
<1> QED BY <1>1, ReportsInductive, PTL

-----------------------------------------------------------------------------
(* Exports                                                                 *)

USE ExportConstants

\* Only created jobs have a row.
NotYetCreated == \A j \in Jobs : j > created => jobs[j].status = "none"

\* A worker's job is in processing.
WorkersJob == \A p \in Pods : wjob[p] # None => jobs[wjob[p]].status = "processing"

Attended == NotYetCreated /\ WorkersJob /\ OneWorkerPerJob /\ StuckIsExplained

\* What the worker of pod p knows of its file, at each place where it matters.
FileOf(p) ==
    /\ wpc[p] \in {"idle", "open"} => count[p] = 0
    /\ wpc[p] = "query" => files[p][wjob[p]] = 0 /\ count[p] = 0
    /\ wpc[p] = "rows" => /\ files[p][wjob[p]] = count[p] /\ count[p] <= want[p]
                          /\ jobs[wjob[p]].whole = want[p] /\ leaked[p] < MaxConns
    /\ wpc[p] \in {"size", "complete"} =>
          /\ files[p][wjob[p]] = count[p]
          /\ cancelled[p] \/ count[p] = jobs[wjob[p]].whole

FileOfWorker == \A p \in Pods : FileOf(p)

\* No pod but its worker's has a file of a job that is being worked on.
OnlyWorkerHasFile ==
    \A p, q \in Pods : p # q /\ wjob[p] # None => files[q][wjob[p]] = None

NoFileBeforeClaim ==
    \A p \in Pods, j \in Jobs : jobs[j].status \in {"none", "pending"} => files[p][j] = None

\* A completed job's file is whole where it is, and is there as long as the
\* process that signed for it.
CompletedIsKept ==
    \A p \in Pods, j \in Jobs : jobs[j].status = "completed" =>
        /\ files[p][j] \in {None, jobs[j].whole}
        /\ \A e \in Nat : jobs[j].signer = <<p, e>> => e <= epoch[p]
        /\ jobs[j].signer = <<p, epoch[p]>> => files[p][j] = jobs[j].whole

FilesKept ==
    /\ FileOfWorker /\ OnlyWorkerHasFile /\ NoFileBeforeClaim /\ CompletedIsKept

\* The replica shows a completed job as it is: nothing writes its row again.
ReplicaOfCompleted ==
    \A j \in Jobs : rjobs[j].status = "completed" => rjobs[j] = jobs[j]

IInv == TypeOK /\ Attended /\ FilesKept /\ ReplicaOfCompleted

-----------------------------------------------------------------------------
(* What the statements on the job row and the storage calls change         *)

\* The statements' effect on one row.
LEMMA StatusEdit ==
    ASSUME NEW r \in Job,
           NEW s \in {"none", "pending", "processing", "completed", "failed"}
    PROVE  LET t == [r EXCEPT !.status = s] IN
           t \in Job /\ t.status = s /\ t.signer = r.signer /\ t.whole = r.whole
BY DEF Job

LEMMA WholeEdit ==
    ASSUME NEW r \in Job, NEW n \in 0 .. MaxRows
    PROVE  LET t == [r EXCEPT !.whole = n] IN
           t \in Job /\ t.status = r.status /\ t.signer = r.signer /\ t.whole = n
BY DEF Job

LEMMA CompletedEdit ==
    ASSUME TypeOK, NEW r \in Job, NEW p \in Pods
    PROVE  LET t == Completed(p, r) IN
           /\ t \in Job /\ t.status = "completed" /\ t.signer = <<p, epoch[p]>>
           /\ t.whole = r.whole
<1>1. <<p, epoch[p]>> \in Pods \X Nat
  BY DEF TypeOK
<1> QED
  BY <1>1 DEF Completed, Job

\* One row of the table is written, the others stay.
LEMMA RowWritten ==
    ASSUME TypeOK, NEW j \in Jobs, NEW r \in Job, jobs' = [jobs EXCEPT ![j] = r]
    PROVE  /\ jobs' \in [Jobs -> Job] /\ jobs'[j] = r
           /\ \A k \in Jobs : k # j => jobs'[k] = jobs[k]
BY DEF TypeOK

\* A worker that is not idle has a job.
LEMMA Busy ==
    ASSUME TypeOK, NEW p \in Pods, wpc[p] # "idle"
    PROVE  wjob[p] \in Jobs /\ jobs[wjob[p]] \in Job
BY DEF TypeOK

\* An idle worker has none.
LEMMA NoJob ==
    ASSUME TypeOK, NEW p \in Pods
    PROVE  /\ wpc[p] = "idle" <=> wjob[p] = None
           /\ None \notin Jobs
BY DEF TypeOK, Jobs

LEMMA CreateEffect ==
    ASSUME TypeOK, Create
    PROVE  /\ created + 1 \in Jobs /\ created' = created + 1
           /\ jobs' \in [Jobs -> Job] /\ jobs'[created + 1].status = "pending"
           /\ \A k \in Jobs : k # created + 1 => jobs'[k] = jobs[k]
<1> DEFINE r == [jobs[created + 1] EXCEPT !.status = "pending"]
<1>1. created + 1 \in Jobs /\ created' = created + 1 /\ jobs[created + 1] \in Job
  BY DEF Create, TypeOK, Jobs
<1>2. r \in Job /\ r.status = "pending"
  BY <1>1, StatusEdit
<1>3. jobs' = [jobs EXCEPT ![created + 1] = r]
  BY DEF Create
<1> HIDE DEF r
<1> QED
  BY <1>1, <1>2, <1>3, RowWritten

LEMMA ClaimEffect ==
    ASSUME TypeOK, NEW p \in Pods, NEW j \in Jobs, Claim(p, j)
    PROVE  /\ jobs' \in [Jobs -> Job] /\ jobs'[j].status = "processing"
           /\ \A k \in Jobs : k # j => jobs'[k] = jobs[k]
<1> DEFINE r == Claimed(jobs[j])
<1>1. jobs[j] \in Job
  BY DEF TypeOK
<1>2. r \in Job /\ r.status = "processing"
  BY <1>1, StatusEdit DEF Claimed
<1>3. jobs' = [jobs EXCEPT ![j] = r]
  BY DEF Claim
<1> HIDE DEF r
<1> QED
  BY <1>2, <1>3, RowWritten

\* The query succeeds or it does not.
LEMMA QueryEffect ==
    ASSUME TypeOK, NEW p \in Pods, Query(p)
    PROVE  LET j == wjob[p] IN
           /\ j \in Jobs /\ jobs' \in [Jobs -> Job] /\ want' \in [Pods -> 0 .. MaxRows]
           /\ \A k \in Jobs : k # j => jobs'[k] = jobs[k]
           /\ \A q \in Pods \ {p} : want'[q] = want[q]
           /\ jobs'[j].status = jobs[j].status
           /\ jobs'[j].signer = jobs[j].signer
           /\ wpc' \in {[wpc EXCEPT ![p] = "rows"], [wpc EXCEPT ![p] = "drop"]}
           /\ wpc'[p] = "rows" => jobs'[j].whole = want'[p] /\ leaked[p] < MaxConns
<1> DEFINE j == wjob[p]
<1>1. j \in Jobs /\ jobs[j] \in Job /\ DOMAIN wpc = Pods
  BY Busy DEF Query, TypeOK
<1>2. CASE wpc' = [wpc EXCEPT ![p] = "rows"]
  <2>1. PICK n \in 0 .. MaxRows : /\ want' = [want EXCEPT ![p] = n]
                                  /\ jobs' = [jobs EXCEPT ![j].whole = n]
    BY <1>1, <1>2 DEF Query, Goto
  <2> DEFINE r == [jobs[j] EXCEPT !.whole = n]
  <2>2. /\ r \in Job /\ r.status = jobs[j].status /\ r.signer = jobs[j].signer
        /\ r.whole = n
    BY <1>1, WholeEdit
  <2>3. jobs' = [jobs EXCEPT ![j] = r]
    BY <2>1
  <2>4. HasConn(p)
    BY <1>1, <1>2 DEF Query, Goto
  <2> HIDE DEF r
  <2>5. want' \in [Pods -> 0 .. MaxRows] /\ want'[p] = n
    BY <2>1 DEF TypeOK
  <2>6. \A q \in Pods \ {p} : want'[q] = want[q]
    BY <2>1 DEF TypeOK
  <2> QED
    BY <1>1, <1>2, <2>2, <2>3, <2>4, <2>5, <2>6, RowWritten DEF HasConn
<1>3. CASE Goto(p, "drop") /\ UNCHANGED jobs
  BY <1>1, <1>3 DEF Goto, TypeOK
<1> QED
  BY <1>1, <1>2, <1>3 DEF Query

\* MarkCompleted takes effect, or the job is cut off.
LEMMA CompleteEffect ==
    ASSUME TypeOK, NEW p \in Pods, Complete(p)
    PROVE  LET j == wjob[p] IN
           /\ j \in Jobs /\ jobs' \in [Jobs -> Job]
           /\ \A k \in Jobs : k # j => jobs'[k] = jobs[k]
           /\ broken' \in {broken, broken \cup {j}}
           /\ \/ /\ jobs'[j].status = "completed" /\ jobs'[j].whole = jobs[j].whole
                 /\ jobs'[j].signer = <<p, epoch[p]>> /\ ~cancelled[p]
              \/ jobs'[j] = jobs[j] /\ broken' = broken \cup {j}
<1> DEFINE j == wjob[p]
           r == Completed(p, jobs[j])
<1>1. j \in Jobs /\ jobs[j] \in Job /\ <<p, epoch[p]>> \in Pods \X Nat
  BY Busy DEF Complete, TypeOK
<1>2. /\ r \in Job /\ r.status = "completed" /\ r.signer = <<p, epoch[p]>>
      /\ r.whole = jobs[j].whole
  BY <1>1, CompletedEdit
<1>3. \/ /\ jobs' = [jobs EXCEPT ![j] = r] /\ ~cancelled[p]
         /\ broken' \in {broken, broken \cup {j}}
      \/ jobs' = jobs /\ broken' = broken \cup {j}
  BY DEF Complete, DbWorks
<1> HIDE DEF r
<1>4. CASE jobs' = jobs /\ broken' = broken \cup {j}
  BY <1>1, <1>4 DEF TypeOK
<1> QED
  BY <1>1, <1>2, <1>3, <1>4, RowWritten

\* MarkFailed takes effect, or the job is cut off.
LEMMA FailEffect ==
    ASSUME TypeOK, NEW p \in Pods, Fail(p)
    PROVE  LET j == wjob[p] IN
           /\ j \in Jobs /\ jobs' \in [Jobs -> Job]
           /\ \A k \in Jobs : k # j => jobs'[k] = jobs[k]
           /\ broken' \in {broken, broken \cup {j}}
           /\ \/ jobs'[j].status = "failed"
              \/ jobs'[j] = jobs[j] /\ broken' = broken \cup {j}
<1> DEFINE j == wjob[p]
           r == [jobs[j] EXCEPT !.status = "failed"]
<1>1. j \in Jobs /\ jobs[j] \in Job
  BY Busy DEF Fail
<1>2. r \in Job /\ r.status = "failed"
  BY <1>1, StatusEdit
<1>3. \/ /\ jobs' = [jobs EXCEPT ![j] = r]
         /\ broken' \in {broken, broken \cup {j}}
      \/ jobs' = jobs /\ broken' = broken \cup {j}
  BY DEF Fail
<1> HIDE DEF r
<1>4. CASE jobs' = jobs /\ broken' = broken \cup {j}
  BY <1>1, <1>4 DEF TypeOK
<1> QED
  BY <1>1, <1>2, <1>3, <1>4, RowWritten

\* A worker's storage call touches its own file only.
LEMMA FileWritten ==
    ASSUME TypeOK, NEW p \in Pods, NEW j \in Jobs, NEW n \in 0 .. MaxRows \cup {None},
           files' = [files EXCEPT ![p][j] = n]
    PROVE  /\ files' \in [Pods -> [Jobs -> 0 .. MaxRows \cup {None}]]
           /\ files'[p][j] = n
           /\ \A q \in Pods, k \in Jobs : q # p \/ k # j => files'[q][k] = files[q][k]
BY DEF TypeOK

\* A restart keeps the disk or starts with an empty one.
LEMMA RestartEffect ==
    ASSUME TypeOK, NEW p \in Pods, Restart(p)
    PROVE  /\ files' \in [Pods -> [Jobs -> 0 .. MaxRows \cup {None}]]
           /\ \A q \in Pods, k \in Jobs : q # p => files'[q][k] = files[q][k]
           /\ \A k \in Jobs : files'[p][k] \in {files[p][k], None}
           /\ epoch' \in [Pods -> Nat] /\ epoch'[p] = epoch[p] + 1
           /\ \A q \in Pods \ {p} : epoch'[q] = epoch[q]
<1>1. epoch' = [epoch EXCEPT ![p] = @ + 1]
  BY DEF Restart
<1>2. CASE files' = files
  BY <1>1, <1>2 DEF TypeOK
<1>3. CASE files' = [files EXCEPT ![p] = [j \in Jobs |-> None]]
  BY <1>1, <1>3 DEF TypeOK
<1> QED
  BY <1>2, <1>3 DEF Restart


-----------------------------------------------------------------------------
(* Types                                                                   *)

LEMMA InitType == Init => TypeOK
<1> SUFFICES ASSUME Init PROVE TypeOK
  OBVIOUS
<1>1. [status |-> "none", signer |-> None, whole |-> 0] \in Job
  BY DEF Job
<1> QED
  BY <1>1 DEF Init, TypeOK

\* What TypeOK says of the workers.
WorkerType ==
    /\ wpc \in [Pods -> {"idle", "open", "query", "rows", "size", "complete",
                         "drop", "fail"}]
    /\ \A p \in Pods : (wpc[p] = "idle") = (wjob[p] = None)
    /\ wjob \in [Pods -> Jobs \cup {None}]
    /\ count \in [Pods -> 0 .. MaxRows] /\ want \in [Pods -> 0 .. MaxRows]

LEMMA SlipType == TypeOK /\ (Slip \/ UNCHANGED slips) => slips' \in 0 .. MaxSlips
BY DEF TypeOK, Slip

\* processOne goes on, keeping its job, or takes one.
LEMMA GotoType ==
    ASSUME TypeOK, NEW p \in Pods,
           NEW pc \in {"open", "query", "rows", "size", "complete", "drop", "fail"},
           wpc' = [wpc EXCEPT ![p] = pc], count' \in [Pods -> 0 .. MaxRows],
           want' \in [Pods -> 0 .. MaxRows],
           \/ wpc[p] # "idle" /\ wjob' = wjob
           \/ \E j \in Jobs : wjob' = [wjob EXCEPT ![p] = j]
    PROVE  WorkerType'
<1>1. None \notin Jobs
  BY DEF Jobs
<1>2. pc # "idle"
  OBVIOUS
<1>3. wpc' \in [Pods -> {"idle", "open", "query", "rows", "size", "complete",
                         "drop", "fail"}]
      /\ wpc'[p] # "idle" /\ \A q \in Pods \ {p} : wpc'[q] = wpc[q]
  BY <1>2 DEF TypeOK
<1>4. wjob' \in [Pods -> Jobs \cup {None}]
      /\ wjob'[p] # None /\ \A q \in Pods \ {p} : wjob'[q] = wjob[q]
  <2>1. CASE wpc[p] # "idle" /\ wjob' = wjob
    BY <2>1 DEF TypeOK
  <2>2. ASSUME NEW j \in Jobs, wjob' = [wjob EXCEPT ![p] = j]
        PROVE  /\ wjob' \in [Pods -> Jobs \cup {None}] /\ wjob'[p] # None
               /\ \A q \in Pods \ {p} : wjob'[q] = wjob[q]
    BY <1>1, <2>2 DEF TypeOK
  <2> QED
    BY <2>1, <2>2
<1>5. \A q \in Pods : (wpc'[q] = "idle") = (wjob'[q] = None)
  BY <1>3, <1>4 DEF TypeOK
<1> QED
  BY <1>3, <1>4, <1>5 DEF WorkerType

\* processOne returns.
LEMMA IdleType ==
    ASSUME TypeOK, NEW p \in Pods, Idle(p)
    PROVE  WorkerType'
BY DEF TypeOK, Idle, WorkerType

LEMMA NextType == TypeOK /\ FileOfWorker /\ [Next]_vars => TypeOK'
<1> SUFFICES ASSUME TypeOK, FileOfWorker, [Next]_vars PROVE TypeOK'
  OBVIOUS
<1> USE DEF rowVars, workVars, podVars
<1>1. CASE Create
  BY <1>1, CreateEffect DEF Create, TypeOK, Jobs
<1>2. ASSUME NEW j \in Jobs, Replicate(j) PROVE TypeOK'
  BY <1>2 DEF Replicate, TypeOK
<1>3. ASSUME NEW p \in Pods, NEW j \in Jobs, Claim(p, j) PROVE TypeOK'
  <2>1. CASE wjob' = [wjob EXCEPT ![p] = j]
    <3>1. DOMAIN wpc = Pods /\ wpc[p] = "idle"
      BY <1>3 DEF Claim, TypeOK
    <3>3. wjob'[p] = j /\ wjob[p] # j
      BY <2>1, <3>1, NoJob DEF TypeOK
    <3>4. wpc' = [wpc EXCEPT ![p] = "open"] /\ UNCHANGED <<count, want, slips, broken>>
      BY <1>3, <3>3 DEF Claim
    <3>5. WorkerType'
      BY <2>1, <3>4, GotoType DEF TypeOK
    <3> QED
      BY <1>3, <3>4, <3>5, ClaimEffect DEF Claim, TypeOK, WorkerType
  <2>2. CASE UNCHANGED workVars
    BY <1>3, <2>2, SlipType, ClaimEffect DEF Claim, TypeOK
  <2> QED
    BY <1>3, <2>1, <2>2 DEF Claim
<1>4. ASSUME NEW p \in Pods, OpenFile(p) PROVE TypeOK'
  <2>1. wjob[p] \in Jobs /\ 0 \in 0 .. MaxRows
    BY <1>4, Busy DEF OpenFile
  <2>2. ASSUME files' = [files EXCEPT ![p][wjob[p]] = 0]
        PROVE  files' \in [Pods -> [Jobs -> 0 .. MaxRows \cup {None}]]
    BY <2>1, <2>2, FileWritten
  <2>3. files' \in [Pods -> [Jobs -> 0 .. MaxRows \cup {None}]]
    BY <1>4, <2>2 DEF OpenFile, TypeOK
  <2>4. WorkerType'
    BY <1>4, GotoType DEF OpenFile, Goto, TypeOK
  <2>5. slips' \in 0 .. MaxSlips
    BY <1>4, SlipType DEF OpenFile
  <2> QED
    BY <1>4, <2>3, <2>4, <2>5 DEF OpenFile, TypeOK, WorkerType
<1>5. ASSUME NEW p \in Pods, Query(p) PROVE TypeOK'
  <2>1. WorkerType'
    BY <1>5, GotoType, QueryEffect DEF Query, Goto, TypeOK
  <2>2. slips' \in 0 .. MaxSlips
    BY <1>5, SlipType DEF Query
  <2> QED
    BY <1>5, <2>1, <2>2, QueryEffect DEF Query, TypeOK, WorkerType
<1>6. ASSUME NEW p \in Pods, WriteRow(p) PROVE TypeOK'
  <2>1. wjob[p] \in Jobs
    BY <1>6, Busy DEF WriteRow
  <2>2. count[p] + 1 \in 0 .. MaxRows /\ files[p][wjob[p]] + 1 = count[p] + 1
    BY <1>6 DEF WriteRow, TypeOK, FileOfWorker, FileOf
  <2>3. files' \in [Pods -> [Jobs -> 0 .. MaxRows \cup {None}]]
    <3>1. files' = [files EXCEPT ![p][wjob[p]] = count[p] + 1]
      BY <1>6, <2>2 DEF WriteRow
    <3> QED
      BY <2>1, <2>2, <3>1, FileWritten
  <2> QED
    BY <1>6, <2>2, <2>3 DEF WriteRow, TypeOK
<1>7. ASSUME NEW p \in Pods, RowsEnd(p) \/ RowsError(p) \/ RowsCancelled(p) PROVE TypeOK'
  <2>1. WorkerType'
    BY <1>7, GotoType DEF RowsEnd, RowsError, RowsCancelled, Goto, TypeOK
  <2>2. slips' \in 0 .. MaxSlips
    BY <1>7, SlipType DEF RowsEnd, RowsError, RowsCancelled
  <2> QED
    BY <1>7, <2>1, <2>2 DEF RowsEnd, RowsError, RowsCancelled, TypeOK, WorkerType
<1>8. ASSUME NEW p \in Pods, WriteError(p) PROVE TypeOK'
  <2>1. leaked' \in [Pods -> 0 .. MaxConns]
    BY <1>8 DEF WriteError, TypeOK, FileOfWorker, FileOf
  <2>2. WorkerType'
    BY <1>8, GotoType DEF WriteError, Goto, TypeOK
  <2> QED
    BY <1>8, <2>1, <2>2, SlipType DEF WriteError, TypeOK, WorkerType
<1>9. ASSUME NEW p \in Pods, Size(p) PROVE TypeOK'
  <2>1. WorkerType'
    BY <1>9, GotoType DEF Size, SizeError, Goto, TypeOK
  <2>2. slips' \in 0 .. MaxSlips
    BY <1>9, SlipType DEF Size
  <2> QED
    BY <1>9, <2>1, <2>2 DEF Size, TypeOK, WorkerType
<1>10. ASSUME NEW p \in Pods, Complete(p) PROVE TypeOK'
  <2>1. slips' \in 0 .. MaxSlips /\ broken' \subseteq Jobs
    BY <1>10, CompleteEffect DEF Complete, Slip, TypeOK
  <2> QED
    BY <1>10, <2>1, CompleteEffect, IdleType DEF Complete, TypeOK, WorkerType
<1>11. ASSUME NEW p \in Pods, DropFile(p) PROVE TypeOK'
  <2>1. wjob[p] \in Jobs
    BY <1>11, Busy DEF DropFile
  <2>2. ASSUME files' = [files EXCEPT ![p][wjob[p]] = None]
        PROVE  files' \in [Pods -> [Jobs -> 0 .. MaxRows \cup {None}]]
    BY <2>1, <2>2, FileWritten
  <2>3. files' \in [Pods -> [Jobs -> 0 .. MaxRows \cup {None}]]
    BY <1>11, <2>2 DEF DropFile, TypeOK
  <2>4. WorkerType'
    BY <1>11, GotoType DEF DropFile, Goto, TypeOK
  <2>5. slips' \in 0 .. MaxSlips
    BY <1>11, SlipType DEF DropFile
  <2> QED
    BY <1>11, <2>3, <2>4, <2>5 DEF DropFile, TypeOK, WorkerType
<1>12. ASSUME NEW p \in Pods, Fail(p) PROVE TypeOK'
  <2>1. slips' \in 0 .. MaxSlips /\ broken' \subseteq Jobs
    BY <1>12, FailEffect DEF Fail, Slip, TypeOK
  <2> QED
    BY <1>12, <2>1, FailEffect, IdleType DEF Fail, TypeOK, WorkerType
<1>13. ASSUME NEW p \in Pods, Terminate(p) PROVE TypeOK'
  <2>1. leaked' \in [Pods -> 0 .. MaxConns] /\ cancelled' \in [Pods -> BOOLEAN]
    BY <1>13 DEF Terminate, TypeOK
  <2> QED
    BY <1>13, <2>1 DEF Terminate, Slip, TypeOK
<1>14. ASSUME NEW p \in Pods, Restart(p) PROVE TypeOK'
  <2>1. leaked' \in [Pods -> 0 .. MaxConns] /\ cancelled' \in [Pods -> BOOLEAN]
    BY <1>14 DEF Restart, TypeOK
  <2>2. slips' \in 0 .. MaxSlips /\ broken' \subseteq Jobs
    BY <1>14 DEF Restart, Slip, TypeOK
  <2> QED
    BY <1>14, <2>1, <2>2, RestartEffect, IdleType DEF Restart, TypeOK, WorkerType
<1>15. CASE UNCHANGED vars
  BY <1>15 DEF vars, TypeOK
<1> QED
  BY <1>1, <1>2, <1>3, <1>4, <1>5, <1>6, <1>7, <1>8, <1>9, <1>10, <1>11, <1>12, <1>13,
     <1>14, <1>15 DEF Next, WorkerStep



-----------------------------------------------------------------------------
(* Jobs and their workers                                                  *)

LEMMA InitAttended == Init => Attended
BY DEF Init, Attended, NotYetCreated, WorkersJob, OneWorkerPerJob, StuckIsExplained

\* A step that writes no job row and moves no worker to another job.
LEMMA SameAttended == Attended /\ UNCHANGED <<created, jobs, wjob, broken>> => Attended'
BY DEF Attended, NotYetCreated, WorkersJob, OneWorkerPerJob, StuckIsExplained

\* processOne returns: its job is over, or in broken.
LEMMA IdleAttended ==
    ASSUME TypeOK, Attended, NEW p \in Pods, Idle(p), created' = created,
           \A k \in Jobs : k # wjob[p] => jobs'[k] = jobs[k],
           broken \subseteq broken', wjob[p] # None,
           jobs'[wjob[p]].status \in {"completed", "failed"} \/ wjob[p] \in broken',
           jobs'[wjob[p]].status # "none"
    PROVE  Attended'
<1>1. wjob' = [wjob EXCEPT ![p] = None] /\ wjob[p] \in Jobs
  BY DEF Idle, TypeOK
<1>2. wjob'[p] = None /\ \A q \in Pods \ {p} : wjob'[q] = wjob[q]
  BY <1>1 DEF TypeOK
<1>3. NotYetCreated'
  BY <1>1 DEF Attended, NotYetCreated, WorkersJob
<1>4. WorkersJob' /\ OneWorkerPerJob'
  BY <1>1, <1>2 DEF Attended, WorkersJob, OneWorkerPerJob, TypeOK
<1>5. StuckIsExplained'
  BY <1>1, <1>2 DEF Attended, StuckIsExplained
<1> QED
  BY <1>3, <1>4, <1>5 DEF Attended

LEMMA NextAttended == TypeOK /\ Attended /\ [Next]_vars => Attended'
<1> SUFFICES ASSUME TypeOK, Attended, [Next]_vars PROVE Attended'
  OBVIOUS
<1> USE DEF rowVars, workVars, podVars
<1>1. CASE Create
  <2>1. jobs[created + 1].status = "none" /\ created \in Nat
    BY <1>1, CreateEffect DEF Attended, NotYetCreated, TypeOK
  <2>2. UNCHANGED <<wjob, broken>>
    BY <1>1 DEF Create
  <2>3. NotYetCreated'
    BY <1>1, <2>1, CreateEffect DEF Attended, NotYetCreated, Jobs
  <2>4. WorkersJob' /\ OneWorkerPerJob'
    BY <1>1, <2>1, <2>2, CreateEffect DEF Attended, WorkersJob, OneWorkerPerJob, TypeOK
  <2>5. StuckIsExplained'
    BY <1>1, <2>2, CreateEffect DEF Attended, StuckIsExplained
  <2> QED
    BY <2>3, <2>4, <2>5 DEF Attended
<1>2. ASSUME NEW j \in Jobs, Replicate(j) PROVE Attended'
  BY <1>2, SameAttended DEF Replicate
<1>3. ASSUME NEW p \in Pods, NEW j \in Jobs, Claim(p, j) PROVE Attended'
  <2>1. jobs[j].status = "pending" /\ created' = created /\ wjob[p] = None
    BY <1>3, NoJob DEF Claim, Claimable
  <2>2. \A q \in Pods : wjob[q] # j
    BY <2>1, NoJob DEF Attended, WorkersJob
  <2>3. \/ wjob' = [wjob EXCEPT ![p] = j] /\ broken' = broken
        \/ wjob' = wjob /\ broken' = broken \cup {j}
    BY <1>3 DEF Claim
  <2>4. NotYetCreated'
    BY <1>3, <2>1, ClaimEffect DEF Attended, NotYetCreated
  <2>5. WorkersJob' /\ OneWorkerPerJob'
    <3>1. wjob'[p] \in {None, j} /\ \A q \in Pods \ {p} : wjob'[q] = wjob[q]
      BY <2>1, <2>3 DEF TypeOK
    <3>2. \A q \in Pods : wjob[q] # None => jobs'[wjob[q]] = jobs[wjob[q]]
      BY <1>3, <2>2, ClaimEffect DEF TypeOK
    <3>3. jobs'[j].status = "processing"
      BY <1>3, ClaimEffect
    <3> QED
      BY <2>2, <3>1, <3>2, <3>3 DEF Attended, WorkersJob, OneWorkerPerJob
  <2>6. StuckIsExplained'
    <3>1. CASE wjob' = wjob /\ broken' = broken \cup {j}
      BY <1>3, <3>1, ClaimEffect DEF Attended, StuckIsExplained
    <3>2. CASE wjob' = [wjob EXCEPT ![p] = j] /\ broken' = broken
      <4>1. wjob'[p] = j /\ \A q \in Pods \ {p} : wjob'[q] = wjob[q]
        BY <3>2 DEF TypeOK
      <4> QED
        BY <1>3, <2>1, <3>2, <4>1, ClaimEffect, NoJob DEF Attended, StuckIsExplained
    <3> QED
      BY <2>3, <3>1, <3>2
  <2> QED
    BY <2>4, <2>5, <2>6 DEF Attended
<1>4. ASSUME NEW p \in Pods, Query(p) PROVE Attended'
  <2>1. /\ \A k \in Jobs : jobs'[k].status = jobs[k].status
        /\ UNCHANGED <<created, wjob, broken>>
    BY <1>4, QueryEffect DEF Query, Goto
  <2>2. WorkersJob'
    BY <2>1 DEF Attended, WorkersJob, TypeOK
  <2> QED
    BY <2>1, <2>2 DEF Attended, NotYetCreated, OneWorkerPerJob, StuckIsExplained
<1>5. ASSUME NEW p \in Pods,
             \/ OpenFile(p) \/ RowsEnd(p) \/ WriteError(p) \/ RowsError(p)
             \/ RowsCancelled(p) \/ Size(p) \/ DropFile(p)
      PROVE  Attended'
  BY <1>5, SameAttended DEF OpenFile, RowsEnd, WriteError, RowsError, RowsCancelled, Size,
     SizeError, DropFile, Goto
<1>6. ASSUME NEW p \in Pods, WriteRow(p) \/ Terminate(p) PROVE Attended'
  BY <1>6, SameAttended DEF WriteRow, Terminate
<1>7. ASSUME NEW p \in Pods, Complete(p) PROVE Attended'
  <2>1. jobs[wjob[p]].status = "processing" /\ wjob[p] # None
    BY <1>7, NoJob DEF Complete, Attended, WorkersJob
  <2> QED
    BY <1>7, <2>1, CompleteEffect, IdleAttended DEF Complete
<1>8. ASSUME NEW p \in Pods, Fail(p) PROVE Attended'
  <2>1. jobs[wjob[p]].status = "processing" /\ wjob[p] # None
    BY <1>8, NoJob DEF Fail, Attended, WorkersJob
  <2> QED
    BY <1>8, <2>1, FailEffect, IdleAttended DEF Fail
<1>9. ASSUME NEW p \in Pods, Restart(p) PROVE Attended'
  <2>1. CASE wjob[p] = None
    <3>1. wjob' = wjob /\ UNCHANGED <<created, jobs, broken>>
      BY <1>9, <2>1 DEF Restart, Idle, TypeOK
    <3> QED
      BY <3>1, SameAttended
  <2>2. CASE wjob[p] # None
    <3>1. jobs[wjob[p]].status = "processing"
      BY <2>2 DEF Attended, WorkersJob
    <3> QED
      BY <1>9, <2>2, <3>1, IdleAttended DEF Restart
  <2> QED
    BY <2>1, <2>2
<1>10. CASE UNCHANGED vars
  BY <1>10, SameAttended DEF vars
<1> QED
  BY <1>1, <1>2, <1>3, <1>4, <1>5, <1>6, <1>7, <1>8, <1>9, <1>10 DEF Next, WorkerStep



-----------------------------------------------------------------------------
(* Jobs and their files                                                    *)

LEMMA InitFiles == Init => FilesKept
BY DEF Init, FilesKept, FileOfWorker, FileOf, OnlyWorkerHasFile, NoFileBeforeClaim, CompletedIsKept

\* What a worker's step leaves alone: the other workers, their jobs and every
\* other file.
Others(p) ==
    /\ \A q \in Pods : q # p => /\ wpc'[q] = wpc[q] /\ wjob'[q] = wjob[q]
                                /\ count'[q] = count[q] /\ want'[q] = want[q]
                                /\ cancelled'[q] = cancelled[q]
                                /\ leaked'[q] = leaked[q] /\ epoch'[q] = epoch[q]
    /\ \A q \in Pods, k \in Jobs : q # p \/ k # wjob[p] => files'[q][k] = files[q][k]
    /\ \A k \in Jobs : k # wjob[p] => jobs'[k] = jobs[k]

\* A worker's step with its job keeps what is known of the files when it does
\* so for its own pod and its own job.
LEMMA OwnFileSuffices ==
    ASSUME TypeOK, Attended, FilesKept, NEW p \in Pods, wjob[p] # None, Others(p),
           wjob'[p] \in {wjob[p], None}, epoch' = epoch,
           jobs'[wjob[p]].status \notin {"none", "pending"},
           FileOf(p)',
           jobs'[wjob[p]].status = "completed" =>
               /\ files'[p][wjob[p]] = jobs'[wjob[p]].whole
               /\ jobs'[wjob[p]].signer = <<p, epoch[p]>>
    PROVE  FilesKept'
<1> DEFINE j == wjob[p]
<1>1. j \in Jobs /\ jobs[j].status = "processing"
  BY DEF TypeOK, Attended, WorkersJob
<1>2. \A q \in Pods : q # p => wjob[q] # j /\ files[q][j] = None /\ files'[q][j] = None
  BY <1>1 DEF Others, Attended, OneWorkerPerJob, FilesKept, OnlyWorkerHasFile
<1>3. FileOfWorker'
  <2>1. SUFFICES ASSUME NEW q \in Pods, q # p PROVE FileOf(q)'
    BY DEF FileOfWorker
  <2>2. CASE wjob[q] = None
    BY <2>1, <2>2, NoJob DEF Others, FilesKept, FileOfWorker, FileOf
  <2>3. CASE wjob[q] # None
    BY <1>2, <2>1, <2>3 DEF Others, FilesKept, FileOfWorker, FileOf, TypeOK
  <2> QED
    BY <2>2, <2>3
<1>4. OnlyWorkerHasFile'
  BY <1>1, <1>2 DEF Others, FilesKept, OnlyWorkerHasFile, TypeOK
<1>5. NoFileBeforeClaim'
  BY <1>1 DEF Others, FilesKept, NoFileBeforeClaim
<1>6. CompletedIsKept'
  <2>1. SUFFICES ASSUME NEW q \in Pods, NEW k \in Jobs, jobs'[k].status = "completed"
                 PROVE  /\ files'[q][k] \in {None, jobs'[k].whole}
                        /\ \A e \in Nat : jobs'[k].signer = <<q, e>> => e <= epoch[q]
                        /\ jobs'[k].signer = <<q, epoch[q]>>
                              => files'[q][k] = jobs'[k].whole
    BY DEF CompletedIsKept
  <2>2. CASE k # j
    BY <2>1, <2>2 DEF Others, FilesKept, CompletedIsKept
  <2>3. CASE k = j
    <3>1. epoch[q] \in Nat /\ \A e \in Nat : <<p, epoch[p]>> = <<q, e>> => p = q /\ e = epoch[q]
      BY DEF TypeOK
    <3> QED
      BY <1>2, <2>1, <2>3, <3>1
  <2> QED
    BY <2>2, <2>3
<1> QED
  BY <1>3, <1>4, <1>5, <1>6 DEF FilesKept



\* A step that touches no file, row or worker.
LEMMA SameFiles ==
    FilesKept /\ UNCHANGED <<jobs, files, epoch, wpc, wjob, count, want, cancelled, leaked>>
        => FilesKept'
BY DEF FilesKept, FileOfWorker, FileOf, OnlyWorkerHasFile, NoFileBeforeClaim,
       CompletedIsKept

LEMMA ClaimFiles ==
    ASSUME TypeOK, Attended, FilesKept, NEW p \in Pods, NEW j \in Jobs, Claim(p, j)
    PROVE  FilesKept'
<1> USE DEF rowVars, workVars, podVars
<1>1. /\ jobs[j].status = "pending" /\ wjob[p] = None /\ wpc[p] = "idle"
      /\ UNCHANGED <<files, epoch, cancelled, leaked, count, want>>
  BY NoJob DEF Claim, Claimable
<1>2. \A q \in Pods : wjob[q] # j /\ files[q][j] = None
  BY <1>1, NoJob DEF Attended, WorkersJob, FilesKept, NoFileBeforeClaim
<1>3. /\ wjob'[p] \in {None, j} /\ wpc'[p] \in {"idle", "open"}
      /\ \A q \in Pods \ {p} : wjob'[q] = wjob[q] /\ wpc'[q] = wpc[q]
  BY <1>1 DEF Claim, TypeOK
<1>4. FileOfWorker'
  <2>1. FileOf(p)'
    BY <1>1, <1>3 DEF FilesKept, FileOfWorker, FileOf
  <2>2. ASSUME NEW q \in Pods, q # p PROVE FileOf(q)'
    <3>1. wjob[q] \in Jobs => jobs'[wjob[q]] = jobs[wjob[q]]
      BY <1>2, ClaimEffect
    <3>2. wjob[q] \in Jobs \/ wpc[q] = "idle"
      BY NoJob DEF TypeOK
    <3> QED
      BY <1>1, <1>3, <2>2, <3>1, <3>2 DEF FilesKept, FileOfWorker, FileOf
  <2> QED
    BY <2>1, <2>2 DEF FileOfWorker
<1>5. OnlyWorkerHasFile'
  BY <1>1, <1>2, <1>3 DEF FilesKept, OnlyWorkerHasFile
<1>6. NoFileBeforeClaim' /\ CompletedIsKept'
  BY <1>1, ClaimEffect DEF FilesKept, NoFileBeforeClaim, CompletedIsKept
<1> QED
  BY <1>4, <1>5, <1>6 DEF FilesKept

LEMMA RestartFiles ==
    ASSUME TypeOK, Attended, FilesKept, NEW p \in Pods, Restart(p)
    PROVE  FilesKept'
<1>1. /\ jobs' = jobs /\ wjob'[p] = None /\ wpc'[p] = "idle" /\ count'[p] = 0
      /\ \A q \in Pods : q # p => /\ wpc'[q] = wpc[q] /\ wjob'[q] = wjob[q]
                                  /\ count'[q] = count[q] /\ want'[q] = want[q]
                                  /\ cancelled'[q] = cancelled[q]
                                  /\ leaked'[q] = leaked[q]
  BY DEF Restart, Idle, TypeOK, rowVars
<1>2. FileOfWorker'
  <2>1. FileOf(p)'
    BY <1>1 DEF FileOf
  <2>2. ASSUME NEW q \in Pods, q # p PROVE FileOf(q)'
    <3>1. wjob[q] \in Jobs \/ wpc[q] = "idle"
      BY NoJob DEF TypeOK
    <3> QED
      BY <1>1, <2>2, <3>1, RestartEffect DEF FilesKept, FileOfWorker, FileOf
  <2> QED
    BY <2>1, <2>2 DEF FileOfWorker
<1>3. OnlyWorkerHasFile'
  <2>1. SUFFICES ASSUME NEW q \in Pods, NEW r \in Pods, q # r, wjob'[q] # None
                 PROVE  files'[r][wjob'[q]] = None
    BY DEF OnlyWorkerHasFile
  <2>2. q # p /\ wjob'[q] = wjob[q] /\ wjob[q] \in Jobs
    BY <1>1, <2>1 DEF TypeOK
  <2>3. files[r][wjob[q]] = None
    BY <2>1, <2>2 DEF FilesKept, OnlyWorkerHasFile
  <2> QED
    BY <2>2, <2>3, RestartEffect
<1>4. NoFileBeforeClaim'
  BY <1>1, RestartEffect DEF FilesKept, NoFileBeforeClaim
<1>5. CompletedIsKept'
  <2>1. SUFFICES ASSUME NEW q \in Pods, NEW k \in Jobs, jobs[k].status = "completed"
                 PROVE  /\ files'[q][k] \in {None, jobs[k].whole}
                        /\ \A e \in Nat : jobs[k].signer = <<q, e>> => e <= epoch'[q]
                        /\ jobs[k].signer = <<q, epoch'[q]>>
                              => files'[q][k] = jobs[k].whole
    BY <1>1 DEF CompletedIsKept
  <2>2. /\ files[q][k] \in {None, jobs[k].whole} /\ epoch[q] \in Nat
        /\ \A e \in Nat : jobs[k].signer = <<q, e>> => e <= epoch[q]
        /\ jobs[k].signer = <<q, epoch[q]>> => files[q][k] = jobs[k].whole
    BY <2>1 DEF FilesKept, CompletedIsKept, TypeOK
  <2>3. CASE q = p
    <3>1. epoch'[p] = epoch[p] + 1 /\ files'[p][k] \in {files[p][k], None}
      BY RestartEffect
    <3>2. jobs[k].signer # <<p, epoch'[p]>>
      <4>1. epoch[p] + 1 \in Nat /\ ~(epoch[p] + 1 <= epoch[p])
        BY <2>2, <2>3
      <4> QED
        BY <2>2, <2>3, <3>1, <4>1
    <3>3. \A e \in Nat : jobs[k].signer = <<p, e>> => e <= epoch'[p]
      BY <2>2, <2>3, <3>1
    <3> QED
      BY <2>2, <2>3, <3>1, <3>2, <3>3
  <2>4. CASE q # p
    BY <2>2, <2>4, RestartEffect
  <2> QED
    BY <2>3, <2>4
<1> QED
  BY <1>2, <1>3, <1>4, <1>5 DEF FilesKept

LEMMA NextFiles == TypeOK /\ Attended /\ FilesKept /\ [Next]_vars => FilesKept'
<1> SUFFICES ASSUME TypeOK, Attended, FilesKept, [Next]_vars PROVE FilesKept'
  OBVIOUS
<1> USE DEF rowVars, workVars, podVars
<1>1. CASE Create
  <2>1. jobs[created + 1].status = "none" /\ created \in Nat
    BY <1>1, CreateEffect DEF Attended, NotYetCreated, TypeOK
  <2>2. UNCHANGED <<files, epoch, wpc, wjob, count, want, cancelled, leaked>>
    BY <1>1 DEF Create
  <2>3. \A q \in Pods : wjob[q] # created + 1 /\ files[q][created + 1] = None
    BY <1>1, <2>1, CreateEffect, NoJob DEF Attended, WorkersJob, FilesKept, NoFileBeforeClaim
  <2>4. FileOfWorker'
    <3>1. ASSUME NEW q \in Pods PROVE FileOf(q)'
      <4>1. wpc[q] = "idle" \/ jobs'[wjob[q]] = jobs[wjob[q]]
        BY <1>1, <2>3, CreateEffect, NoJob DEF TypeOK
      <4> QED
        BY <2>2, <4>1 DEF FilesKept, FileOfWorker, FileOf
    <3> QED
      BY <3>1 DEF FileOfWorker
  <2>5. OnlyWorkerHasFile' /\ NoFileBeforeClaim' /\ CompletedIsKept'
    BY <1>1, <2>2, <2>3, CreateEffect
    DEF FilesKept, OnlyWorkerHasFile, NoFileBeforeClaim, CompletedIsKept
  <2> QED
    BY <2>4, <2>5 DEF FilesKept
<1>2. ASSUME NEW j \in Jobs, Replicate(j) PROVE FilesKept'
  BY <1>2, SameFiles DEF Replicate
<1>3. ASSUME NEW p \in Pods, NEW j \in Jobs, Claim(p, j) PROVE FilesKept'
  BY <1>3, ClaimFiles
<1>4. ASSUME NEW p \in Pods, OpenFile(p) PROVE FilesKept'
  <2>1. wjob[p] \in Jobs /\ jobs[wjob[p]].status = "processing" /\ 0 \in 0 .. MaxRows
    BY <1>4, Busy, NoJob DEF OpenFile, Attended, WorkersJob
  <2>2. count[p] = 0
    BY <1>4 DEF OpenFile, FilesKept, FileOfWorker, FileOf
  <2>3. ASSUME files' = [files EXCEPT ![p][wjob[p]] = 0], Goto(p, "query")
        PROVE  Others(p) /\ FileOf(p)'
    BY <1>4, <2>1, <2>2, <2>3, FileWritten DEF OpenFile, Goto, Others, FileOf, TypeOK
  <2>4. ASSUME files' = files, Goto(p, "fail")
        PROVE  Others(p) /\ FileOf(p)'
    BY <1>4, <2>4 DEF OpenFile, Goto, Others, FileOf, TypeOK
  <2>5. Others(p) /\ FileOf(p)' /\ wjob' = wjob /\ jobs' = jobs /\ epoch' = epoch
    BY <1>4, <2>3, <2>4 DEF OpenFile, Goto
  <2> QED
    BY <2>1, <2>5, OwnFileSuffices, NoJob
<1>5. ASSUME NEW p \in Pods, Query(p) PROVE FilesKept'
  <2>1. wjob[p] \in Jobs /\ jobs[wjob[p]].status = "processing"
    BY <1>5, Busy, NoJob DEF Query, Attended, WorkersJob
  <2>2. /\ UNCHANGED <<files, epoch, cancelled, leaked, count, wjob>>
        /\ files[p][wjob[p]] = 0 /\ count[p] = 0
    BY <1>5 DEF Query, Goto, FilesKept, FileOfWorker, FileOf
  <2>3. wpc'[p] \in {"rows", "drop"} /\ \A q \in Pods \ {p} : wpc'[q] = wpc[q]
    BY <1>5, QueryEffect DEF TypeOK
  <2>4. FileOf(p)'
    BY <1>5, <2>2, <2>3, QueryEffect DEF FileOf
  <2>5. Others(p)
    BY <1>5, <2>2, <2>3, QueryEffect DEF Others
  <2> QED
    BY <1>5, <2>1, <2>2, <2>4, <2>5, QueryEffect, OwnFileSuffices, NoJob
<1>6. ASSUME NEW p \in Pods, WriteRow(p) PROVE FilesKept'
  <2>1. wjob[p] \in Jobs /\ jobs[wjob[p]].status = "processing"
    BY <1>6, Busy, NoJob DEF WriteRow, Attended, WorkersJob
  <2>2. /\ count[p] + 1 \in 0 .. MaxRows /\ files[p][wjob[p]] = count[p]
        /\ count[p] + 1 <= want[p] /\ jobs[wjob[p]].whole = want[p] /\ leaked[p] < MaxConns
    BY <1>6 DEF WriteRow, TypeOK, FilesKept, FileOfWorker, FileOf
  <2>3. files' = [files EXCEPT ![p][wjob[p]] = count[p] + 1]
    BY <1>6, <2>2 DEF WriteRow
  <2>4. FileOf(p)'
    BY <1>6, <2>1, <2>2, <2>3, FileWritten DEF WriteRow, FileOf, TypeOK
  <2>5. Others(p)
    BY <1>6, <2>1, <2>2, <2>3, FileWritten DEF WriteRow, Others, TypeOK
  <2> QED
    BY <1>6, <2>1, <2>4, <2>5, OwnFileSuffices, NoJob DEF WriteRow
<1>7. ASSUME NEW p \in Pods, \/ RowsEnd(p) \/ WriteError(p) \/ RowsError(p)
                             \/ RowsCancelled(p) \/ Size(p)
      PROVE  FilesKept'
  <2> USE DEF RowsEnd, WriteError, RowsError, RowsCancelled, Size, SizeError, Goto
  <2>1. wjob[p] \in Jobs /\ jobs[wjob[p]].status = "processing"
    BY <1>7, Busy, NoJob DEF Attended, WorkersJob
  <2>2. /\ UNCHANGED <<jobs, files, epoch, cancelled, count, want, wjob>>
        /\ \A q \in Pods \ {p} : wpc'[q] = wpc[q] /\ leaked'[q] = leaked[q]
        /\ \/ wpc[p] = "rows" /\ wpc'[p] = "drop"
           \/ wpc[p] = "rows" /\ wpc'[p] = "size" /\ (count[p] = want[p] \/ cancelled[p])
           \/ wpc[p] = "size" /\ wpc'[p] \in {"complete", "fail"}
    BY <1>7 DEF TypeOK
  <2>3. FileOf(p)'
    BY <2>2 DEF FilesKept, FileOfWorker, FileOf
  <2>4. Others(p)
    BY <2>2 DEF Others
  <2> QED
    BY <2>1, <2>2, <2>3, <2>4, OwnFileSuffices, NoJob
<1>8. ASSUME NEW p \in Pods, DropFile(p) PROVE FilesKept'
  <2>1. wjob[p] \in Jobs /\ jobs[wjob[p]].status = "processing"
    BY <1>8, Busy, NoJob DEF DropFile, Attended, WorkersJob
  <2>2. /\ UNCHANGED <<jobs, epoch, cancelled, leaked, count, want, wjob>>
        /\ wpc'[p] = "fail" /\ \A q \in Pods \ {p} : wpc'[q] = wpc[q]
    BY <1>8 DEF DropFile, Goto, TypeOK
  <2>3. \A q \in Pods, k \in Jobs : q # p \/ k # wjob[p] => files'[q][k] = files[q][k]
    BY <1>8, <2>1, FileWritten DEF DropFile
  <2> QED
    BY <2>1, <2>2, <2>3, OwnFileSuffices, NoJob DEF Others, FileOf
<1>9. ASSUME NEW p \in Pods, Complete(p) PROVE FilesKept'
  <2>1. wjob[p] \in Jobs /\ jobs[wjob[p]].status = "processing"
    BY <1>9, Busy, NoJob DEF Complete, Attended, WorkersJob
  <2>2. /\ UNCHANGED <<files, epoch, cancelled, leaked>> /\ wjob'[p] = None
        /\ wpc'[p] = "idle" /\ count'[p] = 0
    BY <1>9 DEF Complete, Idle, TypeOK
  <2>3. Others(p)
    BY <1>9, <2>2, CompleteEffect DEF Complete, Idle, Others, TypeOK
  <2>4. cancelled[p] \/ files[p][wjob[p]] = jobs[wjob[p]].whole
    BY <1>9 DEF Complete, FilesKept, FileOfWorker, FileOf
  <2> QED
    BY <1>9, <2>1, <2>2, <2>3, <2>4, CompleteEffect, OwnFileSuffices, NoJob DEF FileOf
<1>10. ASSUME NEW p \in Pods, Fail(p) PROVE FilesKept'
  <2>1. wjob[p] \in Jobs /\ jobs[wjob[p]].status = "processing"
    BY <1>10, Busy, NoJob DEF Fail, Attended, WorkersJob
  <2>2. /\ UNCHANGED <<files, epoch, cancelled, leaked>> /\ wjob'[p] = None
        /\ wpc'[p] = "idle" /\ count'[p] = 0
    BY <1>10 DEF Fail, Idle, TypeOK
  <2>3. Others(p)
    BY <1>10, <2>2, FailEffect DEF Fail, Idle, Others, TypeOK
  <2> QED
    BY <1>10, <2>1, <2>2, <2>3, FailEffect, OwnFileSuffices, NoJob DEF FileOf
<1>11. ASSUME NEW p \in Pods, Terminate(p) PROVE FilesKept'
  <2>1. /\ UNCHANGED <<jobs, files, epoch, wpc, wjob, count, want>>
        /\ \A q \in Pods : /\ cancelled[q] => cancelled'[q]
                           /\ leaked'[q] = leaked[q] \/ leaked'[q] = 0
    BY <1>11 DEF Terminate, TypeOK
  <2>2. FileOfWorker'
    BY <2>1 DEF FilesKept, FileOfWorker, FileOf
  <2> QED
    BY <2>1, <2>2 DEF FilesKept, OnlyWorkerHasFile, NoFileBeforeClaim, CompletedIsKept
<1>12. ASSUME NEW p \in Pods, Restart(p) PROVE FilesKept'
  BY <1>12, RestartFiles
<1>13. CASE UNCHANGED vars
  BY <1>13, SameFiles DEF vars
<1> QED
  BY <1>1, <1>2, <1>3, <1>4, <1>5, <1>6, <1>7, <1>8, <1>9, <1>10, <1>11, <1>12, <1>13
  DEF Next, WorkerStep

-----------------------------------------------------------------------------
(* The replica and the theorems                                            *)

LEMMA NextReplica ==
    TypeOK /\ Attended /\ ReplicaOfCompleted /\ [Next]_vars => ReplicaOfCompleted'
<1> SUFFICES ASSUME TypeOK, Attended, ReplicaOfCompleted, [Next]_vars
             PROVE  ReplicaOfCompleted'
  OBVIOUS
<1> USE DEF rowVars
<1>1. ASSUME NEW j \in Jobs, Replicate(j) PROVE ReplicaOfCompleted'
  BY <1>1 DEF Replicate, ReplicaOfCompleted, TypeOK
<1>2. ASSUME rjobs' = rjobs, NEW j \in Jobs, jobs[j].status # "completed",
             \A k \in Jobs : k # j => jobs'[k] = jobs[k]
      PROVE  ReplicaOfCompleted'
  <2>1. rjobs[j].status = "completed" => rjobs[j] = jobs[j]
    BY DEF ReplicaOfCompleted
  <2> QED
    BY <1>2, <2>1 DEF ReplicaOfCompleted
<1>3. CASE Create
  BY <1>2, <1>3, CreateEffect DEF Create, Attended, NotYetCreated, TypeOK
<1>4. ASSUME NEW p \in Pods, NEW j \in Jobs, Claim(p, j) PROVE ReplicaOfCompleted'
  BY <1>2, <1>4, ClaimEffect DEF Claim, Claimable
<1>5. ASSUME NEW p \in Pods, Query(p) \/ Complete(p) \/ Fail(p) PROVE ReplicaOfCompleted'
  <2>1. wjob[p] \in Jobs /\ jobs[wjob[p]].status = "processing" /\ rjobs' = rjobs
    BY <1>5, Busy, NoJob DEF Query, Complete, Fail, Attended, WorkersJob
  <2> QED
    BY <1>2, <1>5, <2>1, QueryEffect, CompleteEffect, FailEffect
<1>6. CASE UNCHANGED <<jobs, rjobs>>
  BY <1>6 DEF ReplicaOfCompleted
<1> QED
  BY <1>1, <1>3, <1>4, <1>5, <1>6
  DEF Next, WorkerStep, OpenFile, WriteRow, RowsEnd, WriteError, RowsError, RowsCancelled,
      Size, DropFile, Terminate, Restart, vars

\* The strengthening holds in every state.
THEOREM InductiveCorrect == Spec => []IInv
<1>1. Init => IInv
  BY InitType, InitAttended, InitFiles DEF IInv, Init, ReplicaOfCompleted
<1>2. IInv /\ [Next]_vars => IInv'
  BY NextType, NextAttended, NextFiles, NextReplica DEF IInv, FilesKept
<1> QED
  BY <1>1, <1>2, PTL DEF Spec

\* Every variable keeps its type; in particular a pod never has more leaked
\* connections than its pool (Query waits when none is left).
THEOREM TypeCorrect == Spec => []TypeOK
BY InductiveCorrect, PTL DEF IInv

\* A download of a completed export delivers all of it, whichever pod answers,
\* and the process that signed for it has it (processOne, storage/local.go,
\* handler/export.go's Download).
THEOREM ExportsAreWhole == Spec => []ExportIsWhole
<1>1. IInv => ExportIsWhole
  <2> SUFFICES ASSUME IInv PROVE ExportIsWhole
    OBVIOUS
  <2>1. SignerHasFile
    BY DEF IInv, FilesKept, CompletedIsKept, SignerHasFile
  <2>2. DownloadedIsWhole
    BY DEF IInv, FilesKept, CompletedIsKept, ReplicaOfCompleted, DownloadedIsWhole,
           Downloadable, Ready
  <2> QED
    BY <2>1, <2>2 DEF ExportIsWhole
<1> QED
  BY <1>1, InductiveCorrect, PTL

\* A job in processing has exactly one worker, or its worker was cut off
\* (ClaimPending, the error paths of processOne).
THEOREM JobsAreAttended == Spec => []JobsAttended
<1>1. IInv => JobsAttended
  BY DEF IInv, Attended, JobsAttended
<1> QED
  BY <1>1, InductiveCorrect, PTL

=============================================================================
