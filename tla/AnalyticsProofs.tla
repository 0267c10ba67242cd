-------------------------- MODULE AnalyticsProofs ---------------------------
(***************************************************************************)
(* What becomes of clicks: AnalyticsIngestion, for any number of redirects *)
(* and codes and any sizes, and ClickStream, for any number of redirects   *)
(* and streams and any capacity.                                           *)
(*                                                                         *)
(* Ingestion: the counters add up, and a shutdown that was not hurried     *)
(* leaves nothing behind.  The invariant says where every event is         *)
(* (Placed, Accounted), what the drainer and main can still be holding at  *)
(* each of their steps (Control), and which stored redirects the click     *)
(* counts already stand for: those that no flush under way will count      *)
(* later (Backed).                                                         *)
(*                                                                         *)
(* Streams: a client is sent what its subscription received, in order, but *)
(* for a click whose write fails, which is the handler's last.  The        *)
(* sequences together change at their two ends only, so the order is       *)
(* nearly inductive; it also takes that no bot's click is ever published   *)
(* (NoBots), for the handler's loop would leave it out.                    *)
(***************************************************************************)
EXTENDS AnalyticsIngestion, ClickStream, FiniteSetTheorems, SequenceTheorems, TLAPS

USE IngestionConstants

\* What is held where, step by step of the two goroutines.
Control ==
    /\ \A f \in Flushers : fpc[f] # "count" => fcodes[f] = {}
    /\ dpc \in {"flush", "last"} <=> fpc["drainer"] # "idle"
    /\ spc = "flush" <=> fpc["shutdown"] # "idle"
    /\ dpc = "select" => Cardinality(batch) < BatchSize
    /\ dpc = "exited" => batch = {}
    /\ spc \notin {"draining", "flush"} => rest = {}
    /\ spc \in {"draining", "flush"} => dpc = "exited"
    /\ ~hurried /\ spc \in {"closing", "exit"} => dpc = "exited"
    /\ ~hurried /\ spc \in {"flush", "closing", "exit"} => channel = {}

\* Each event is captured once; it is in one place until its outcome is known,
\* and not stored before it is written.
Placed ==
    /\ \A s, t \in seen : s.event = t.event => s = t
    /\ stored \subseteq Seen /\ channel \subseteq Seen
    /\ batch \subseteq Seen /\ rest \subseteq Seen
    /\ channel \cap batch = {} /\ channel \cap rest = {} /\ batch \cap rest = {}
    /\ channel \cap stored = {}
    /\ \A f \in Flushers : IF fpc[f] = "count" THEN BatchOf(f) \subseteq stored
                                               ELSE BatchOf(f) \cap stored = {}
    /\ Seen = settled \cup channel \cup Open("drainer") \cup Open("shutdown")

\* The redirects of code c that click_count may stand for: stored, and not to be
\* counted by a flush under way.
Countable(c) ==
    {e \in stored : /\ AboutOf(e).code = c /\ ~AboutOf(e).bot
                    /\ \A f \in Flushers : c \in fcodes[f] => e \notin BatchOf(f)}

Backed == \A c \in Codes : clicks[c] <= Cardinality(Countable(c))

IInv == TypeOK /\ Control /\ Placed /\ Accounted /\ Backed

-----------------------------------------------------------------------------
(* Sets of events                                                          *)

LEMMA EventSets ==
    \A S \in SUBSET Events : IsFiniteSet(S) /\ Cardinality(S) \in Nat
BY FS_Subset, FS_CardinalityType

LEMMA AddOne ==
    ASSUME NEW S \in SUBSET Events, NEW x
    PROVE  /\ Cardinality(S) \in Nat
           /\ Cardinality(S \cup {x}) = IF x \in S THEN Cardinality(S) ELSE Cardinality(S) + 1
<1>1. IsFiniteSet(S) /\ Cardinality(S) \in Nat
  BY EventSets
<1> QED
  BY <1>1, FS_AddElement

LEMMA RemoveOne ==
    ASSUME NEW S \in SUBSET Events, NEW x \in S
    PROVE  Cardinality(S) \in Nat /\ Cardinality(S) > 0
           /\ Cardinality(S \ {x}) = Cardinality(S) - 1
<1>1. IsFiniteSet(S) /\ Cardinality(S) \in Nat
  BY EventSets
<1>2. Cardinality(S \ {x}) = Cardinality(S) - 1
  BY <1>1, FS_RemoveElement
<1>3. Cardinality(S \ {x}) \in Nat
  BY EventSets
<1> QED
  BY <1>1, <1>2, <1>3

LEMMA SeenEvents == ASSUME TypeOK PROVE Seen \in SUBSET Events
BY DEF TypeOK, Seen

\* What is known of an event does not change when others are captured.
LEMMA AboutStays ==
    ASSUME \A s, t \in seen' : s.event = t.event => s = t, seen \subseteq seen',
           NEW e \in Seen
    PROVE  AboutOf(e)' = AboutOf(e)
<1>1. PICK s \in seen : s.event = e
  BY DEF Seen
<1>2. (CHOOSE t \in seen : t.event = e) = s
  BY <1>1
<1>3. (CHOOSE t \in seen' : t.event = e) = s
  BY <1>1
<1> QED
  BY <1>2, <1>3 DEF AboutOf

LEMMA CountableEvents ==
    ASSUME TypeOK, NEW c \in Codes
    PROVE  Countable(c) \in SUBSET Events
BY DEF TypeOK, Countable

LEMMA FewerOrSame ==
    ASSUME NEW T \in SUBSET Events, NEW S \in SUBSET T
    PROVE  Cardinality(S) <= Cardinality(T) /\ Cardinality(S) \in Nat /\ Cardinality(T) \in Nat
BY EventSets, FS_Subset

-----------------------------------------------------------------------------
(* Flushes                                                                 *)

\* The variables that a flush changes keep their kinds of values.
FlushTypes ==
    /\ batch' \subseteq Events /\ Cardinality(batch') <= BatchSize /\ rest' \subseteq Events
    /\ dpc' \in {"select", "flush", "last", "exited"}
    /\ spc' \in {"up", "stopped", "waiting", "draining", "flush", "closing", "exit"}
    /\ hurried' = hurried
    /\ fpc' \in [Flushers -> {"idle", "write", "count"}]
    /\ fcodes' \in [Flushers -> SUBSET Codes]

LEMMA EndFlushEffect ==
    ASSUME TypeOK, Control, NEW f \in Flushers, fpc[f] # "idle", EndFlush(f),
           UNCHANGED channel
    PROVE  /\ FlushTypes /\ batch' \in {batch, {}} /\ rest' \in {rest, {}}
           /\ fpc'[f] = "idle" /\ fcodes'[f] = {} /\ BatchOf(f)' = {}
           /\ \A g \in Flushers \ {f} : /\ fpc'[g] = fpc[g] /\ fcodes'[g] = fcodes[g]
                                        /\ BatchOf(g)' = BatchOf(g)
           /\ Control'
<1>1. /\ fpc' = [fpc EXCEPT ![f] = "idle"] /\ fcodes' = [fcodes EXCEPT ![f] = {}]
      /\ fpc \in [Flushers -> {"idle", "write", "count"}] /\ fcodes \in [Flushers -> SUBSET Codes]
  BY DEF EndFlush, TypeOK
<1>2. /\ fpc' \in [Flushers -> {"idle", "write", "count"}] /\ fcodes' \in [Flushers -> SUBSET Codes]
      /\ fpc'[f] = "idle" /\ fcodes'[f] = {}
      /\ \A g \in Flushers \ {f} : fpc'[g] = fpc[g] /\ fcodes'[g] = fcodes[g]
  BY <1>1
<1>3. Cardinality({}) = 0
  BY FS_EmptySet
<1>4. CASE f = "drainer"
  <2>1. /\ batch' = {} /\ dpc' = IF dpc = "last" THEN "exited" ELSE "select"
        /\ UNCHANGED <<rest, spc, hurried>>
    BY <1>4 DEF EndFlush, stopVars
  <2>2. \A g \in Flushers \ {f} : g = "shutdown"
    BY <1>4 DEF Flushers
  <2>3. Control'
    BY <1>2, <1>3, <1>4, <2>1 DEF Control, Flushers
  <2> QED
    BY <1>2, <1>3, <1>4, <2>1, <2>2, <2>3 DEF BatchOf, TypeOK, FlushTypes
<1>5. CASE f = "shutdown"
  <2>1. /\ rest' = {} /\ spc' = "closing"
        /\ UNCHANGED <<batch, dpc, hurried>>
    BY <1>5 DEF EndFlush, drainVars
  <2>2. \A g \in Flushers \ {f} : g = "drainer"
    BY <1>5 DEF Flushers
  <2>3. Control'
    BY <1>2, <1>5, <2>1 DEF Control, Flushers
  <2> QED
    BY <1>2, <1>5, <2>1, <2>2, <2>3 DEF BatchOf, TypeOK, FlushTypes
<1> QED
  BY <1>4, <1>5 DEF Flushers

LEMMA BatchEvents ==
    ASSUME TypeOK, NEW f \in Flushers
    PROVE  BatchOf(f) \in SUBSET Events
BY DEF TypeOK, BatchOf

LEMMA AboutType ==
    ASSUME TypeOK, NEW e \in Seen
    PROVE  AboutOf(e) \in About
<1>1. \E s \in seen : s.event = e
  BY DEF Seen
<1>2. (CHOOSE s \in seen : s.event = e) \in seen
  BY <1>1
<1> QED
  BY <1>2 DEF AboutOf, TypeOK

LEMMA CountedCodes ==
    ASSUME TypeOK, Placed, NEW f \in Flushers
    PROVE  Counted(BatchOf(f)) \subseteq Codes
<1>1. BatchOf(f) \subseteq Seen
  BY DEF Placed, BatchOf
<1>2. \A e \in BatchOf(f) : AboutOf(e).code \in Codes
  BY <1>1, AboutType DEF About
<1> QED
  BY <1>2 DEF Counted

\* What a write, successful or not, does to the batch of flush f.
WriteOutcome(f) ==
    /\ fpc[f] = "write" /\ fpc'[f] \in {"idle", "count"}
    /\ fpc'[f] = "count" => BatchOf(f)' = BatchOf(f) /\ stored' = stored \cup BatchOf(f)
    /\ fpc'[f] = "idle" => BatchOf(f)' = {}
    /\ stored' \in {stored, stored \cup BatchOf(f)}
    /\ settled' = settled \cup BatchOf(f)
    /\ dropped' \in Nat /\ written' \in Nat
    /\ dropped' + written' = dropped + written + Cardinality(BatchOf(f))
    /\ UNCHANGED <<chanVars, clicks>>

\* What stays as it was in a step of flush f.
Flushed(f) ==
    /\ \A g \in Flushers \ {f} : /\ fpc'[g] = fpc[g] /\ fcodes'[g] = fcodes[g]
                                 /\ BatchOf(g)' = BatchOf(g)
    /\ batch' \in {batch, {}} /\ rest' \in {rest, {}} /\ UNCHANGED chanVars

LEMMA WriteEffect ==
    ASSUME IInv, NEW f \in Flushers, Write(f)
    PROVE  WriteOutcome(f) /\ Flushed(f) /\ TypeOK' /\ Control'
<1>1. /\ fpc[f] = "write" /\ UNCHANGED <<chanVars, dropped, clicks, gone, faults>>
      /\ stored' = stored \cup BatchOf(f) /\ settled' = settled \cup BatchOf(f)
      /\ written' = written + Cardinality(BatchOf(f))
  BY DEF Write
<1>2. BatchOf(f) \in SUBSET Events /\ Cardinality(BatchOf(f)) \in Nat
  BY BatchEvents, EventSets DEF IInv
<1>3. /\ written' \in Nat /\ dropped' \in Nat
      /\ stored' \subseteq Events /\ settled' \subseteq Events
      /\ dropped' + written' = dropped + written + Cardinality(BatchOf(f))
  BY <1>1, <1>2 DEF IInv, TypeOK
<1>4. CASE Counted(BatchOf(f)) = {}
  <2>1. EndFlush(f) /\ UNCHANGED channel
    BY <1>1, <1>4 DEF Write, chanVars
  <2>2. Control' /\ Flushed(f) /\ fpc'[f] = "idle" /\ BatchOf(f)' = {}
    BY <1>1, <2>1, EndFlushEffect DEF IInv, Flushed
  <2>3. FlushTypes
    BY <1>1, <2>1, EndFlushEffect DEF IInv
  <2>4. TypeOK'
    BY <1>1, <1>3, <2>3 DEF IInv, TypeOK, chanVars, FlushTypes
  <2> QED
    BY <1>1, <1>3, <2>2, <2>4 DEF WriteOutcome
<1>5. CASE Counted(BatchOf(f)) # {}
  <2>1. /\ fpc' = [fpc EXCEPT ![f] = "count"]
        /\ fcodes' = [fcodes EXCEPT ![f] = Counted(BatchOf(f))]
        /\ UNCHANGED <<drainVars, stopVars>>
    BY <1>5 DEF Write
  <2>2. Counted(BatchOf(f)) \subseteq Codes
    BY <1>1, CountedCodes DEF IInv
  <2>3. /\ fpc'[f] = "count"
        /\ fpc' \in [Flushers -> {"idle", "write", "count"}]
        /\ fcodes' \in [Flushers -> SUBSET Codes]
        /\ \A g \in Flushers \ {f} : fpc'[g] = fpc[g] /\ fcodes'[g] = fcodes[g]
    BY <2>1, <2>2 DEF IInv, TypeOK
  <2>4. \A g \in Flushers : BatchOf(g)' = BatchOf(g)
    BY <2>1 DEF BatchOf, drainVars, stopVars
  <2>5. Flushed(f)
    BY <1>1, <2>1, <2>3, <2>4 DEF Flushed, drainVars, stopVars
  <2>6. Control'
    BY <1>1, <2>1, <2>3 DEF IInv, Control, Flushers, drainVars, stopVars, chanVars
  <2>7. TypeOK'
    BY <1>1, <1>3, <2>1, <2>3 DEF IInv, TypeOK, drainVars, stopVars, chanVars
  <2> QED
    BY <1>1, <1>3, <2>3, <2>4, <2>5, <2>6, <2>7 DEF WriteOutcome
<1> QED
  BY <1>4, <1>5

LEMMA WriteErrorEffect ==
    ASSUME IInv, NEW f \in Flushers, WriteError(f)
    PROVE  WriteOutcome(f) /\ Flushed(f) /\ TypeOK' /\ Control'
<1>1. /\ fpc[f] = "write" /\ UNCHANGED <<chanVars, clicks, gone>> /\ EndFlush(f)
      /\ stored' \in {stored, stored \cup BatchOf(f)} /\ Drop(BatchOf(f))
      /\ faults < MaxFaults /\ faults' = faults + 1
  BY DEF WriteError, Fault
<1>2. BatchOf(f) \in SUBSET Events /\ Cardinality(BatchOf(f)) \in Nat
  BY BatchEvents, EventSets DEF IInv
<1>3. /\ written' \in Nat /\ dropped' \in Nat /\ stored' \subseteq Events
      /\ settled' \subseteq Events /\ settled' = settled \cup BatchOf(f)
      /\ dropped' + written' = dropped + written + Cardinality(BatchOf(f))
      /\ faults' \in 0 .. MaxFaults
  BY <1>1, <1>2 DEF IInv, TypeOK, Drop
<1>4. Control' /\ Flushed(f) /\ fpc'[f] = "idle" /\ BatchOf(f)' = {}
  BY <1>1, EndFlushEffect DEF IInv, Flushed, chanVars
<1>5. TypeOK'
  <2>1. FlushTypes
    BY <1>1, EndFlushEffect DEF IInv, chanVars
  <2> QED
    BY <1>1, <1>3, <2>1 DEF IInv, TypeOK, chanVars, FlushTypes
<1> QED
  BY <1>1, <1>3, <1>4, <1>5 DEF WriteOutcome

\* What counting does to flush f: it goes on to the other codes, or ends.
CountedOne(f, c) ==
    /\ fpc[f] = "count" /\ c \in fcodes[f]
    /\ \/ fpc'[f] = "count" /\ fcodes'[f] = fcodes[f] \ {c} /\ BatchOf(f)' = BatchOf(f)
       \/ fpc'[f] = "idle" /\ fcodes'[f] = {} /\ BatchOf(f)' = {}
    /\ clicks' = clicks \/ AddClicks(f, c)
    /\ UNCHANGED <<chanVars, sumVars, stored, gone>>

LEMMA AddClicksType ==
    ASSUME TypeOK, NEW f \in Flushers, NEW c \in Codes, clicks' = clicks \/ AddClicks(f, c)
    PROVE  clicks' \in [Codes -> Nat]
<1>1. {e \in BatchOf(f) : AboutOf(e).code = c /\ ~AboutOf(e).bot} \in SUBSET Events
  BY BatchEvents
<1>2. Clicks(f, c) \in Nat
  BY <1>1, EventSets DEF Clicks
<1> QED
  BY <1>2 DEF AddClicks, TypeOK

LEMMA CountEffect ==
    ASSUME IInv, NEW f \in Flushers, NEW c \in Codes, Count(f, c) \/ CountError(f, c)
    PROVE  CountedOne(f, c) /\ Flushed(f) /\ TypeOK' /\ Control'
<1>1. /\ fpc[f] = "count" /\ c \in fcodes[f]
      /\ clicks' = clicks \/ AddClicks(f, c)
      /\ UNCHANGED <<chanVars, sumVars, stored, gone>>
      /\ faults' \in 0 .. MaxFaults
  BY DEF Count, CountError, Fault, IInv, TypeOK
<1>2. clicks' \in [Codes -> Nat]
  BY <1>1, AddClicksType DEF IInv
<1>3. CASE EndFlush(f)
  <2>1. /\ Control' /\ Flushed(f)
        /\ fpc'[f] = "idle" /\ fcodes'[f] = {} /\ BatchOf(f)' = {}
    BY <1>1, <1>3, EndFlushEffect DEF IInv, Flushed, chanVars
  <2>2. FlushTypes
    BY <1>1, <1>3, EndFlushEffect DEF IInv, chanVars
  <2>3. TypeOK'
    BY <1>1, <1>2, <2>2 DEF IInv, TypeOK, chanVars, sumVars, FlushTypes
  <2> QED
    BY <1>1, <2>1, <2>3 DEF CountedOne
<1>4. CASE /\ fcodes' = [fcodes EXCEPT ![f] = @ \ {c}]
           /\ UNCHANGED <<fpc, drainVars, stopVars>>
  <2>1. /\ fcodes' \in [Flushers -> SUBSET Codes] /\ fcodes'[f] = fcodes[f] \ {c}
        /\ \A g \in Flushers \ {f} : fpc'[g] = fpc[g] /\ fcodes'[g] = fcodes[g]
    BY <1>4 DEF IInv, TypeOK
  <2>2. \A g \in Flushers : BatchOf(g)' = BatchOf(g)
    BY <1>4 DEF BatchOf, drainVars, stopVars
  <2>3. Flushed(f)
    BY <1>1, <1>4, <2>1, <2>2 DEF Flushed, drainVars, stopVars
  <2>4. Control'
    BY <1>1, <1>4, <2>1 DEF IInv, Control, drainVars, stopVars, chanVars
  <2>5. TypeOK'
    BY <1>1, <1>2, <1>4, <2>1 DEF IInv, TypeOK, drainVars, stopVars, chanVars, sumVars
  <2> QED
    BY <1>1, <1>4, <2>1, <2>2, <2>3, <2>4, <2>5 DEF CountedOne
<1> QED
  BY <1>3, <1>4 DEF Count, CountError

LEMMA Apart ==
    ASSUME NEW T \in SUBSET Events, NEW S \in SUBSET T, NEW R \in SUBSET T, S \cap R = {}
    PROVE  /\ Cardinality(S) + Cardinality(R) <= Cardinality(T)
           /\ Cardinality(S) \in Nat /\ Cardinality(R) \in Nat /\ Cardinality(T) \in Nat
<1>1. IsFiniteSet(S) /\ IsFiniteSet(R) /\ S \cup R \in SUBSET T
  BY EventSets
<1>2. Cardinality(S \cup R) = Cardinality(S) + Cardinality(R) - Cardinality(S \cap R)
  BY <1>1, FS_Union
<1>3. Cardinality(S \cap R) = 0
  BY FS_EmptySet
<1>4. Cardinality(S \cup R) <= Cardinality(T)
  BY <1>1, FewerOrSame
<1>5. Cardinality(S) \in Nat /\ Cardinality(R) \in Nat /\ Cardinality(T) \in Nat
  BY EventSets
<1> QED
  BY <1>2, <1>3, <1>4, <1>5

LEMMA OpenEvents ==
    ASSUME TypeOK, NEW f \in Flushers
    PROVE  Open(f) \in SUBSET Events
BY DEF TypeOK, Open, BatchOf

\* The click counts stay backed when no redirect stops being countable.
LEMMA BackedStays ==
    ASSUME TypeOK', Backed, UNCHANGED clicks, clicks \in [Codes -> Nat],
           \A c \in Codes : Countable(c) \subseteq Countable(c)'
    PROVE  Backed'
<1>1. ASSUME NEW c \in Codes
      PROVE  clicks'[c] <= Cardinality(Countable(c)')
  <2>1. Countable(c) \subseteq Countable(c)' /\ Countable(c)' \in SUBSET Events
    BY DEF Countable, TypeOK
  <2>2. Cardinality(Countable(c)) <= Cardinality(Countable(c)')
        /\ Cardinality(Countable(c)) \in Nat /\ Cardinality(Countable(c)') \in Nat
    BY <2>1, FewerOrSame
  <2> QED
    BY <2>2 DEF Backed
<1> QED
  BY <1>1 DEF Backed

LEMMA BatchesApart ==
    ASSUME Placed, NEW f \in Flushers
    PROVE  /\ BatchOf(f) \subseteq Seen /\ BatchOf(f) \cap channel = {}
           /\ \A g \in Flushers \ {f} : BatchOf(g) \cap BatchOf(f) = {}
BY DEF Placed, BatchOf, Flushers

\* What becomes of the open events when only flush f changes its batch.
LEMMA OpenOthers ==
    ASSUME NEW f \in Flushers, Flushed(f)
    PROVE  \A g \in Flushers \ {f} : Open(g)' = Open(g)
BY DEF Flushed, Open

LEMMA Two ==
    \A f \in Flushers : \/ f = "drainer" /\ Flushers \ {f} = {"shutdown"}
                        \/ f = "shutdown" /\ Flushers \ {f} = {"drainer"}
BY DEF Flushers

LEMMA NoEvents == Cardinality({}) = 0
BY FS_EmptySet

\* The events of a written batch leave one place and are counted.
LEMMA WriteInv ==
    ASSUME IInv, NEW f \in Flushers, WriteOutcome(f), Flushed(f), TypeOK', Control'
    PROVE  IInv'
<1> DEFINE b == BatchOf(f)
<1>1. /\ fpc[f] = "write" /\ UNCHANGED <<channel, seen, clicks>>
      /\ stored' \in {stored, stored \cup b} /\ settled' = settled \cup b
      /\ fpc'[f] \in {"idle", "count"}
      /\ fpc'[f] = "count" => BatchOf(f)' = b /\ stored' = stored \cup b
      /\ fpc'[f] = "idle" => BatchOf(f)' = {}
  BY DEF WriteOutcome, chanVars
<1>2. b \subseteq Seen /\ b \cap channel = {} /\ b \cap stored = {}
  BY <1>1, BatchesApart DEF IInv, Placed
<1>3. Open(f) = b /\ Open(f)' = {}
  BY <1>1 DEF Open
<1>4. Seen' = Seen /\ \A e \in Seen : AboutOf(e)' = AboutOf(e)
  BY <1>1 DEF Seen, AboutOf
<1>5. Placed'
  <2>1. /\ \A s, t \in seen' : s.event = t.event => s = t
        /\ stored' \subseteq Seen' /\ channel' \subseteq Seen' /\ batch' \subseteq Seen'
        /\ rest' \subseteq Seen'
        /\ channel' \cap batch' = {} /\ channel' \cap rest' = {} /\ batch' \cap rest' = {}
        /\ channel' \cap stored' = {}
    BY <1>1, <1>2, <1>4 DEF IInv, Placed, Flushed
  <2>2. ASSUME NEW g \in Flushers
        PROVE  IF fpc'[g] = "count" THEN BatchOf(g)' \subseteq stored'
                                    ELSE BatchOf(g)' \cap stored' = {}
    <3>1. CASE g = f
      BY <1>1, <3>1
    <3>2. CASE g # f
      <4>1. fpc'[g] = fpc[g] /\ BatchOf(g)' = BatchOf(g) /\ BatchOf(g) \cap b = {}
        BY <3>2, BatchesApart DEF Flushed, IInv
      <4> QED
        BY <1>1, <4>1 DEF IInv, Placed
    <3> QED
      BY <3>1, <3>2
  <2>3. Seen' = settled' \cup channel' \cup Open("drainer")' \cup Open("shutdown")'
    <3>1. CASE f = "drainer"
      <4>1. Open("shutdown")' = Open("shutdown")
        BY <3>1, OpenOthers DEF Flushers
      <4> QED
        BY <1>1, <1>3, <1>4, <3>1, <4>1 DEF IInv, Placed
    <3>2. CASE f = "shutdown"
      <4>1. Open("drainer")' = Open("drainer")
        BY <3>2, OpenOthers DEF Flushers
      <4> QED
        BY <1>1, <1>3, <1>4, <3>2, <4>1 DEF IInv, Placed
    <3> QED
      BY <3>1, <3>2 DEF Flushers
  <2> QED
    BY <2>1, <2>2, <2>3 DEF Placed
<1>6. Accounted'
  <2>1. /\ dropped' + written' = dropped + written + Cardinality(Open(f))
        /\ dropped' \in Nat /\ written' \in Nat
    BY <1>3 DEF WriteOutcome
  <2>2. Cardinality(Open(f)') = 0 /\ Cardinality(channel') = Cardinality(channel)
    BY <1>1, <1>3, NoEvents
  <2>3. /\ Cardinality(Open("drainer")) \in Nat /\ Cardinality(Open("shutdown")) \in Nat
        /\ Cardinality(channel) \in Nat /\ dropped \in Nat /\ written \in Nat
    BY OpenEvents, EventSets DEF IInv, TypeOK, Flushers
  <2>4. CASE f = "drainer"
    <3>1. Open("shutdown")' = Open("shutdown")
      BY <2>4, OpenOthers DEF Flushers
    <3> QED
      BY <1>4, <2>1, <2>2, <2>3, <2>4, <3>1 DEF IInv, Accounted
  <2>5. CASE f = "shutdown"
    <3>1. Open("drainer")' = Open("drainer")
      BY <2>5, OpenOthers DEF Flushers
    <3> QED
      BY <1>4, <2>1, <2>2, <2>3, <2>5, <3>1 DEF IInv, Accounted
  <2> QED
    BY <2>4, <2>5 DEF Flushers
<1>7. Backed'
  <2>1. ASSUME NEW c \in Codes, NEW e \in Countable(c)
        PROVE  e \in Countable(c)'
    <3>1. e \in stored /\ e \in stored' /\ e \in Seen
      BY <1>1 DEF Countable, IInv, Placed
    <3>2. AboutOf(e)' = AboutOf(e)
      BY <1>4, <3>1
    <3>3. ASSUME NEW g \in Flushers, c \in fcodes'[g]
          PROVE  e \notin BatchOf(g)'
      <4>1. CASE g = f
        BY <1>1, <1>2, <3>1, <4>1
      <4>2. CASE g # f
        BY <3>3, <4>2 DEF Flushed, Countable
      <4> QED
        BY <4>1, <4>2
    <3> QED
      BY <3>1, <3>2, <3>3 DEF Countable
  <2> QED
    BY <1>1, <2>1, BackedStays DEF IInv, TypeOK
<1> QED
  BY <1>5, <1>6, <1>7 DEF IInv

\* The redirects that a count adds were set aside for it: no other flush counts
\* them, nor did this one before.
LEMMA CountInv ==
    ASSUME IInv, NEW f \in Flushers, NEW c \in Codes,
           CountedOne(f, c), Flushed(f), TypeOK', Control'
    PROVE  IInv'
<1> DEFINE new == {e \in BatchOf(f) : AboutOf(e).code = c /\ ~AboutOf(e).bot}
<1>1. /\ fpc[f] = "count" /\ c \in fcodes[f]
      /\ UNCHANGED <<channel, seen, stored, settled, dropped, written>>
      /\ \/ fpc'[f] = "count" /\ fcodes'[f] = fcodes[f] \ {c} /\ BatchOf(f)' = BatchOf(f)
         \/ fpc'[f] = "idle" /\ fcodes'[f] = {} /\ BatchOf(f)' = {}
  BY DEF CountedOne, chanVars, sumVars
<1>2. Open(f) = {} /\ Open(f)' = {}
  BY <1>1 DEF Open
<1>3. Open("drainer")' = Open("drainer") /\ Open("shutdown")' = Open("shutdown")
  BY <1>2, OpenOthers DEF Flushers
<1>4. Seen' = Seen /\ \A e \in Seen : AboutOf(e)' = AboutOf(e)
  BY <1>1 DEF Seen, AboutOf
<1>5. BatchOf(f) \subseteq stored
  BY <1>1 DEF IInv, Placed
<1>6. Placed'
  <2>1. ASSUME NEW g \in Flushers
        PROVE  IF fpc'[g] = "count" THEN BatchOf(g)' \subseteq stored'
                                    ELSE BatchOf(g)' \cap stored' = {}
    BY <1>1, <1>5 DEF Flushed, IInv, Placed
  <2> QED
    BY <1>1, <1>3, <1>4, <2>1 DEF IInv, Placed, Flushed
<1>7. Accounted'
  BY <1>1, <1>3, <1>4 DEF IInv, Accounted
<1>8. Backed'
  <2>1. ASSUME NEW d \in Codes, NEW e \in Countable(d)
        PROVE  e \in Countable(d)'
    <3>1. e \in stored' /\ e \in Seen /\ AboutOf(e)' = AboutOf(e)
      BY <1>1, <1>4 DEF Countable, IInv, Placed
    <3>2. ASSUME NEW g \in Flushers, d \in fcodes'[g]
          PROVE  e \notin BatchOf(g)'
      <4>1. CASE g = f
        BY <1>1, <3>2, <4>1 DEF Countable
      <4>2. CASE g # f
        BY <3>2, <4>2 DEF Flushed, Countable
      <4> QED
        BY <4>1, <4>2
    <3> QED
      BY <3>1, <3>2 DEF Countable
  <2>2. ASSUME NEW e \in new
        PROVE  e \in Countable(c)' /\ e \notin Countable(c)
    <3>1. e \in stored' /\ e \in Seen /\ AboutOf(e)' = AboutOf(e)
      BY <1>1, <1>4, <1>5 DEF IInv, Placed
    <3>2. e \notin Countable(c)
      BY <1>1 DEF Countable
    <3>3. ASSUME NEW g \in Flushers, c \in fcodes'[g]
          PROVE  e \notin BatchOf(g)'
      <4>1. g # f
        BY <1>1, <3>3
      <4> QED
        BY <4>1, BatchesApart DEF Flushed, IInv
    <3> QED
      BY <3>1, <3>2, <3>3 DEF Countable
  <2>3. /\ new \in SUBSET Events /\ Countable(c) \in SUBSET Events
        /\ Countable(c)' \in SUBSET Events
        /\ Countable(c) \cup new \subseteq Countable(c)' /\ Countable(c) \cap new = {}
    <3>1. Countable(c)' \in SUBSET Events
      BY DEF Countable, TypeOK
    <3> QED
      BY <2>1, <2>2, <3>1, BatchEvents, CountableEvents DEF IInv
  <2>4. /\ Cardinality(Countable(c)) + Cardinality(new) <= Cardinality(Countable(c)')
        /\ Cardinality(new) \in Nat /\ Cardinality(Countable(c)) \in Nat
        /\ Cardinality(Countable(c)') \in Nat
    BY <2>3, Apart
  <2>5. Clicks(f, c) = Cardinality(new)
    BY DEF Clicks
  <2> HIDE DEF new
  <2>6. clicks \in [Codes -> Nat] /\ clicks' \in [Codes -> Nat]
    BY DEF IInv, TypeOK
  <2>7. clicks'[c] <= clicks[c] + Cardinality(new) /\ \A d \in Codes \ {c} : clicks'[d] = clicks[d]
    BY <2>4, <2>5, <2>6 DEF CountedOne, AddClicks
  <2>8. clicks'[c] <= Cardinality(Countable(c)')
    BY <2>4, <2>6, <2>7 DEF IInv, Backed
  <2>9. ASSUME NEW d \in Codes \ {c}
        PROVE  clicks'[d] <= Cardinality(Countable(d)')
    <3>1. Countable(d) \subseteq Countable(d)' /\ Countable(d)' \in SUBSET Events
      BY <2>1 DEF Countable, TypeOK
    <3>2. Cardinality(Countable(d)) <= Cardinality(Countable(d)')
          /\ Cardinality(Countable(d)) \in Nat /\ Cardinality(Countable(d)') \in Nat
      BY <3>1, FewerOrSame
    <3> QED
      BY <2>6, <2>7, <3>2 DEF IInv, Backed
  <2> QED
    BY <2>8, <2>9 DEF Backed
<1> QED
  BY <1>6, <1>7, <1>8 DEF IInv

-----------------------------------------------------------------------------
(* The other steps                                                         *)

\* Steps that leave the rows, the counters and the counting flushes alone.
LEMMA BackedSame ==
    ASSUME IInv, TypeOK', UNCHANGED <<seen, stored, clicks, fcodes>>,
           \A f \in Flushers : fcodes[f] # {} => BatchOf(f)' = BatchOf(f)
    PROVE  Backed'
<1>1. ASSUME NEW c \in Codes, NEW e \in Countable(c)
      PROVE  e \in Countable(c)'
  <2>1. e \in stored' /\ AboutOf(e)' = AboutOf(e)
    BY DEF Countable, AboutOf
  <2>2. \A g \in Flushers : c \in fcodes'[g] => e \notin BatchOf(g)'
    BY DEF Countable
  <2> QED
    BY <2>1, <2>2 DEF Countable
<1> QED
  BY <1>1, BackedStays DEF IInv, TypeOK

LEMMA CaptureInv ==
    ASSUME IInv, NEW e \in Events, NEW a \in About, Capture(e, a)
    PROVE  IInv'
<1>1. /\ Serving /\ e \notin Seen /\ seen' = seen \cup {[event |-> e, about |-> a]}
      /\ \/ HasRoom /\ channel' = channel \cup {e} /\ UNCHANGED sumVars
         \/ /\ ~HasRoom /\ dropped' = dropped + 1 /\ settled' = settled \cup {e}
            /\ UNCHANGED <<channel, written>>
      /\ UNCHANGED <<drainVars, stopVars, flushVars, dbVars>>
  BY DEF Capture
<1>2. Seen' = Seen \cup {e}
  <2> DEFINE s == [event |-> e, about |-> a]
  <2>1. s.event = e /\ seen' = seen \cup {s}
    BY <1>1
  <2> HIDE DEF s
  <2> QED
    BY <2>1 DEF Seen
<1>3. \A s, t \in seen' : s.event = t.event => s = t
  BY <1>1 DEF IInv, Placed, Seen
<1>4. \A x \in Seen : AboutOf(x)' = AboutOf(x)
  BY <1>1, <1>3, AboutStays
<1>5. \A f \in Flushers : BatchOf(f)' = BatchOf(f) /\ Open(f)' = Open(f)
  BY <1>1 DEF BatchOf, Open, drainVars, stopVars, flushVars
<1>6. e \notin channel
  BY <1>1 DEF IInv, Placed
<1>7. /\ Cardinality(channel) \in Nat /\ Cardinality(channel \cup {e}) = Cardinality(channel) + 1
      /\ Cardinality(Seen \cup {e}) = Cardinality(Seen) + 1 /\ Cardinality(Seen) \in Nat
  <2>1. channel \in SUBSET Events /\ Seen \in SUBSET Events
    BY SeenEvents DEF IInv, TypeOK
  <2> QED
    BY <1>1, <1>6, <2>1, AddOne
<1>8. TypeOK'
  <2>1. seen' \subseteq [event: Events, about: About]
    BY <1>1 DEF IInv, TypeOK
  <2>2. channel' \subseteq Events /\ Cardinality(channel') <= Capacity
    <3>1. CASE HasRoom /\ channel' = channel \cup {e}
      BY <1>7, <3>1 DEF HasRoom, IInv, TypeOK
    <3>2. CASE channel' = channel
      BY <3>2 DEF IInv, TypeOK
    <3> QED
      BY <1>1, <3>1, <3>2
  <2>3. dropped' \in Nat /\ written' \in Nat /\ settled' \subseteq Events
    BY <1>1 DEF sumVars, IInv, TypeOK
  <2> QED
    BY <1>1, <2>1, <2>2, <2>3 DEF IInv, TypeOK, drainVars, stopVars, flushVars, dbVars
<1>9. Control'
  <2>1. hurried \/ spc \notin {"flush", "closing", "exit"}
    BY <1>1 DEF Serving
  <2> QED
    BY <1>1, <2>1 DEF IInv, Control, drainVars, stopVars, flushVars
<1>10. Placed'
  <2>1. e \notin batch /\ e \notin rest /\ e \notin stored
    BY <1>1 DEF IInv, Placed
  <2>2. /\ stored' \subseteq Seen' /\ channel' \subseteq Seen' /\ batch' \subseteq Seen'
        /\ rest' \subseteq Seen'
        /\ channel' \cap batch' = {} /\ channel' \cap rest' = {} /\ batch' \cap rest' = {}
        /\ channel' \cap stored' = {}
    BY <1>1, <1>2, <2>1 DEF IInv, Placed, drainVars, stopVars, dbVars
  <2>3. ASSUME NEW g \in Flushers
        PROVE  IF fpc'[g] = "count" THEN BatchOf(g)' \subseteq stored'
                                    ELSE BatchOf(g)' \cap stored' = {}
    BY <1>1, <1>5 DEF IInv, Placed, flushVars, dbVars
  <2>4. Seen' = settled' \cup channel' \cup Open("drainer")' \cup Open("shutdown")'
    BY <1>1, <1>2, <1>5 DEF IInv, Placed, sumVars, Flushers
  <2> QED
    BY <1>3, <2>2, <2>3, <2>4 DEF Placed
<1>11. Accounted'
  <2>1. /\ Cardinality(Open("drainer")) \in Nat /\ Cardinality(Open("shutdown")) \in Nat
        /\ dropped \in Nat /\ written \in Nat
    BY OpenEvents, EventSets DEF IInv, TypeOK, Flushers
  <2>2. /\ Open("drainer")' = Open("drainer") /\ Open("shutdown")' = Open("shutdown")
        /\ Cardinality(Seen') = Cardinality(Seen) + 1
    BY <1>2, <1>5, <1>7 DEF Flushers
  <2>3. CASE channel' = channel \cup {e} /\ UNCHANGED sumVars
    BY <1>7, <2>1, <2>2, <2>3 DEF IInv, Accounted, sumVars
  <2>4. CASE dropped' = dropped + 1 /\ UNCHANGED <<channel, written>>
    BY <1>7, <2>1, <2>2, <2>4 DEF IInv, Accounted
  <2> QED
    BY <1>1, <2>3, <2>4
<1>12. Backed'
  <2>1. ASSUME NEW c \in Codes, NEW x \in Countable(c)
        PROVE  x \in Countable(c)'
    <3>1. x \in stored /\ x \in Seen
      BY DEF Countable, IInv, Placed
    <3> QED
      BY <1>1, <1>4, <1>5, <3>1 DEF Countable, dbVars, flushVars
  <2> QED
    BY <1>1, <1>8, <2>1, BackedStays DEF IInv, TypeOK, dbVars
<1> QED
  BY <1>8, <1>9, <1>10, <1>11, <1>12 DEF IInv

\* An event goes from the channel to a batch that no flush is about.
LEMMA TakeInv ==
    ASSUME IInv, TypeOK', Control', NEW f \in Flushers, NEW e \in channel,
           fpc[f] = "idle", fpc'[f] \in {"idle", "write"},
           channel' = channel \ {e}, BatchOf(f)' = BatchOf(f) \cup {e},
           \A g \in Flushers \ {f} : fpc'[g] = fpc[g] /\ BatchOf(g)' = BatchOf(g),
           UNCHANGED <<seen, fcodes, sumVars, stored, clicks>>
    PROVE  IInv'
<1>1. Open(f) = BatchOf(f) /\ Open(f)' = BatchOf(f) \cup {e}
  BY DEF Open
<1>2. \A g \in Flushers \ {f} : Open(g)' = Open(g)
  BY DEF Open
<1>3. Seen' = Seen
  BY DEF Seen
<1>4. /\ e \notin BatchOf(f) /\ e \notin stored /\ e \in Seen
      /\ \A g \in Flushers : e \notin BatchOf(g)
  BY BatchesApart DEF IInv, Placed
<1>5. ASSUME NEW g \in Flushers
      PROVE  IF fpc'[g] = "count" THEN BatchOf(g)' \subseteq stored'
                                  ELSE BatchOf(g)' \cap stored' = {}
  BY <1>4 DEF IInv, Placed
<1>6. Open(f) \in SUBSET Events /\ channel \in SUBSET Events
  BY OpenEvents DEF IInv, TypeOK
<1>7. /\ Cardinality(Open(f)') = Cardinality(Open(f)) + 1 /\ Cardinality(Open(f)) \in Nat
  <2>1. e \notin Open(f) /\ Open(f)' = Open(f) \cup {e}
    BY <1>1, <1>4
  <2> QED
    BY <1>6, <2>1, AddOne
<1>8. Cardinality(channel') = Cardinality(channel) - 1 /\ Cardinality(channel) \in Nat
  BY <1>6, RemoveOne
<1>9. /\ \A g \in Flushers : Cardinality(Open(g)) \in Nat
      /\ dropped \in Nat /\ written \in Nat
  BY OpenEvents, EventSets DEF IInv, TypeOK
<1>10. Backed'
  BY BackedSame DEF IInv, Control
<1>11. CASE f = "drainer"
  <2>1. batch' = batch \cup {e} /\ rest' = rest
    BY <1>11 DEF BatchOf, Flushers
  <2>2. Open("shutdown")' = Open("shutdown")
    BY <1>2, <1>11 DEF Flushers
  <2>3. Placed'
    BY <1>1, <1>3, <1>4, <1>5, <1>11, <2>1, <2>2 DEF IInv, Placed, BatchOf, sumVars
  <2>4. Accounted'
    BY <1>3, <1>7, <1>8, <1>9, <1>11, <2>2 DEF IInv, Accounted, sumVars, Flushers
  <2> QED
    BY <1>10, <2>3, <2>4 DEF IInv
<1>12. CASE f = "shutdown"
  <2>1. rest' = rest \cup {e} /\ batch' = batch
    BY <1>12 DEF BatchOf, Flushers
  <2>2. Open("drainer")' = Open("drainer")
    BY <1>2, <1>12 DEF Flushers
  <2>3. Placed'
    BY <1>1, <1>3, <1>4, <1>5, <1>12, <2>1, <2>2 DEF IInv, Placed, BatchOf, sumVars
  <2>4. Accounted'
    BY <1>3, <1>7, <1>8, <1>9, <1>12, <2>2 DEF IInv, Accounted, sumVars, Flushers
  <2> QED
    BY <1>10, <2>3, <2>4 DEF IInv
<1> QED
  BY <1>11, <1>12 DEF Flushers

\* Steps that move no event: a flush starts, or main or a deletion goes on.
LEMMA NothingMoves ==
    ASSUME IInv, TypeOK', Control',
           \A f \in Flushers : fpc'[f] = fpc[f] \/ (fpc[f] = "idle" /\ fpc'[f] = "write"),
           UNCHANGED <<chanVars, batch, rest, fcodes, sumVars, stored, clicks>>
    PROVE  IInv'
<1>1. \A f \in Flushers : BatchOf(f)' = BatchOf(f)
  BY DEF BatchOf
<1>2. \A f \in Flushers : Open(f)' = Open(f)
  BY <1>1 DEF Open
<1>3. Seen' = Seen
  BY DEF Seen, chanVars
<1>4. Open("drainer")' = Open("drainer") /\ Open("shutdown")' = Open("shutdown")
  BY <1>2 DEF Flushers
<1>5. Placed'
  <2>1. ASSUME NEW g \in Flushers
        PROVE  IF fpc'[g] = "count" THEN BatchOf(g)' \subseteq stored'
                                    ELSE BatchOf(g)' \cap stored' = {}
    BY <1>1 DEF IInv, Placed
  <2> QED
    BY <1>3, <1>4, <2>1 DEF IInv, Placed, chanVars, sumVars
<1>6. Accounted'
  BY <1>3, <1>4 DEF IInv, Accounted, chanVars, sumVars
<1> QED
  BY <1>1, <1>5, <1>6, BackedSame DEF IInv, chanVars

LEMMA ReceiveInv ==
    ASSUME IInv, NEW e \in Events, DrainerReceive(e)
    PROVE  IInv'
<1>1. /\ dpc = "select" /\ e \in channel /\ channel' = channel \ {e} /\ batch' = batch \cup {e}
      /\ UNCHANGED <<seen, stopVars, sumVars, dbVars>>
      /\ \/ /\ Cardinality(batch) + 1 >= BatchSize
            /\ dpc' = "flush" /\ fpc' = [fpc EXCEPT !["drainer"] = "write"] /\ UNCHANGED fcodes
         \/ ~(Cardinality(batch) + 1 >= BatchSize) /\ UNCHANGED <<dpc, flushVars>>
  BY DEF DrainerReceive, StartFlush
<1>2. /\ fpc["drainer"] = "idle" /\ Cardinality(batch) < BatchSize
      /\ fpc \in [Flushers -> {"idle", "write", "count"}]
  BY <1>1 DEF IInv, Control, TypeOK, Flushers
<1>3. /\ Cardinality(batch') \in Nat /\ Cardinality(batch') <= BatchSize
      /\ Cardinality(batch') <= Cardinality(batch) + 1
      /\ Cardinality(batch) \in Nat
      /\ Cardinality(channel') <= Capacity
  <2>1. batch \in SUBSET Events /\ channel \in SUBSET Events
    BY DEF IInv, TypeOK
  <2>2. /\ Cardinality(batch) \in Nat
        /\ Cardinality(batch') = IF e \in batch THEN Cardinality(batch) ELSE Cardinality(batch) + 1
    BY <1>1, <2>1, AddOne
  <2>3. Cardinality(channel') = Cardinality(channel) - 1 /\ Cardinality(channel) \in Nat
    BY <1>1, <2>1, RemoveOne
  <2>4. Cardinality(channel') <= Capacity
    BY <2>3 DEF IInv, TypeOK
  <2> QED
    BY <1>2, <2>2, <2>4
<1>4. /\ fpc' \in [Flushers -> {"idle", "write", "count"}] /\ fcodes' = fcodes
      /\ fpc'["drainer"] \in {"idle", "write"} /\ fpc'["shutdown"] = fpc["shutdown"]
      /\ dpc' \in {"select", "flush"} /\ (dpc' = "flush" <=> fpc'["drainer"] # "idle")
  BY <1>1, <1>2 DEF Flushers, flushVars
<1>5. TypeOK'
  BY <1>1, <1>3, <1>4 DEF IInv, TypeOK, stopVars, sumVars, dbVars
<1>6. Control'
  <2>1. dpc' = "select" => Cardinality(batch') < BatchSize
    BY <1>1, <1>3
  <2>2. spc \notin {"draining", "flush"} /\ (hurried \/ spc \notin {"closing", "exit"})
    BY <1>1 DEF IInv, Control
  <2> QED
    BY <1>1, <1>2, <1>4, <2>1, <2>2 DEF IInv, Control, stopVars, Flushers
<1>7. /\ BatchOf("drainer")' = BatchOf("drainer") \cup {e}
      /\ \A g \in Flushers \ {"drainer"} : fpc'[g] = fpc[g] /\ BatchOf(g)' = BatchOf(g)
  BY <1>1, <1>4 DEF BatchOf, Flushers, stopVars
<1>8. "drainer" \in Flushers
  BY DEF Flushers
<1>9. UNCHANGED <<seen, fcodes, sumVars, stored, clicks>>
  BY <1>1, <1>4 DEF dbVars
<1> QED
  BY <1>1, <1>2, <1>4, <1>5, <1>6, <1>7, <1>8, <1>9, TakeInv

LEMMA DrainInv ==
    ASSUME IInv, NEW e \in Events, ShutdownDrain(e)
    PROVE  IInv'
<1>1. /\ spc = "draining" /\ e \in channel /\ channel' = channel \ {e} /\ rest' = rest \cup {e}
      /\ UNCHANGED <<seen, drainVars, spc, hurried, flushVars, sumVars, dbVars>>
  BY DEF ShutdownDrain
<1>2. fpc["shutdown"] = "idle"
  BY <1>1 DEF IInv, Control, TypeOK, Flushers
<1>3. Cardinality(channel') <= Capacity
  <2>1. Cardinality(channel') = Cardinality(channel) - 1 /\ Cardinality(channel) \in Nat
    BY <1>1, RemoveOne DEF IInv, TypeOK
  <2> QED
    BY <2>1 DEF IInv, TypeOK
<1>4. TypeOK'
  BY <1>1, <1>3 DEF IInv, TypeOK, drainVars, flushVars, sumVars, dbVars
<1>5. Control'
  BY <1>1 DEF IInv, Control, drainVars, flushVars
<1>6. /\ BatchOf("shutdown")' = BatchOf("shutdown") \cup {e}
      /\ \A g \in Flushers \ {"shutdown"} : fpc'[g] = fpc[g] /\ BatchOf(g)' = BatchOf(g)
  BY <1>1 DEF BatchOf, Flushers, drainVars, flushVars
<1>7. "shutdown" \in Flushers /\ fpc' = fpc
  BY <1>1 DEF Flushers, flushVars
<1>8. UNCHANGED <<seen, fcodes, sumVars, stored, clicks>>
  BY <1>1 DEF flushVars, dbVars
<1> QED
  BY <1>1, <1>2, <1>4, <1>5, <1>6, <1>7, <1>8, TakeInv

LEMMA DrainerInv ==
    ASSUME IInv, DrainerTick \/ DrainerDone
    PROVE  IInv'
<1>1. /\ dpc = "select" /\ UNCHANGED <<chanVars, batch, stopVars, sumVars, dbVars>>
      /\ \/ dpc' = "exited" /\ batch = {} /\ UNCHANGED flushVars
         \/ /\ dpc' \in {"flush", "last"} /\ UNCHANGED fcodes
            /\ fpc' = [fpc EXCEPT !["drainer"] = "write"]
  BY DEF DrainerTick, DrainerDone, StartFlush
<1>2. fpc["drainer"] = "idle" /\ fpc \in [Flushers -> {"idle", "write", "count"}]
  BY <1>1 DEF IInv, Control, TypeOK, Flushers
<1>3. /\ fpc' \in [Flushers -> {"idle", "write", "count"}] /\ fcodes' = fcodes
      /\ fpc'["drainer"] \in {"idle", "write"} /\ fpc'["shutdown"] = fpc["shutdown"]
      /\ dpc' \in {"exited", "flush", "last"} /\ (dpc' = "exited" <=> fpc'["drainer"] = "idle")
      /\ dpc' = "exited" => batch = {}
  BY <1>1, <1>2 DEF Flushers, flushVars
<1>4. TypeOK'
  BY <1>1, <1>3 DEF IInv, TypeOK, chanVars, stopVars, sumVars, dbVars
<1>5. Control'
  BY <1>1, <1>2, <1>3 DEF IInv, Control, chanVars, stopVars, Flushers
<1>6. \A f \in Flushers : fpc'[f] = fpc[f] \/ (fpc[f] = "idle" /\ fpc'[f] = "write")
  BY <1>2, <1>3 DEF Flushers
<1> QED
  BY <1>1, <1>3, <1>4, <1>5, <1>6, NothingMoves DEF stopVars, dbVars

LEMMA ShutdownFlushInv ==
    ASSUME IInv, ShutdownFlush
    PROVE  IInv'
<1>1. /\ spc = "draining" /\ channel = {}
      /\ UNCHANGED <<chanVars, drainVars, rest, hurried, sumVars, dbVars>>
      /\ \/ spc' = "closing" /\ rest = {} /\ UNCHANGED flushVars
         \/ /\ spc' = "flush" /\ UNCHANGED fcodes
            /\ fpc' = [fpc EXCEPT !["shutdown"] = "write"]
  BY DEF ShutdownFlush, StartFlush
<1>2. fpc["shutdown"] = "idle" /\ fpc \in [Flushers -> {"idle", "write", "count"}]
  BY <1>1 DEF IInv, Control, TypeOK, Flushers
<1>3. /\ fpc' \in [Flushers -> {"idle", "write", "count"}] /\ fcodes' = fcodes
      /\ fpc'["shutdown"] \in {"idle", "write"} /\ fpc'["drainer"] = fpc["drainer"]
      /\ spc' \in {"closing", "flush"} /\ (spc' = "closing" <=> fpc'["shutdown"] = "idle")
      /\ spc' = "closing" => rest = {}
  BY <1>1, <1>2 DEF Flushers, flushVars
<1>4. TypeOK'
  BY <1>1, <1>3 DEF IInv, TypeOK, chanVars, drainVars, sumVars, dbVars
<1>5. Control'
  BY <1>1, <1>2, <1>3 DEF IInv, Control, chanVars, drainVars, Flushers
<1>6. \A f \in Flushers : fpc'[f] = fpc[f] \/ (fpc[f] = "idle" /\ fpc'[f] = "write")
  BY <1>2, <1>3 DEF Flushers
<1> QED
  BY <1>1, <1>3, <1>4, <1>5, <1>6, NothingMoves DEF drainVars, dbVars

LEMMA MainInv ==
    ASSUME IInv, StopServer \/ CancelDrainer \/ AwaitDrainer \/ AwaitTimeout \/ Exit
    PROVE  IInv'
<1>1. UNCHANGED <<chanVars, drainVars, rest, flushVars, sumVars, dbVars>>
  BY DEF StopServer, CancelDrainer, AwaitDrainer, AwaitTimeout, Exit
<1>2. /\ spc' \in {"up", "stopped", "waiting", "draining", "flush", "closing", "exit"}
      /\ hurried' \in BOOLEAN
  BY DEF StopServer, CancelDrainer, AwaitDrainer, AwaitTimeout, Exit, IInv, TypeOK
<1>3. TypeOK'
  BY <1>1, <1>2 DEF IInv, TypeOK, chanVars, drainVars, flushVars, sumVars, dbVars
<1>4. Control'
  <2>1. CASE StopServer
    BY <1>1, <2>1 DEF StopServer, IInv, Control, chanVars, drainVars, flushVars
  <2>2. CASE CancelDrainer
    BY <1>1, <2>2 DEF CancelDrainer, IInv, Control, chanVars, drainVars, flushVars
  <2>3. CASE AwaitDrainer
    BY <1>1, <2>3 DEF AwaitDrainer, DrainerStopped, IInv, Control, chanVars, drainVars, flushVars
  <2>4. CASE AwaitTimeout
    BY <1>1, <2>4 DEF AwaitTimeout, IInv, Control, chanVars, drainVars, flushVars
  <2>5. CASE Exit
    BY <1>1, <2>5 DEF Exit, IInv, Control, chanVars, drainVars, flushVars
  <2> QED
    BY <2>1, <2>2, <2>3, <2>4, <2>5
<1> QED
  BY <1>1, <1>3, <1>4, NothingMoves DEF drainVars, flushVars, dbVars

LEMMA DeleteInv ==
    ASSUME IInv, NEW c \in Codes, DeleteUrl(c)
    PROVE  IInv'
<1>1. /\ UNCHANGED <<chanVars, drainVars, stopVars, flushVars, sumVars, stored, clicks, faults>>
      /\ gone' = gone \cup {c}
  BY DEF DeleteUrl
<1>2. TypeOK'
  BY <1>1 DEF IInv, TypeOK, chanVars, drainVars, stopVars, flushVars, sumVars
<1>3. Control'
  BY <1>1 DEF IInv, Control, chanVars, drainVars, stopVars, flushVars
<1> QED
  BY <1>1, <1>2, <1>3, NothingMoves DEF drainVars, stopVars, flushVars

-----------------------------------------------------------------------------
(* The theorems                                                            *)

LEMMA InitInv == Init => IInv
<1> SUFFICES ASSUME Init
             PROVE  IInv
  OBVIOUS
<1>1. TypeOK
  <2>1. /\ fpc \in [Flushers -> {"idle", "write", "count"}] /\ fcodes \in [Flushers -> SUBSET Codes]
        /\ clicks \in [Codes -> Nat]
    BY DEF Init
  <2>2. Cardinality(channel) <= Capacity /\ Cardinality(batch) <= BatchSize
    BY NoEvents DEF Init
  <2>3. faults \in 0 .. MaxFaults /\ dropped \in Nat /\ written \in Nat
    BY DEF Init
  <2>4. hurried \in BOOLEAN
    BY DEF Init
  <2> QED
    BY <2>1, <2>2, <2>3, <2>4 DEF Init, TypeOK
<1>2. Control
  BY NoEvents DEF Init, Control, Flushers
<1>3. \A f \in Flushers : Open(f) = {} /\ BatchOf(f) = {}
  BY DEF Init, Open, BatchOf
<1>4. Seen = {}
  BY DEF Init, Seen
<1>5. Placed
  BY <1>3, <1>4 DEF Init, Placed, Flushers
<1>6. Accounted
  BY <1>3, <1>4, NoEvents DEF Init, Accounted, Flushers
<1>7. Backed
  <2>1. ASSUME NEW c \in Codes
        PROVE  clicks[c] <= Cardinality(Countable(c))
    <3>1. Countable(c) = {}
      BY DEF Init, Countable
    <3> QED
      BY <3>1, NoEvents DEF Init
  <2> QED
    BY <2>1 DEF Backed
<1> QED
  BY <1>1, <1>2, <1>5, <1>6, <1>7 DEF IInv

LEMMA NextInv == IInv /\ [Next]_vars => IInv'
<1> SUFFICES ASSUME IInv, [Next]_vars
             PROVE  IInv'
  OBVIOUS
<1>1. ASSUME NEW e \in Events, NEW a \in About, Capture(e, a)
      PROVE  IInv'
  BY <1>1, CaptureInv
<1>2. ASSUME NEW f \in Flushers, FlushStep(f)
      PROVE  IInv'
  <2>1. CASE Write(f)
    BY <2>1, WriteEffect, WriteInv
  <2>2. CASE WriteError(f)
    BY <2>2, WriteErrorEffect, WriteInv
  <2>3. ASSUME NEW c \in Codes, Count(f, c) \/ CountError(f, c)
        PROVE  IInv'
    BY <2>3, CountEffect, CountInv
  <2> QED
    BY <1>2, <2>1, <2>2, <2>3 DEF FlushStep
<1>3. CASE DrainerStep
  BY <1>3, DrainerInv, ReceiveInv DEF DrainerStep
<1>4. CASE StopServer \/ ShutdownStep
  BY <1>4, MainInv, ShutdownFlushInv, DrainInv DEF ShutdownStep
<1>5. ASSUME NEW c \in Codes, DeleteUrl(c)
      PROVE  IInv'
  BY <1>5, DeleteInv
<1>6. CASE UNCHANGED vars
  <2>1. UNCHANGED <<chanVars, drainVars, stopVars, flushVars, sumVars, dbVars>>
    BY <1>6 DEF vars
  <2>2. TypeOK' /\ Control'
    BY <2>1 DEF IInv, TypeOK, Control, chanVars, drainVars, stopVars, flushVars, sumVars, dbVars
  <2> QED
    BY <2>1, <2>2, NothingMoves DEF drainVars, stopVars, flushVars, dbVars
<1> QED
  BY <1>1, <1>2, <1>3, <1>4, <1>5, <1>6 DEF Next

\* The invariant that the others follow from.
THEOREM InductiveCorrect == Spec => []IInv
BY InitInv, NextInv, PTL DEF Spec

\* Every variable has its kind of values; the channel and the drainer's batch
\* never hold more than they may.
THEOREM TypeCorrect == Spec => []TypeOK
<1>1. IInv => TypeOK
  BY DEF IInv
<1> QED
  BY <1>1, InductiveCorrect, PTL

\* Every captured event is in one place or counted once, whichever statements
\* fail, and no click is counted that is not stored (Capture, flush,
\* IncrementClickCounts).
THEOREM CountsCorrect == Spec => []CountsAreExact
<1>1. ASSUME IInv, NEW c \in Codes
      PROVE  clicks[c] <= Cardinality({e \in stored : AboutOf(e).code = c /\ ~AboutOf(e).bot})
  <2> DEFINE human == {e \in stored : AboutOf(e).code = c /\ ~AboutOf(e).bot}
  <2>1. human \in SUBSET Events /\ Countable(c) \subseteq human
    BY <1>1 DEF Countable, IInv, TypeOK
  <2>2. /\ Cardinality(Countable(c)) <= Cardinality(human)
        /\ Cardinality(Countable(c)) \in Nat /\ Cardinality(human) \in Nat
    BY <2>1, FewerOrSame
  <2> HIDE DEF human
  <2>3. clicks[c] \in Nat /\ clicks[c] <= Cardinality(Countable(c))
    BY <1>1 DEF IInv, Backed, TypeOK
  <2>4. clicks[c] <= Cardinality(human)
    BY <2>2, <2>3
  <2> QED
    BY <2>4 DEF human
<1>2. IInv => CountsAreExact
  BY <1>1 DEF IInv, CountsAreExact, ClicksBacked
<1> QED
  BY <1>2, InductiveCorrect, PTL

\* When main returns and no wait was cut short, every captured event was written
\* or counted as dropped: the order of main's steps leaves nothing in the channel,
\* in the drainer's batch or in Shutdown's (cmd/redirector/main.go).
THEOREM GracefulCorrect == Spec => []GracefulLosesNothing
<1>1. IInv => GracefulLosesNothing
  <2> SUFFICES ASSUME IInv, spc = "exit", ~hurried
               PROVE  settled = Seen
    BY DEF GracefulLosesNothing
  <2>1. batch = {} /\ rest = {} /\ channel = {}
    BY DEF IInv, Control
  <2>2. Open("drainer") = {} /\ Open("shutdown") = {}
    BY <2>1 DEF Open, BatchOf
  <2> QED
    BY <2>1, <2>2 DEF IInv, Placed
<1> QED
  BY <1>1, InductiveCorrect, PTL

-----------------------------------------------------------------------------
(* Live click streams                                                      *)

USE StreamConstants

\* The clicks that are published.
Humans == Redirects \ Bots

NoBots ==
    /\ sending \subseteq Humans
    /\ inbox \in [Streams -> Seq(Humans)] /\ hand \in [Streams -> Seq(Humans)]
    /\ events \in [Streams -> Seq(Humans)]

StreamInv == StreamTypeOK /\ NoBots /\ ShownInOrder

\* A stream's clicks: taken from the channel (sent or lost), in the channel, in
\* the hand, in the inbox.
Line(a, b, c, d) == ((a \o b) \o c) \o d

\* The first part of ShownInOrder, as a Line.
CutsAgree ==
    \A s \in Streams : due[s] = Line(shown[s] \o lost[s], events[s], hand[s], inbox[s])

-----------------------------------------------------------------------------
(* Sequences                                                               *)

LEMMA OneElement ==
    ASSUME NEW S, NEW x \in S
    PROVE  <<x>> \in Seq(S) /\ Len(<<x>>) = 1
OBVIOUS

LEMMA HeadAndTail ==
    ASSUME NEW S, NEW s \in Seq(S), s # <<>>
    PROVE  /\ Head(s) \in S /\ Tail(s) \in Seq(S) /\ Len(Tail(s)) = Len(s) - 1
           /\ s = <<Head(s)>> \o Tail(s)
<1>1. /\ Head(s) \in S /\ Tail(s) \in Seq(S) /\ Len(Tail(s)) = Len(s) - 1
      /\ \A i \in 1 .. Len(Tail(s)) : Tail(s)[i] = s[i + 1]
  BY HeadTailProperties
<1>2. <<Head(s)>> \in Seq(S) /\ Len(<<Head(s)>>) = 1 /\ <<Head(s)>>[1] = s[1]
  BY <1>1
<1> DEFINE t == <<Head(s)>> \o Tail(s)
<1>3. /\ t \in Seq(S) /\ Len(t) = 1 + Len(Tail(s))
      /\ \A i \in 1 .. 1 + Len(Tail(s)) : t[i] = IF i <= 1 THEN <<Head(s)>>[i] ELSE Tail(s)[i - 1]
  BY <1>1, <1>2, ConcatProperties
<1> HIDE DEF t
<1>4. Len(s) \in Nat /\ Len(s) = Len(t)
  BY <1>1, <1>3
<1>5. ASSUME NEW i \in 1 .. Len(s)
      PROVE  s[i] = t[i]
  <2>1. CASE i = 1
    BY <1>1, <1>2, <1>3, <1>4, <2>1
  <2>2. CASE i # 1
    <3>1. i - 1 \in 1 .. Len(Tail(s)) /\ (i - 1) + 1 = i /\ i \in 1 .. 1 + Len(Tail(s)) /\ ~(i <= 1)
      BY <1>1, <1>4, <2>2
    <3> QED
      BY <1>1, <1>3, <3>1
  <2> QED
    BY <2>1, <2>2
<1> QED
  BY <1>1, <1>3, <1>4, <1>5, SeqEqual DEF t

\* The same clicks on both sides, cut at other places.
LEMMA Joining ==
    ASSUME NEW S, NEW a \in Seq(S), NEW b \in Seq(S), NEW c \in Seq(S)
    PROVE  /\ a \o b \in Seq(S) /\ (a \o b) \o c = a \o (b \o c)
           /\ a \o <<>> = a /\ <<>> \o a = a
BY ConcatAssociative, ConcatProperties, ConcatEmptySeq

LEMMA HandTakes ==
    ASSUME NEW S, NEW a \in Seq(S), NEW b \in Seq(S), NEW d \in Seq(S), d # <<>>
    PROVE  Line(a, b, <<>>, d) = Line(a, b, <<Head(d)>>, Tail(d))
<1>1. Tail(d) \in Seq(S) /\ <<Head(d)>> \in Seq(S) /\ d = <<Head(d)>> \o Tail(d)
  BY HeadAndTail
<1>2. a \o b \in Seq(S)
  BY Joining
<1> QED
  BY <1>1, <1>2, Joining DEF Line

LEMMA ChannelTakes ==
    ASSUME NEW S, NEW a \in Seq(S), NEW b \in Seq(S), NEW c \in Seq(S), NEW d \in Seq(S)
    PROVE  Line(a, b, c, d) = Line(a, b \o c, <<>>, d)
<1>1. (a \o b) \o c = a \o (b \o c) /\ a \o (b \o c) \in Seq(S)
  BY Joining
<1> QED
  BY <1>1, Joining DEF Line

LEMMA ClientTakes ==
    ASSUME NEW S, NEW a \in Seq(S), NEW b \in Seq(S), b # <<>>, NEW c, NEW d
    PROVE  Line(a, b, c, d) = Line(a \o <<Head(b)>>, Tail(b), c, d)
<1>1. Tail(b) \in Seq(S) /\ <<Head(b)>> \in Seq(S) /\ b = <<Head(b)>> \o Tail(b)
  BY HeadAndTail
<1>2. a \o b = (a \o <<Head(b)>>) \o Tail(b)
  BY <1>1, Joining
<1> QED
  BY <1>2 DEF Line

-----------------------------------------------------------------------------
(* Steps                                                                   *)

LEMMA HumanSeqs == \A q \in Seq(Humans) : q \in Seq(Redirects)
BY SeqMonotonic DEF Humans

LEMMA SeqTypes ==
    ASSUME NEW f \in [Streams -> Seq(Humans)]
    PROVE  f \in [Streams -> Seq(Redirects)]
BY HumanSeqs

\* The steps that touch no sequence: a stream that is over stays so.
LEMMA SequencesStay ==
    ASSUME StreamInv, UNCHANGED <<inbox, hand, events, shown, lost, due>>,
           unseen' \subseteq Redirects, sending' \subseteq Humans,
           phase' \in [Streams -> {"new", "subscribed", "running", "over"}],
           decoder' \in [Streams -> {"none", "running", "done"}],
           \A s \in Streams : phase[s] = "over" => phase'[s] = "over"
    PROVE  StreamInv'
BY DEF StreamInv, StreamTypeOK, NoBots, ShownInOrder, Humans

\* A stream that is over stays so.
PhasesAdvance ==
    /\ phase' \in [Streams -> {"new", "subscribed", "running", "over"}]
    /\ \A s \in Streams : phase[s] = "over" => phase'[s] = "over"

\* What a stream in phase p may have lost.
MayHaveLost(l, p) == l # <<>> => Len(l) = 1 /\ p = "over"

\* The steps that move the clicks of one stream: o is what its client has been
\* sent, l what was lost.
LEMMA OneStreamMoves ==
    ASSUME StreamInv, NEW s \in Streams, NEW i \in Seq(Humans), NEW h \in Seq(Humans),
           NEW e \in Seq(Humans), NEW o \in Seq(Redirects), NEW l \in Seq(Redirects),
           UNCHANGED <<clickVars, decoder, due>>,
           inbox' = [inbox EXCEPT ![s] = i], hand' = [hand EXCEPT ![s] = h],
           events' = [events EXCEPT ![s] = e], shown' = [shown EXCEPT ![s] = o],
           lost' = [lost EXCEPT ![s] = l],
           PhasesAdvance, MayHaveLost(l, phase'[s]),
           Len(e) <= Buffer, Len(h) <= 1,
           Line(shown[s] \o lost[s], events[s], hand[s], inbox[s]) = Line(o \o l, e, h, i)
    PROVE  StreamInv'
<1>1. /\ inbox' \in [Streams -> Seq(Humans)] /\ hand' \in [Streams -> Seq(Humans)]
      /\ events' \in [Streams -> Seq(Humans)] /\ shown' \in [Streams -> Seq(Redirects)]
      /\ lost' \in [Streams -> Seq(Redirects)]
  BY DEF StreamInv, StreamTypeOK, NoBots
<1>2. /\ inbox'[s] = i /\ hand'[s] = h /\ events'[s] = e /\ shown'[s] = o /\ lost'[s] = l
      /\ \A x \in Streams \ {s} : /\ inbox'[x] = inbox[x] /\ hand'[x] = hand[x]
                                  /\ events'[x] = events[x] /\ shown'[x] = shown[x]
                                  /\ lost'[x] = lost[x]
  BY DEF StreamInv, StreamTypeOK
<1>3. /\ inbox' \in [Streams -> Seq(Redirects)] /\ hand' \in [Streams -> Seq(Redirects)]
      /\ events' \in [Streams -> Seq(Redirects)]
  BY <1>1, SeqTypes
<1>4. StreamTypeOK'
  BY <1>1, <1>2, <1>3 DEF StreamInv, StreamTypeOK, clickVars, PhasesAdvance
<1>5. NoBots'
  BY <1>1 DEF StreamInv, NoBots, clickVars
<1>6. ShownInOrder'
  <2>1. CutsAgree'
    <3>1. ASSUME NEW x \in Streams
          PROVE  due'[x] = Line(shown'[x] \o lost'[x], events'[x], hand'[x], inbox'[x])
      <4>1. due'[x] = Line(shown[x] \o lost[x], events[x], hand[x], inbox[x])
        BY DEF StreamInv, ShownInOrder, Line
      <4> QED
        BY <1>2, <4>1, Zenon
    <3> QED
      BY <3>1 DEF CutsAgree
  <2>2. \A x \in Streams : lost'[x] # <<>> => Len(lost'[x]) = 1 /\ phase'[x] = "over"
    BY <1>2 DEF StreamInv, ShownInOrder, PhasesAdvance, MayHaveLost
  <2> QED
    BY <2>1, <2>2 DEF ShownInOrder, CutsAgree, Line
<1> QED
  BY <1>4, <1>5, <1>6 DEF StreamInv

LEMMA PublishInv ==
    ASSUME StreamInv, NEW c \in Redirects, Publish(c)
    PROVE  StreamInv'
<1>1. PICK lose \in SUBSET Listening(c) :
         LET got == Listening(c) \ lose IN
         /\ inbox' = [s \in Streams |-> IF s \in got THEN Append(inbox[s], c) ELSE inbox[s]]
         /\ due' = [s \in Streams |-> IF s \in got THEN Append(due[s], c) ELSE due[s]]
  BY DEF Publish
<1> DEFINE got == Listening(c) \ lose
<1>2. /\ c \in Humans /\ sending' \subseteq Humans
      /\ UNCHANGED <<unseen, phase, decoder, hand, events, shown, lost>>
  BY DEF Publish, StreamInv, NoBots
<1>3. ASSUME NEW s \in Streams
      PROVE  /\ inbox[s] \in Seq(Humans) /\ Append(inbox[s], c) \in Seq(Humans)
             /\ due[s] \in Seq(Redirects) /\ Append(due[s], c) \in Seq(Redirects)
  BY <1>2, AppendProperties DEF StreamInv, StreamTypeOK, NoBots
<1> HIDE DEF got
<1>4. /\ inbox' = [s \in Streams |-> IF s \in got THEN Append(inbox[s], c) ELSE inbox[s]]
      /\ due' = [s \in Streams |-> IF s \in got THEN Append(due[s], c) ELSE due[s]]
  BY <1>1 DEF got
<1>5. inbox' \in [Streams -> Seq(Humans)] /\ due' \in [Streams -> Seq(Redirects)]
  BY <1>3, <1>4
<1>6. inbox' \in [Streams -> Seq(Redirects)]
  BY <1>5, SeqTypes
<1>7. StreamTypeOK'
  BY <1>2, <1>5, <1>6 DEF StreamInv, StreamTypeOK, Humans
<1>8. NoBots'
  BY <1>2, <1>5 DEF StreamInv, NoBots
<1>9. ShownInOrder'
  <2> DEFINE taken(s) == shown[s] \o lost[s]
  <2>1. ASSUME NEW s \in Streams
        PROVE  due'[s] = Line(taken(s), events[s], hand[s], inbox'[s])
    <3>0. taken(s) \in Seq(Redirects)
      BY ConcatProperties DEF StreamInv, StreamTypeOK
    <3>1. /\ taken(s) \in Seq(Redirects) /\ events[s] \in Seq(Redirects) /\ hand[s] \in Seq(Redirects)
          /\ inbox[s] \in Seq(Redirects)
          /\ due[s] = Line(taken(s), events[s], hand[s], inbox[s])
      BY <3>0 DEF StreamInv, StreamTypeOK, ShownInOrder, Line
    <3> HIDE DEF taken
    <3>2. CASE s \in got
      <4>1. due'[s] = Append(due[s], c) /\ inbox'[s] = Append(inbox[s], c)
        BY <1>4, <3>2
      <4>2. Append(due[s], c) = due[s] \o <<c>>
        BY <1>3, AppendIsConcat, Zenon
      <4>3. Append(inbox[s], c) = inbox[s] \o <<c>>
        BY <3>1, AppendIsConcat, Zenon
      <4>4. <<c>> \in Seq(Redirects)
        OBVIOUS
      <4>5. due'[s] = due[s] \o <<c>> /\ inbox'[s] = inbox[s] \o <<c>>
        BY <4>1, <4>2, <4>3, Zenon
      <4>6. due[s] \o <<c>> = Line(taken(s), events[s], hand[s], inbox'[s])
        <5> DEFINE front == (taken(s) \o events[s]) \o hand[s]
        <5>1. taken(s) \o events[s] \in Seq(Redirects)
          BY <3>1, Joining, Zenon
        <5>2. front \in Seq(Redirects)
          BY <3>1, <5>1, Joining, Zenon
        <5>3. due[s] = front \o inbox[s] /\ Line(taken(s), events[s], hand[s], inbox'[s]) = front \o inbox'[s]
          BY <3>1, Zenon DEF Line
        <5> HIDE DEF front
        <5>4. (front \o inbox[s]) \o <<c>> = front \o (inbox[s] \o <<c>>)
          <6> DEFINE i == inbox[s]
                     last == <<c>>
          <6>1. i \in Seq(Redirects) /\ last \in Seq(Redirects)
            BY <3>1, <4>4
          <6> HIDE DEF i, last
          <6>2. (front \o i) \o last = front \o (i \o last)
            BY <5>2, <6>1, ConcatAssociative
          <6> QED
            BY <6>2 DEF i, last
        <5> QED
          BY <4>5, <5>3, <5>4, Zenon
      <4> QED
        BY <4>5, <4>6, Zenon
    <3>3. CASE s \notin got
      BY <1>4, <3>1, <3>3
    <3> QED
      BY <3>2, <3>3
  <2>2. \A s \in Streams : lost'[s] # <<>> => Len(lost'[s]) = 1 /\ phase'[s] = "over"
    BY <1>2 DEF StreamInv, ShownInOrder
  <2> QED
    BY <1>2, <2>1, <2>2 DEF ShownInOrder, Line
<1> QED
  BY <1>7, <1>8, <1>9 DEF StreamInv

LEMMA StreamSeqs ==
    ASSUME StreamInv, NEW s \in Streams
    PROVE  /\ inbox[s] \in Seq(Humans) /\ hand[s] \in Seq(Humans) /\ events[s] \in Seq(Humans)
           /\ inbox[s] \in Seq(Redirects) /\ hand[s] \in Seq(Redirects) /\ events[s] \in Seq(Redirects)
           /\ shown[s] \in Seq(Redirects) /\ lost[s] \in Seq(Redirects)
           /\ shown[s] \o lost[s] \in Seq(Redirects)
           /\ lost[s] # <<>> => Len(lost[s]) = 1 /\ phase[s] = "over"
           /\ Len(events[s]) <= Buffer /\ Len(hand[s]) <= 1
           /\ inbox = [inbox EXCEPT ![s] = inbox[s]] /\ hand = [hand EXCEPT ![s] = hand[s]]
           /\ events = [events EXCEPT ![s] = events[s]] /\ shown = [shown EXCEPT ![s] = shown[s]]
           /\ lost = [lost EXCEPT ![s] = lost[s]]
<1>1. /\ inbox[s] \in Seq(Humans) /\ hand[s] \in Seq(Humans) /\ events[s] \in Seq(Humans)
      /\ inbox[s] \in Seq(Redirects) /\ hand[s] \in Seq(Redirects) /\ events[s] \in Seq(Redirects)
      /\ shown[s] \in Seq(Redirects) /\ lost[s] \in Seq(Redirects)
      /\ lost[s] # <<>> => Len(lost[s]) = 1 /\ phase[s] = "over"
      /\ Len(events[s]) <= Buffer /\ Len(hand[s]) <= 1
  BY DEF StreamInv, StreamTypeOK, NoBots, ShownInOrder
<1>2. /\ inbox = [inbox EXCEPT ![s] = inbox[s]] /\ hand = [hand EXCEPT ![s] = hand[s]]
      /\ events = [events EXCEPT ![s] = events[s]] /\ shown = [shown EXCEPT ![s] = shown[s]]
      /\ lost = [lost EXCEPT ![s] = lost[s]]
  BY DEF StreamInv, StreamTypeOK
<1>3. shown[s] \o lost[s] \in Seq(Redirects)
  BY <1>1, ConcatProperties
<1> QED
  BY <1>1, <1>2, <1>3

LEMMA DecodeInv ==
    ASSUME StreamInv, NEW s \in Streams, Decode(s)
    PROVE  StreamInv'
<1>1. hand[s] = <<>> /\ UNCHANGED <<clickVars, phase, events, shown, lost, due>>
  BY DEF Decode
<1>2. CASE /\ inbox[s] # <<>> /\ hand' = [hand EXCEPT ![s] = <<Head(inbox[s])>>]
           /\ inbox' = [inbox EXCEPT ![s] = Tail(inbox[s])] /\ UNCHANGED decoder
  <2>1. /\ Head(inbox[s]) \in Humans /\ Tail(inbox[s]) \in Seq(Humans)
    BY <1>2, StreamSeqs, HeadAndTail
  <2>2. <<Head(inbox[s])>> \in Seq(Humans) /\ Len(<<Head(inbox[s])>>) <= 1
    BY <2>1
  <2>3. Line(shown[s] \o lost[s], events[s], hand[s], inbox[s])
          = Line(shown[s] \o lost[s], events[s], <<Head(inbox[s])>>, Tail(inbox[s]))
    <3>1. shown[s] \o lost[s] \in Seq(Redirects) /\ events[s] \in Seq(Redirects) /\ inbox[s] \in Seq(Redirects)
      BY StreamSeqs
    <3>2. Line(shown[s] \o lost[s], events[s], <<>>, inbox[s])
            = Line(shown[s] \o lost[s], events[s], <<Head(inbox[s])>>, Tail(inbox[s]))
      BY <1>2, <3>1, HandTakes
    <3> QED
      BY <1>1, <3>2
  <2>4. /\ events[s] \in Seq(Humans) /\ shown[s] \in Seq(Redirects) /\ Len(events[s]) <= Buffer
        /\ events' = [events EXCEPT ![s] = events[s]] /\ shown' = [shown EXCEPT ![s] = shown[s]]
    BY <1>1, StreamSeqs
  <2>5. /\ lost[s] \in Seq(Redirects) /\ lost' = [lost EXCEPT ![s] = lost[s]]
        /\ PhasesAdvance /\ MayHaveLost(lost[s], phase'[s])
    BY <1>1, StreamSeqs DEF StreamInv, StreamTypeOK, PhasesAdvance, MayHaveLost
  <2> QED
    BY <1>1, <1>2, <2>1, <2>2, <2>3, <2>4, <2>5, OneStreamMoves
<1>3. CASE decoder' = [decoder EXCEPT ![s] = "done"] /\ UNCHANGED <<hand, inbox>>
  <2>1. /\ decoder' \in [Streams -> {"none", "running", "done"}] /\ UNCHANGED clickVars
        /\ phase' \in [Streams -> {"new", "subscribed", "running", "over"}]
        /\ unseen' \subseteq Redirects /\ sending' \subseteq Humans
    BY <1>1, <1>3 DEF StreamInv, StreamTypeOK, NoBots, clickVars
  <2> QED
    BY <1>1, <1>3, <2>1, SequencesStay
<1> QED
  BY <1>2, <1>3 DEF Decode

LEMMA PushInv ==
    ASSUME StreamInv, NEW s \in Streams, Push(s)
    PROVE  StreamInv'
<1>1. /\ hand[s] # <<>> /\ Len(events[s]) < Buffer
      /\ events' = [events EXCEPT ![s] = events[s] \o hand[s]]
      /\ hand' = [hand EXCEPT ![s] = <<>>]
      /\ UNCHANGED <<clickVars, phase, decoder, inbox, shown, lost, due>>
  BY DEF Push, Room
<1>2. events[s] \o hand[s] \in Seq(Humans) /\ Len(events[s] \o hand[s]) <= Buffer
  <2>1. /\ events[s] \o hand[s] \in Seq(Humans)
        /\ Len(events[s] \o hand[s]) = Len(events[s]) + Len(hand[s])
    BY StreamSeqs, ConcatProperties
  <2>2. Len(hand[s]) <= 1 /\ Len(hand[s]) \in Nat /\ Len(events[s]) \in Nat
    BY StreamSeqs, LenProperties
  <2>3. Len(events[s]) < Buffer /\ Buffer \in Nat
    BY <1>1
  <2> DEFINE m == Len(events[s])
             n == Len(hand[s])
  <2>4. m + n <= Buffer
    <3>1. m \in Nat /\ n \in Nat /\ n <= 1 /\ m < Buffer /\ Buffer \in Nat
      BY <2>2, <2>3
    <3> HIDE DEF m, n
    <3> QED
      BY <3>1
  <2> QED
    BY <2>1, <2>4, Zenon
<1>3. Line(shown[s] \o lost[s], events[s], hand[s], inbox[s])
        = Line(shown[s] \o lost[s], events[s] \o hand[s], <<>>, inbox[s])
  <2> DEFINE taken == shown[s] \o lost[s]
  <2>1. /\ taken \in Seq(Redirects) /\ events[s] \in Seq(Redirects)
        /\ hand[s] \in Seq(Redirects) /\ inbox[s] \in Seq(Redirects)
    BY StreamSeqs
  <2> HIDE DEF taken
  <2>2. Line(taken, events[s], hand[s], inbox[s]) = Line(taken, events[s] \o hand[s], <<>>, inbox[s])
    BY <2>1, ChannelTakes
  <2> QED
    BY <2>2 DEF taken
<1>4. <<>> \in Seq(Humans) /\ Len(<<>>) <= 1
  OBVIOUS
<1>5. /\ inbox[s] \in Seq(Humans) /\ shown[s] \in Seq(Redirects)
      /\ inbox' = [inbox EXCEPT ![s] = inbox[s]] /\ shown' = [shown EXCEPT ![s] = shown[s]]
  BY <1>1, StreamSeqs
<1>6. /\ lost[s] \in Seq(Redirects) /\ lost' = [lost EXCEPT ![s] = lost[s]]
      /\ PhasesAdvance /\ MayHaveLost(lost[s], phase'[s])
  BY <1>1, StreamSeqs DEF StreamInv, StreamTypeOK, PhasesAdvance, MayHaveLost
<1> QED
  BY <1>1, <1>2, <1>3, <1>4, <1>5, <1>6, OneStreamMoves

\* What Deliver and WriteFails have in common: the handler takes a click.
LEMMA HandlerTakes ==
    ASSUME StreamInv, NEW s \in Streams, events[s] # <<>>, phase[s] = "running"
    PROVE  /\ Tail(events[s]) \in Seq(Humans) /\ Len(Tail(events[s])) <= Buffer
           /\ Written(s) \in Seq(Redirects) /\ Len(Written(s)) = 1
           /\ shown[s] \in Seq(Redirects) /\ shown[s] \o Written(s) \in Seq(Redirects)
           /\ lost[s] = <<>>
           /\ Line(shown[s] \o lost[s], events[s], hand[s], inbox[s])
                = Line(shown[s] \o Written(s), Tail(events[s]), hand[s], inbox[s])
<1>1. /\ Head(events[s]) \in Humans /\ Tail(events[s]) \in Seq(Humans)
      /\ Len(Tail(events[s])) = Len(events[s]) - 1
  BY StreamSeqs, HeadAndTail
<1>2. Written(s) = <<Head(events[s])>> /\ Written(s) \in Seq(Redirects) /\ Len(Written(s)) = 1
  BY <1>1 DEF Written, Humans
<1>3. shown[s] \in Seq(Redirects) /\ shown[s] \o Written(s) \in Seq(Redirects)
  BY <1>2, StreamSeqs, ConcatProperties
<1>4. Len(Tail(events[s])) <= Buffer
  <2>1. Len(events[s]) \in Nat /\ Len(events[s]) <= Buffer
    BY StreamSeqs, LenProperties
  <2> QED
    BY <1>1, <2>1
<1>5. lost[s] = <<>>
  BY StreamSeqs
<1>6. shown[s] \o lost[s] = shown[s]
  BY <1>3, <1>5, ConcatEmptySeq
<1>7. Line(shown[s], events[s], hand[s], inbox[s])
        = Line(shown[s] \o Written(s), Tail(events[s]), hand[s], inbox[s])
  <2>1. shown[s] \in Seq(Redirects) /\ events[s] \in Seq(Redirects)
    BY StreamSeqs
  <2> QED
    BY <1>2, <2>1, ClientTakes
<1> QED
  BY <1>1, <1>2, <1>3, <1>4, <1>5, <1>6, <1>7, Zenon

LEMMA DeliverInv ==
    ASSUME StreamInv, NEW s \in Streams, Deliver(s)
    PROVE  StreamInv'
<1>1. /\ events[s] # <<>> /\ phase[s] = "running"
      /\ shown' = [shown EXCEPT ![s] = shown[s] \o Written(s)]
      /\ events' = [events EXCEPT ![s] = Tail(events[s])]
      /\ UNCHANGED <<clickVars, phase, decoder, inbox, hand, lost, due>>
  BY DEF Deliver
<1> DEFINE o == shown[s] \o Written(s)
           e == Tail(events[s])
<1>2. /\ e \in Seq(Humans) /\ Len(e) <= Buffer /\ o \in Seq(Redirects) /\ lost[s] = <<>>
      /\ Line(shown[s] \o lost[s], events[s], hand[s], inbox[s]) = Line(o, e, hand[s], inbox[s])
  BY <1>1, HandlerTakes
<1>3. shown' = [shown EXCEPT ![s] = o] /\ events' = [events EXCEPT ![s] = e]
  BY <1>1
<1> HIDE DEF o, e
<1>4. o \o <<>> = o /\ <<>> \in Seq(Redirects)
  BY <1>2, ConcatEmptySeq
<1>5. Line(shown[s] \o lost[s], events[s], hand[s], inbox[s]) = Line(o \o <<>>, e, hand[s], inbox[s])
  BY <1>2, <1>4, Zenon
<1>6. /\ inbox[s] \in Seq(Humans) /\ hand[s] \in Seq(Humans) /\ Len(hand[s]) <= 1
      /\ inbox' = [inbox EXCEPT ![s] = inbox[s]] /\ hand' = [hand EXCEPT ![s] = hand[s]]
  BY <1>1, StreamSeqs
<1>7. /\ lost' = [lost EXCEPT ![s] = <<>>]
      /\ PhasesAdvance /\ MayHaveLost(<<>>, phase'[s])
  BY <1>1, <1>2, StreamSeqs DEF StreamInv, StreamTypeOK, PhasesAdvance, MayHaveLost
<1> QED
  BY <1>1, <1>2, <1>3, <1>4, <1>5, <1>6, <1>7, OneStreamMoves

LEMMA WriteFailsInv ==
    ASSUME StreamInv, NEW s \in Streams, WriteFails(s)
    PROVE  StreamInv'
<1>1. /\ events[s] # <<>> /\ phase[s] = "running"
      /\ lost' = [lost EXCEPT ![s] = Written(s)]
      /\ events' = [events EXCEPT ![s] = Tail(events[s])]
      /\ phase' = [phase EXCEPT ![s] = "over"]
      /\ UNCHANGED <<clickVars, decoder, inbox, hand, shown, due>>
  BY DEF WriteFails
<1> DEFINE l == Written(s)
           e == Tail(events[s])
<1>2. /\ e \in Seq(Humans) /\ Len(e) <= Buffer /\ l \in Seq(Redirects) /\ Len(l) = 1
      /\ shown[s] \in Seq(Redirects)
      /\ Line(shown[s] \o lost[s], events[s], hand[s], inbox[s])
           = Line(shown[s] \o l, e, hand[s], inbox[s])
  BY <1>1, HandlerTakes
<1>3. lost' = [lost EXCEPT ![s] = l] /\ events' = [events EXCEPT ![s] = e]
  BY <1>1
<1> HIDE DEF l, e
<1>4. /\ inbox[s] \in Seq(Humans) /\ hand[s] \in Seq(Humans) /\ Len(hand[s]) <= 1
      /\ inbox' = [inbox EXCEPT ![s] = inbox[s]] /\ hand' = [hand EXCEPT ![s] = hand[s]]
      /\ shown' = [shown EXCEPT ![s] = shown[s]]
  BY <1>1, StreamSeqs
<1>5. PhasesAdvance /\ MayHaveLost(l, phase'[s])
  BY <1>1, <1>2 DEF StreamInv, StreamTypeOK, PhasesAdvance, MayHaveLost
<1> QED
  BY <1>1, <1>2, <1>3, <1>4, <1>5, OneStreamMoves

\* Redirects that are recorded or lost, and handlers that come and go.
LEMMA OtherStreamInv ==
    ASSUME StreamInv,
           \/ \E c \in Redirects : Record(c) \/ PublishError(c)
           \/ \E s \in Streams : Subscribe(s) \/ Connect(s) \/ End(s)
    PROVE  StreamInv'
<1>1. UNCHANGED <<inbox, hand, events, shown, lost, due>>
  BY DEF Record, PublishError, Subscribe, Connect, End
<1>2. unseen' \subseteq Redirects /\ sending' \subseteq Humans
  BY DEF Record, PublishError, Subscribe, Connect, End, StreamInv, StreamTypeOK, NoBots, Humans, clickVars
<1>3. /\ phase' \in [Streams -> {"new", "subscribed", "running", "over"}]
      /\ decoder' \in [Streams -> {"none", "running", "done"}]
  BY DEF Record, PublishError, Subscribe, Connect, End, StreamInv, StreamTypeOK
<1>4. \A s \in Streams : phase[s] = "over" => phase'[s] = "over"
  BY DEF Record, PublishError, Subscribe, Connect, End, StreamInv, StreamTypeOK
<1> QED
  BY <1>1, <1>2, <1>3, <1>4, SequencesStay

-----------------------------------------------------------------------------
(* The theorems                                                            *)

LEMMA InitStream == StreamInit => StreamInv
<1> SUFFICES ASSUME StreamInit
             PROVE  StreamInv
  OBVIOUS
<1>1. <<>> \in Seq(Humans) /\ <<>> \in Seq(Redirects) /\ Len(<<>>) = 0
  OBVIOUS
<1>2. StreamTypeOK
  BY <1>1 DEF StreamInit, StreamTypeOK
<1>3. NoBots
  BY <1>1 DEF StreamInit, NoBots
<1>4. <<>> \o <<>> = <<>>
  BY <1>1, ConcatEmptySeq
<1>5. ShownInOrder
  BY <1>4 DEF StreamInit, ShownInOrder
<1> QED
  BY <1>2, <1>3, <1>5 DEF StreamInv

LEMMA NextStream == StreamInv /\ [StreamNext]_streamVars => StreamInv'
<1> SUFFICES ASSUME StreamInv, [StreamNext]_streamVars
             PROVE  StreamInv'
  OBVIOUS
<1>1. CASE UNCHANGED streamVars
  BY <1>1 DEF streamVars, clickVars, StreamInv, StreamTypeOK, NoBots, ShownInOrder
<1> QED
  BY <1>1, PublishInv, DecodeInv, PushInv, DeliverInv, WriteFailsInv, OtherStreamInv DEF StreamNext

\* The invariant that the others follow from.
THEOREM StreamInductive == StreamSpec => []StreamInv
BY InitStream, NextStream, PTL DEF StreamSpec

\* Every variable has its kind of values, and the events channel its capacity.
THEOREM StreamTypeCorrect == StreamSpec => []StreamTypeOK
<1>1. StreamInv => StreamTypeOK
  BY DEF StreamInv
<1> QED
  BY <1>1, StreamInductive, PTL

\* A client is sent what its subscription received, each click once and in order;
\* what it has not been sent is on its way, but for the one click whose failed
\* write ended the stream, for any number of streams and clicks (Events, stream).
THEOREM OrderCorrect == StreamSpec => []ShownInOrder
<1>1. StreamInv => ShownInOrder
  BY DEF StreamInv
<1> QED
  BY <1>1, StreamInductive, PTL

=============================================================================
