------------------------- MODULE AnalyticsIngestion -------------------------
(***************************************************************************)
(* The redirector's analytics pipeline: redirect handlers capture events   *)
(* into a bounded channel, a drainer goroutine batches and writes them and *)
(* adds the click counts, and graceful shutdown stops the drainer and      *)
(* flushes what is left (application/analytics/ingestion_service.go,       *)
(* postgres/analytics_repository.go, cmd/redirector/main.go).              *)
(*                                                                         *)
(* No property depends on the order of events, so the channel is a set.    *)
(***************************************************************************)
EXTENDS Naturals, FiniteSets

CONSTANTS Events,      \* redirects that will be captured
          Codes,       \* short codes
          Capacity,    \* maxChannelSize
          BatchSize,   \* defaultBatchSize
          MaxFaults,   \* bound: failed database statements
          MayTimeOut   \* the shutdown context may expire

ASSUME IngestionConstants ==
    /\ Capacity \in Nat \ {0} /\ BatchSize \in Nat \ {0}
    /\ MaxFaults \in Nat /\ MayTimeOut \in BOOLEAN
    /\ IsFiniteSet(Events)

VARIABLES
    channel,   \* events in the channel
    batch,     \* the drainer's batch
    dpc,       \* the drainer: "select", "flush", "last" (flush, then exit), "exited"
    rest,      \* what Shutdown has taken out of the channel
    spc,       \* main: "up", "stopped", "waiting", "draining", "flush", "closing", "exit"
    fpc,       \* each flush under way: "idle", "write" or "count"
    fcodes,    \* short codes whose count it has not updated yet
    dropped,   \* droppedEvents
    written,   \* writtenEvents
    stored,    \* rows of redirect_events
    clicks,    \* urls.click_count
    gone,      \* codes whose url is soft-deleted
    faults,    \* database failures so far
    \* History, read by the properties only:
    seen,      \* events captured so far, with what they are about
    settled,   \* events counted as dropped or written
    hurried    \* some wait of the shutdown ended by timeout

chanVars  == <<channel, seen>>
drainVars == <<batch, dpc>>
stopVars  == <<rest, spc, hurried>>
flushVars == <<fpc, fcodes>>
sumVars   == <<dropped, written, settled>>
dbVars    == <<stored, clicks, gone, faults>>
vars == <<chanVars, drainVars, stopVars, flushVars, sumVars, dbVars>>

\* The two goroutines that call flush.
Flushers == {"drainer", "shutdown"}

\* The batch a flush is about.
BatchOf(f) == IF f = "drainer" THEN batch ELSE rest

About == [code: Codes, bot: BOOLEAN]
Seen == {s.event : s \in seen}
AboutOf(e) == (CHOOSE s \in seen : s.event = e).about

-----------------------------------------------------------------------------
(* Capture                                                                 *)

\* The HTTP server stops taking redirects when it shuts down; handlers it
\* could not wait for still finish.
Serving == spc = "up" \/ (hurried /\ spc # "exit")

\* Mutant: one event more than the channel holds.
HasRoomOffByOne == Cardinality(channel) <= Capacity

\* Is the channel send possible without blocking?
HasRoom == Cardinality(channel) < Capacity

\* Capture; the click it publishes for the live stream is not part of this.
Capture(e, a) ==
    /\ Serving
    /\ e \notin Seen
    /\ seen' = seen \cup {[event |-> e, about |-> a]}
    /\ IF HasRoom
         THEN /\ channel' = channel \cup {e}
              /\ UNCHANGED sumVars
         ELSE /\ dropped' = dropped + 1
              /\ settled' = settled \cup {e}
              /\ UNCHANGED <<channel, written>>
    /\ UNCHANGED <<drainVars, stopVars, flushVars, dbVars>>

-----------------------------------------------------------------------------
(* flush, called by the drainer and by Shutdown                            *)

StartFlush(f) == fpc' = [fpc EXCEPT ![f] = "write"] /\ UNCHANGED fcodes

\* flush returns to its caller.
EndFlush(f) ==
    /\ fpc' = [fpc EXCEPT ![f] = "idle"]
    /\ fcodes' = [fcodes EXCEPT ![f] = {}]
    /\ IF f = "drainer"
         THEN /\ batch' = {}
              /\ dpc' = IF dpc = "last" THEN "exited" ELSE "select"
              /\ UNCHANGED stopVars
         ELSE /\ rest' = {} /\ spc' = "closing"
              /\ UNCHANGED <<drainVars, hurried>>

\* A statement fails, within the bound.
Fault == faults < MaxFaults /\ faults' = faults + 1

\* The codes flush will count: those with an event that is not a bot's.
Counted(S) == {AboutOf(e).code : e \in {x \in S : ~AboutOf(x).bot}}

\* WriteMany succeeds.
Write(f) ==
    /\ fpc[f] = "write"
    /\ stored' = stored \cup BatchOf(f)
    /\ written' = written + Cardinality(BatchOf(f))
    /\ settled' = settled \cup BatchOf(f)
    /\ IF Counted(BatchOf(f)) = {}
         THEN EndFlush(f)
         ELSE /\ fpc' = [fpc EXCEPT ![f] = "count"]
              /\ fcodes' = [fcodes EXCEPT ![f] = Counted(BatchOf(f))]
              /\ UNCHANGED <<drainVars, stopVars>>
    /\ UNCHANGED <<chanVars, dropped, clicks, gone, faults>>

\* Mutant: the failed batch is not added to droppedEvents.
DropUncounted(S) == UNCHANGED sumVars

Drop(S) ==
    /\ dropped' = dropped + Cardinality(S)
    /\ settled' = settled \cup S
    /\ UNCHANGED written

\* WriteMany fails (its rows may have been committed all the same).
WriteError(f) ==
    /\ fpc[f] = "write" /\ Fault
    /\ \/ stored' = stored \cup BatchOf(f)
       \/ UNCHANGED stored
    /\ Drop(BatchOf(f))
    /\ EndFlush(f)
    /\ UNCHANGED <<chanVars, clicks, gone>>

Clicks(f, c) ==
    Cardinality({e \in BatchOf(f) : AboutOf(e).code = c /\ ~AboutOf(e).bot})

\* UPDATE urls SET click_count = click_count + n .. AND deleted_at IS NULL
AddClicks(f, c) ==
    clicks' = IF c \in gone THEN clicks ELSE [clicks EXCEPT ![c] = @ + Clicks(f, c)]

\* IncrementClickCounts: one UPDATE per code, in map order.
Count(f, c) ==
    /\ fpc[f] = "count" /\ c \in fcodes[f]
    /\ AddClicks(f, c)
    /\ IF fcodes[f] = {c}
         THEN EndFlush(f)
         ELSE /\ fcodes' = [fcodes EXCEPT ![f] = @ \ {c}]
              /\ UNCHANGED <<fpc, drainVars, stopVars>>
    /\ UNCHANGED <<chanVars, sumVars, stored, gone, faults>>

\* The first UPDATE that fails ends the loop; flush only logs it.
CountError(f, c) ==
    /\ fpc[f] = "count" /\ c \in fcodes[f] /\ Fault
    /\ AddClicks(f, c) \/ UNCHANGED clicks
    /\ EndFlush(f)
    /\ UNCHANGED <<chanVars, sumVars, stored, gone>>

-----------------------------------------------------------------------------
(* runDrainer                                                              *)

DrainerReceive(e) ==
    /\ dpc = "select" /\ e \in channel
    /\ channel' = channel \ {e}
    /\ batch' = batch \cup {e}
    /\ IF Cardinality(batch) + 1 >= BatchSize
         THEN dpc' = "flush" /\ StartFlush("drainer")
         ELSE UNCHANGED <<dpc, flushVars>>
    /\ UNCHANGED <<seen, stopVars, sumVars, dbVars>>

\* Mutant: only full batches are written.
TickerOnlyFull == Cardinality(batch) >= BatchSize

\* The ticker finds something to flush.
TickerFlushes == batch # {}

DrainerTick ==
    /\ dpc = "select" /\ TickerFlushes
    /\ dpc' = "flush" /\ StartFlush("drainer")
    /\ UNCHANGED <<chanVars, batch, stopVars, sumVars, dbVars>>

Cancelled == spc \notin {"up", "stopped"}

DrainerDone ==
    /\ dpc = "select" /\ Cancelled
    /\ IF batch = {} THEN dpc' = "exited" /\ UNCHANGED flushVars
                     ELSE dpc' = "last" /\ StartFlush("drainer")
    /\ UNCHANGED <<chanVars, batch, stopVars, sumVars, dbVars>>

-----------------------------------------------------------------------------
(* main's shutdown                                                         *)

\* srv.Shutdown returns, possibly with handlers still running.
StopServer ==
    /\ spc = "up" /\ spc' = "stopped"
    /\ hurried' \in {FALSE, MayTimeOut}
    /\ UNCHANGED <<chanVars, drainVars, rest, flushVars, sumVars, dbVars>>

\* analyticsCancel, and Shutdown begins.
CancelDrainer ==
    /\ spc = "stopped" /\ spc' = "waiting"
    /\ UNCHANGED <<chanVars, drainVars, rest, hurried, flushVars, sumVars, dbVars>>

\* Mutant: Shutdown does not wait for the drainer.
NotWaiting == TRUE

\* <-s.drainerDone
DrainerStopped == dpc = "exited"

AwaitDrainer ==
    /\ spc = "waiting" /\ DrainerStopped
    /\ spc' = "draining"
    /\ UNCHANGED <<chanVars, drainVars, rest, hurried, flushVars, sumVars, dbVars>>

\* ctx.Done first: whatever is buffered is given up.
AwaitTimeout ==
    /\ spc = "waiting" /\ MayTimeOut
    /\ spc' = "closing" /\ hurried' = TRUE
    /\ UNCHANGED <<chanVars, drainVars, rest, flushVars, sumVars, dbVars>>

ShutdownDrain(e) ==
    /\ spc = "draining" /\ e \in channel
    /\ channel' = channel \ {e}
    /\ rest' = rest \cup {e}
    /\ UNCHANGED <<seen, drainVars, spc, hurried, flushVars, sumVars, dbVars>>

ShutdownFlush ==
    /\ spc = "draining" /\ channel = {}
    /\ IF rest = {} THEN spc' = "closing" /\ UNCHANGED flushVars
                    ELSE spc' = "flush" /\ StartFlush("shutdown")
    /\ UNCHANGED <<chanVars, drainVars, rest, hurried, sumVars, dbVars>>

\* The database is closed and main returns: every goroutine ends where it is.
Exit ==
    /\ spc = "closing" /\ spc' = "exit"
    /\ UNCHANGED <<chanVars, drainVars, rest, hurried, flushVars, sumVars, dbVars>>

\* The API deletes the url of code c meanwhile.
DeleteUrl(c) ==
    /\ c \notin gone
    /\ gone' = gone \cup {c}
    /\ UNCHANGED <<chanVars, drainVars, stopVars, flushVars, sumVars, stored,
                   clicks, faults>>

-----------------------------------------------------------------------------
Init ==
    /\ channel = {} /\ seen = {}
    /\ batch = {} /\ dpc = "select"
    /\ rest = {} /\ spc = "up" /\ hurried = FALSE
    /\ fpc = [f \in Flushers |-> "idle"]
    /\ fcodes = [f \in Flushers |-> {}]
    /\ dropped = 0 /\ written = 0 /\ settled = {}
    /\ stored = {} /\ clicks = [c \in Codes |-> 0] /\ gone = {} /\ faults = 0

\* The process has not ended.
Running == spc # "exit"

FlushStep(f) ==
    /\ Running
    /\ \/ Write(f) \/ WriteError(f)
       \/ \E c \in Codes : Count(f, c) \/ CountError(f, c)

DrainerStep ==
    /\ Running
    /\ \/ DrainerTick \/ DrainerDone
       \/ \E e \in Events : DrainerReceive(e)

ShutdownStep ==
    \/ CancelDrainer \/ AwaitDrainer \/ AwaitTimeout
    \/ ShutdownFlush \/ Exit
    \/ \E e \in Events : ShutdownDrain(e)

Next ==
    \/ \E e \in Events, a \in About : Capture(e, a)
    \/ \E f \in Flushers : FlushStep(f)
    \/ DrainerStep
    \/ StopServer \/ ShutdownStep
    \/ \E c \in Codes : DeleteUrl(c)

Spec == Init /\ [][Next]_vars

\* The goroutines run and the ticker ticks; nothing makes redirects arrive or
\* the operator stop the pod.
Fairness ==
    /\ \A f \in Flushers : WF_vars(FlushStep(f))
    /\ WF_vars(DrainerStep)
    /\ WF_vars(ShutdownStep)

FairSpec == Spec /\ Fairness

-----------------------------------------------------------------------------
(* Properties                                                              *)

\* Kinds of values; the channel never holds more than its capacity, and a
\* batch never more than its size.
TypeOK ==
    /\ channel \subseteq Events /\ Cardinality(channel) <= Capacity
    /\ seen \subseteq [event: Events, about: About]
    /\ batch \subseteq Events /\ Cardinality(batch) <= BatchSize
    /\ dpc \in {"select", "flush", "last", "exited"}
    /\ rest \subseteq Events
    /\ spc \in {"up", "stopped", "waiting", "draining", "flush", "closing", "exit"}
    /\ hurried \in BOOLEAN
    /\ fpc \in [Flushers -> {"idle", "write", "count"}]
    /\ fcodes \in [Flushers -> SUBSET Codes]
    /\ dropped \in Nat /\ written \in Nat /\ settled \subseteq Events
    /\ stored \subseteq Events /\ clicks \in [Codes -> Nat]
    /\ gone \subseteq Codes /\ faults \in 0 .. MaxFaults

\* Events of a batch whose outcome is not known yet.
Open(f) == IF fpc[f] = "count" THEN {} ELSE BatchOf(f)

\* Every captured event is counted once: it is waiting in the channel, in the
\* batch of the drainer or of Shutdown, or the two counters have it.  No event
\* is lost between two of these places, or counted twice.
Accounted ==
    Cardinality(Seen) = dropped + written + Cardinality(channel)
                          + Cardinality(Open("drainer")) + Cardinality(Open("shutdown"))

\* click_count never exceeds the redirects stored for the code, bots excluded,
\* whichever statements failed half way (flush, IncrementClickCounts).
ClicksBacked ==
    \A c \in Codes :
        clicks[c] <= Cardinality({e \in stored : AboutOf(e).code = c /\ ~AboutOf(e).bot})

\* The counters of events and of clicks both add up at every moment.
CountsAreExact == Accounted /\ ClicksBacked

\* A shutdown that ran into no timeout has left no captured event behind:
\* cmd/redirector/main.go's order of steps.
GracefulLosesNothing == spc = "exit" /\ ~hurried => settled = Seen

\* When no more redirects come, every captured event is counted as written or
\* dropped in the end, unless main returned first: the ticker, or the shutdown,
\* takes partial batches (runDrainer, Shutdown).
EventuallyCounted == <>[](settled = Seen \/ spc = "exit")

=============================================================================
