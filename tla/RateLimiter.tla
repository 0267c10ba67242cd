----------------------------- MODULE RateLimiter -----------------------------
(***************************************************************************)
(* One bucket of the Redis token-bucket limiter (redis/ratelimit.go,       *)
(* domain/ratelimit/policy.go, middleware/ratelimit.go).  A request reads  *)
(* its pod's clock and then runs the Lua script, which is atomic but may   *)
(* reach Redis after the script of a request that read the clock later.    *)
(* The pods' clocks agree: the spread of the stamps is delay alone.        *)
(*                                                                         *)
(* Tokens are counted in units of 1/Window, so that a tick of the clock    *)
(* refills Limit units and a request costs Window units, exactly.          *)
(***************************************************************************)
EXTENDS Integers

CONSTANTS Requests,     \* requests of one identity that are under way together
          Limit,        \* Policy.Limit
          Window,       \* Policy.Window, in ticks
          BurstFactor,  \* Policy.BurstFactor
          MaxNow,       \* bound: the clock
          Idle          \* the request has not read the clock

ASSUME LimiterConstants ==
    /\ Limit \in Nat \ {0} /\ Window \in Nat \ {0} /\ BurstFactor \in Nat
    /\ MaxNow \in Nat
    /\ Idle \notin Nat

VARIABLES
    now,     \* the clock
    stamp,   \* nowMS of each request, or Idle
    key,     \* the bucket's key exists
    tokens,  \* its tokens
    last,    \* its last_refill_ms
    dies,    \* when the key expires
    \* History, read by the properties only.  Once the key has expired, last
    \* is history too: the stamp at which refilling fills any bucket.
    mark,    \* the instant from which requests are counted
    passed,  \* requests stamped since then that were allowed
    back     \* the sum of all steps that last_refill_ms took backwards

bucketVars == <<key, tokens, last, dies>>
markVars   == <<mark, passed>>
vars == <<now, stamp, bucketVars, markVars, back>>

Larger(x, y) == IF x >= y THEN x ELSE y
Smaller(x, y) == IF x <= y THEN x ELSE y

-----------------------------------------------------------------------------
(* Policy                                                                  *)

Factor == IF BurstFactor <= 1 THEN 1 ELSE BurstFactor

\* BucketCapacity, in units.
Capacity == Limit * Factor * Window

\* RefillRatePerSecond, for d ticks.
Refill(d) == Limit * d

Cost == Window

\* Mutant: the key lives for one window.
TtlOneWindow == Window

\* ttlMS
Ttl == 2 * Window

-----------------------------------------------------------------------------
(* Check                                                                   *)

\* now := time.Now()
ReadClock(q) ==
    /\ stamp[q] = Idle
    /\ stamp' = [stamp EXCEPT ![q] = now]
    /\ UNCHANGED <<now, bucketVars, markVars, back>>

\* Mutant: tokens pile up beyond the capacity.
RefilledUncapped(s) ==
    IF key THEN tokens + Refill(Larger(0, s - last)) ELSE Capacity

\* The bucket as the script sees it at stamp s: refilled, or new and full.
Refilled(s) ==
    IF key THEN Smaller(Capacity, tokens + Refill(Larger(0, s - last))) ELSE Capacity

Allowed(s) == Refilled(s) >= Cost

\* The script's effect on the bucket; SET .. EX.
Script(s) ==
    /\ key' = TRUE
    /\ tokens' = IF Allowed(s) THEN Refilled(s) - Cost ELSE Refilled(s)
    /\ last' = s
    /\ dies' = now + Ttl
    /\ back' = back + Larger(0, Smaller(last, now) - s)

\* The script runs and the middleware lets the request through or answers 429.
Check(q) ==
    LET s == stamp[q] IN
    /\ s # Idle
    /\ Script(s)
    /\ passed' = IF Allowed(s) /\ s >= mark THEN passed + 1 ELSE passed
    /\ stamp' = [stamp EXCEPT ![q] = Idle]
    /\ UNCHANGED <<now, mark>>

\* Redis does not answer, before or after the script ran: the middleware fails
\* open and the request goes on, unlimited and uncounted.
CheckError(q) ==
    /\ stamp[q] # Idle
    /\ \/ Script(stamp[q])
       \/ UNCHANGED <<bucketVars, back>>
    /\ stamp' = [stamp EXCEPT ![q] = Idle]
    /\ UNCHANGED <<now, markVars>>

\* Redis drops the key.
Expire ==
    /\ key /\ now >= dies
    /\ key' = FALSE
    /\ last' = last + Factor * Window
    /\ UNCHANGED <<now, stamp, tokens, dies, markVars, back>>

Tick ==
    /\ now < MaxNow
    /\ now' = now + 1
    /\ UNCHANGED <<stamp, bucketVars, markVars, back>>

\* An observer starts to count.
Mark ==
    /\ mark' = now /\ passed' = 0 /\ back' = 0
    /\ UNCHANGED <<now, stamp, bucketVars>>

Init ==
    /\ now = 0 /\ stamp = [q \in Requests |-> Idle]
    /\ key = FALSE /\ tokens = 0 /\ last = 0 /\ dies = 0
    /\ mark = 0 /\ passed = 0 /\ back = 0

Next ==
    \/ \E q \in Requests : ReadClock(q) \/ Check(q) \/ CheckError(q)
    \/ Expire \/ Tick \/ Mark

Spec == Init /\ [][Next]_vars

-----------------------------------------------------------------------------
(* Properties                                                              *)

\* Kinds of values; the bucket is never overdrawn and never holds more than
\* its capacity.
TypeOK ==
    /\ now \in Nat
    /\ stamp \in [Requests -> Nat \cup {Idle}]
    /\ key \in BOOLEAN
    /\ tokens \in 0 .. Capacity
    /\ last \in Nat /\ dies \in Nat
    /\ mark \in Nat /\ passed \in Nat /\ back \in Nat

\* From any instant on, the requests allowed cost no more than a full bucket,
\* what the elapsed time refills, and what was refilled twice because
\* last_refill_ms went back.  The expiry of the key adds nothing: at the end of
\* its time to live the bucket would have been full.
RateBounded == passed * Cost <= Capacity + Refill(now - mark) + Refill(back)

=============================================================================
