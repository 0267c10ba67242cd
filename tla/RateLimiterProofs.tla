-------------------------- MODULE RateLimiterProofs --------------------------
(***************************************************************************)
(* The rate limiter's bound, for every policy whose bucket fills within    *)
(* the key's time to live (Factor * Window <= Ttl, that is BurstFactor at  *)
(* most 2).                                                                *)
(*                                                                         *)
(* RateBounded compares what has passed with the time that has elapsed; it *)
(* is not inductive, for it says nothing of what is left in the bucket.    *)
(* Account does: whatever passed since mark and whatever the bucket still  *)
(* holds come out of one full bucket and the refill up to last.  Clocks is *)
(* what Account needs of time: no stamp lies in the future, and a key that *)
(* is alive outlives its last refill by the time to live.                  *)
(***************************************************************************)
EXTENDS RateLimiter, TLAPS

Held == IF key THEN tokens ELSE Capacity

\* The bucket at mark, or at last if that is later.
HeldAtMark == Smaller(Capacity, Held + Refill(Larger(0, mark - last)))

Account ==
    passed * Cost + HeldAtMark
        <= Capacity + Refill(Larger(last, mark) - mark) + Refill(back)

Clocks ==
    /\ last <= now /\ mark <= now
    /\ \A q \in Requests : stamp[q] # Idle => stamp[q] <= now
    /\ key => last + Ttl <= dies

IInv == TypeOK /\ Clocks /\ Account

-----------------------------------------------------------------------------
(* Arithmetic                                                              *)

\* Refill is linear and strictly increasing.
LEMMA RefillLinear ==
    /\ \A x \in Int : Refill(x) \in Int
    /\ \A x, y \in Int : Refill(x + y) = Refill(x) + Refill(y)
    /\ \A x, y \in Int : Refill(x - y) = Refill(x) - Refill(y)
    /\ \A x, y \in Int : x <= y <=> Refill(x) <= Refill(y)
    /\ Refill(0) = 0
<1>1. Limit \in Nat \ {0}
  BY LimiterConstants
<1>2. \A x, y \in Int : Limit * (x + y) = Limit * x + Limit * y
  BY <1>1
<1>3. \A x, y \in Int : Limit * (x - y) = Limit * x - Limit * y
  BY <1>1
<1>4. \A x, y \in Int : x <= y <=> Limit * x <= Limit * y
  BY <1>1
<1> QED
  BY <1>1, <1>2, <1>3, <1>4 DEF Refill

\* The policy's quantities are numbers, and Factor windows fill a bucket.
LEMMA Policy ==
    /\ Factor \in Nat \ {0} /\ Capacity \in Nat /\ Cost \in Nat \ {0}
    /\ Ttl \in Nat /\ Factor * Window \in Nat
    /\ Refill(Factor * Window) = Capacity
    /\ Cost <= Capacity
<1>1. Factor \in Nat \ {0} /\ Window \in Nat \ {0} /\ Limit \in Nat \ {0}
  BY LimiterConstants DEF Factor
<1>2. Factor * Window \in Nat /\ Limit * Factor \in Nat \ {0}
  BY <1>1
<1>3. Limit * (Factor * Window) = (Limit * Factor) * Window
  BY <1>1
<1>4. Window <= (Limit * Factor) * Window
  BY <1>1, <1>2
<1>5. (Limit * Factor) * Window \in Nat
  BY <1>1, <1>2
<1> QED
  BY <1>1, <1>2, <1>3, <1>4, <1>5 DEF Capacity, Cost, Refill, Ttl

\* One run of the script, in tokens: c the capacity, t what the bucket holds,
\* l, s, m the refill up to last, up to the stamp and up to mark, b the refill
\* counted twice, p the cost of what passed, k the cost of what passes now.
LEMMA ScriptArithmetic ==
    ASSUME NEW c \in Nat, NEW t \in Int, NEW l \in Int, NEW s \in Int, NEW m \in Int,
           NEW b \in Int, NEW p \in Int, NEW k \in Int, NEW u \in Int,
           0 <= t, t <= c, 0 <= k, 0 <= u,
           p + Smaller(c, t + Larger(0, m - l)) <= c + (Larger(l, m) - m) + b,
           u + k <= Smaller(c, t + Larger(0, s - l)),
           k > 0 => s >= m
    PROVE  (p + k) + Smaller(c, u + Larger(0, m - s))
             <= c + (Larger(s, m) - m) + (b + Larger(0, l - s))
BY SMTT(60) DEF Smaller, Larger

\* The expiry of the key, in the same terms.
LEMMA ExpireArithmetic ==
    ASSUME NEW c \in Nat, NEW t \in Int, NEW l \in Int, NEW m \in Int,
           NEW b \in Int, NEW p \in Int,
           0 <= t, t <= c,
           p + Smaller(c, t + Larger(0, m - l)) <= c + (Larger(l, m) - m) + b
    PROVE  p + Smaller(c, c + Larger(0, m - (l + c)))
             <= c + (Larger(l + c, m) - m) + b
BY SMTT(60) DEF Smaller, Larger

\* Refill goes through the larger of two numbers.
LEMMA RefillLarger ==
    \A x, y \in Int : Refill(Larger(x, y)) = Larger(Refill(x), Refill(y))
BY RefillLinear DEF Larger

\* Account's terms with every Refill taken apart.
LEMMA AccountInTokens ==
    ASSUME NEW l \in Int, NEW m \in Int
    PROVE  /\ Refill(Larger(0, m - l)) = Larger(0, Refill(m) - Refill(l))
           /\ Refill(Larger(l, m) - m) = Larger(Refill(l), Refill(m)) - Refill(m)
<1>1. Refill(Larger(0, m - l)) = Larger(Refill(0), Refill(m - l))
  BY RefillLarger
<1>2. Refill(0) = 0 /\ Refill(m - l) = Refill(m) - Refill(l)
  BY RefillLinear
<1>3. Larger(l, m) \in Int
  BY DEF Larger
<1>4. Refill(Larger(l, m) - m) = Refill(Larger(l, m)) - Refill(m)
  BY <1>3, RefillLinear
<1> QED
  BY <1>1, <1>2, <1>4, RefillLarger

-----------------------------------------------------------------------------
(* Types and clocks                                                        *)

\* The initial state has a full bucket and nothing counted.
LEMMA InitIInv == Init => IInv
<1> SUFFICES ASSUME Init PROVE IInv
  OBVIOUS
<1>1. TypeOK
  <2>1. 0 \in 0 .. Capacity /\ 0 \in Nat
    BY Policy
  <2>2. stamp \in [Requests -> Nat \cup {Idle}]
    BY DEF Init
  <2> QED
    BY <2>1, <2>2 DEF Init, TypeOK
<1>2. Clocks
  BY DEF Init, Clocks
<1>3. Larger(0, 0) = 0 /\ Smaller(Capacity, Capacity + 0) = Capacity
  BY Policy DEF Larger, Smaller
<1>4. Account
  BY <1>3, Policy, RefillLinear DEF Init, Account, HeldAtMark, Held
<1> QED
  BY <1>1, <1>2, <1>4 DEF IInv

\* The script finds at most a full bucket and leaves no debt.
LEMMA RefilledBounds ==
    ASSUME TypeOK, NEW s \in Nat
    PROVE  /\ Refilled(s) \in 0 .. Capacity
           /\ Refilled(s) = Smaller(Capacity, Held + Larger(0, Refill(s) - Refill(last)))
           /\ Held \in 0 .. Capacity
<1>1. last \in Int /\ s \in Int
  BY DEF TypeOK
<1>2. Refill(Larger(0, s - last)) = Larger(0, Refill(s) - Refill(last))
  BY <1>1, AccountInTokens
<1>3. Refill(s) \in Int /\ Refill(last) \in Int
  BY <1>1, RefillLinear
<1>4. Held \in 0 .. Capacity
  BY Policy DEF TypeOK, Held
<1>5. Larger(0, Refill(s) - Refill(last)) \in Nat
  BY <1>3 DEF Larger
<1>6. CASE key
  BY <1>2, <1>4, <1>5, <1>6, Policy DEF Refilled, Held, Smaller
<1>7. CASE ~key
  BY <1>2, <1>4, <1>5, <1>7, Policy DEF Refilled, Held, Smaller
<1> QED
  BY <1>6, <1>7

\* What the script leaves in the bucket.
LEMMA ScriptTypes ==
    ASSUME TypeOK, NEW s \in Nat, Script(s)
    PROVE  /\ key' = TRUE /\ tokens' \in 0 .. Capacity /\ last' = s
           /\ dies' = now + Ttl /\ back' \in Nat
           /\ tokens' = IF Allowed(s) THEN Refilled(s) - Cost ELSE Refilled(s)
           /\ Allowed(s) => Refilled(s) >= Cost
<1>1. Refilled(s) \in 0 .. Capacity
  BY RefilledBounds
<1>2. Larger(0, Smaller(last, now) - s) \in Nat
  BY DEF Larger, Smaller, TypeOK
<1>3. tokens' \in 0 .. Capacity
  BY <1>1, Policy DEF Script, Allowed
<1> QED
  BY <1>1, <1>2, <1>3, Policy DEF Script, TypeOK, Allowed

\* The script, run for a request, keeps the types.
LEMMA ScriptKeepsTypes ==
    ASSUME TypeOK, NEW q \in Requests, stamp[q] # Idle, Script(stamp[q]),
           stamp' = [stamp EXCEPT ![q] = Idle], now' = now, mark' = mark,
           passed' \in Nat
    PROVE  TypeOK'
<1>1. stamp[q] \in Nat
  BY DEF TypeOK
<1>2. /\ key' = TRUE /\ tokens' \in 0 .. Capacity /\ last' = stamp[q]
      /\ dies' = now + Ttl /\ back' \in Nat
  BY <1>1, ScriptTypes
<1> QED
  BY <1>1, <1>2, Policy DEF TypeOK

\* Every step keeps the types.
LEMMA NextTypes ==
    ASSUME TypeOK, [Next]_vars
    PROVE  TypeOK'
<1>1. ASSUME NEW q \in Requests, ReadClock(q) PROVE TypeOK'
  BY <1>1 DEF TypeOK, ReadClock, bucketVars, markVars
<1>2. ASSUME NEW q \in Requests, Check(q) PROVE TypeOK'
  <2>1. passed' \in Nat
    BY <1>2 DEF Check, TypeOK
  <2> QED
    BY <1>2, <2>1, ScriptKeepsTypes DEF Check
<1>3. ASSUME NEW q \in Requests, CheckError(q) PROVE TypeOK'
  <2>1. CASE Script(stamp[q])
    BY <1>3, <2>1, ScriptKeepsTypes DEF CheckError, markVars, TypeOK
  <2>2. CASE UNCHANGED <<bucketVars, back>>
    BY <1>3, <2>2 DEF CheckError, markVars, bucketVars, TypeOK
  <2> QED
    BY <1>3, <2>1, <2>2 DEF CheckError
<1>4. CASE Expire
  <2>1. last + Factor * Window \in Nat
    BY Policy DEF TypeOK
  <2> QED
    BY <1>4, <2>1 DEF Expire, TypeOK, markVars
<1>5. CASE Tick
  BY <1>5 DEF Tick, TypeOK, markVars, bucketVars
<1>6. CASE Mark
  BY <1>6 DEF Mark, TypeOK, bucketVars
<1>7. CASE UNCHANGED vars
  BY <1>7 DEF vars, TypeOK, markVars, bucketVars
<1> QED
  BY <1>1, <1>2, <1>3, <1>4, <1>5, <1>6, <1>7 DEF Next

\* The script, run for a request, keeps the clocks.
LEMMA ScriptKeepsClocks ==
    ASSUME TypeOK, Clocks, NEW q \in Requests, stamp[q] # Idle, Script(stamp[q]),
           stamp' = [stamp EXCEPT ![q] = Idle], now' = now, mark' = mark
    PROVE  Clocks'
<1>1. stamp[q] \in Nat /\ stamp[q] <= now
  BY DEF TypeOK, Clocks
<1>2. last' = stamp[q] /\ dies' = now + Ttl
  BY <1>1, ScriptTypes
<1> QED
  BY <1>1, <1>2, Policy DEF Clocks, TypeOK

\* Every step keeps the clocks: where Expire moves last, the key had lived
\* long enough.
LEMMA NextClocks ==
    ASSUME TypeOK, Clocks, Factor * Window <= Ttl, [Next]_vars
    PROVE  Clocks'
<1>1. ASSUME NEW q \in Requests, ReadClock(q) PROVE Clocks'
  BY <1>1 DEF TypeOK, Clocks, ReadClock, bucketVars, markVars
<1>2. ASSUME NEW q \in Requests, Check(q) PROVE Clocks'
  BY <1>2, ScriptKeepsClocks DEF Check
<1>3. ASSUME NEW q \in Requests, CheckError(q) PROVE Clocks'
  <2>1. CASE Script(stamp[q])
    BY <1>3, <2>1, ScriptKeepsClocks DEF CheckError, markVars
  <2>2. CASE UNCHANGED <<bucketVars, back>>
    BY <1>3, <2>2 DEF CheckError, markVars, bucketVars, TypeOK, Clocks
  <2> QED
    BY <1>3, <2>1, <2>2 DEF CheckError
<1>4. CASE Expire
  <2>1. last + Factor * Window <= now
    BY <1>4, Policy DEF Expire, Clocks, TypeOK
  <2> QED
    BY <1>4, <2>1 DEF Expire, Clocks, TypeOK, markVars
<1>5. CASE Tick
  BY <1>5 DEF Tick, Clocks, TypeOK, markVars, bucketVars
<1>6. CASE Mark
  BY <1>6 DEF Mark, Clocks, TypeOK, bucketVars
<1>7. CASE UNCHANGED vars
  BY <1>7 DEF vars, Clocks, TypeOK, markVars, bucketVars
<1> QED
  BY <1>1, <1>2, <1>3, <1>4, <1>5, <1>6, <1>7 DEF Next

-----------------------------------------------------------------------------
(* The account                                                             *)

\* Account in the terms of the arithmetic lemmas.
LEMMA AccountTerms ==
    ASSUME TypeOK
    PROVE  /\ Account <=>
                passed * Cost + Smaller(Capacity, Held + Larger(0, Refill(mark) - Refill(last)))
                  <= Capacity + (Larger(Refill(last), Refill(mark)) - Refill(mark)) + Refill(back)
           /\ passed * Cost \in Nat
           /\ Refill(last) \in Int /\ Refill(mark) \in Int /\ Refill(back) \in Int
<1>1. last \in Int /\ mark \in Int /\ back \in Int /\ passed \in Nat
  BY DEF TypeOK
<1>2. passed * Cost \in Nat
  BY <1>1, Policy
<1>3. /\ Refill(Larger(0, mark - last)) = Larger(0, Refill(mark) - Refill(last))
      /\ Refill(Larger(last, mark) - mark) = Larger(Refill(last), Refill(mark)) - Refill(mark)
  BY <1>1, AccountInTokens
<1> QED
  BY <1>1, <1>2, <1>3, RefillLinear DEF Account, HeldAtMark

\* The same in the next state.
LEMMA AccountTermsNext ==
    ASSUME TypeOK'
    PROVE  Account' <=>
             passed' * Cost + Smaller(Capacity, Held' + Larger(0, Refill(mark') - Refill(last')))
               <= Capacity + (Larger(Refill(last'), Refill(mark')) - Refill(mark')) + Refill(back')
<1>1. last' \in Int /\ mark' \in Int /\ back' \in Int /\ passed' \in Nat
  BY DEF TypeOK
<1>3. /\ Refill(Larger(0, mark' - last')) = Larger(0, Refill(mark') - Refill(last'))
      /\ Refill(Larger(last', mark') - mark') = Larger(Refill(last'), Refill(mark')) - Refill(mark')
  BY <1>1, AccountInTokens
<1> QED
  BY <1>1, <1>3, RefillLinear DEF Account, HeldAtMark, Refill, Cost, Capacity, Factor

\* The script keeps the account, whether or not the request is counted: p is
\* what it adds to the cost of what passed.
LEMMA ScriptAccount ==
    ASSUME TypeOK, Clocks, Account, NEW s \in Nat, s <= now, Script(s),
           TypeOK', mark' = mark, NEW k \in {0, Cost},
           k = Cost => Allowed(s) /\ s >= mark,
           passed' * Cost = passed * Cost + k
    PROVE  Account'
<1>1. /\ Refilled(s) \in 0 .. Capacity /\ Held \in 0 .. Capacity
      /\ Refilled(s) = Smaller(Capacity, Held + Larger(0, Refill(s) - Refill(last)))
  BY RefilledBounds
<1>2. /\ key' = TRUE /\ tokens' \in 0 .. Capacity /\ last' = s
      /\ back' = back + Larger(0, last - s)
      /\ tokens' = IF Allowed(s) THEN Refilled(s) - Cost ELSE Refilled(s)
  <2>1. Smaller(last, now) = last
    BY DEF Clocks, Smaller, TypeOK
  <2> QED
    BY <2>1, ScriptTypes DEF Script
<1>3. tokens' + k <= Refilled(s)
  BY <1>1, <1>2, Policy
<1>4. k > 0 => Refill(s) >= Refill(mark)
  <2>1. mark \in Int /\ s \in Int
    BY DEF TypeOK
  <2> QED
    BY <2>1, Policy, RefillLinear
<1>5. Refill(back') = Refill(back) + Larger(0, Refill(last) - Refill(s))
  <2>1. back \in Int /\ last \in Int /\ s \in Int /\ Larger(0, last - s) \in Int
    BY DEF TypeOK, Larger
  <2>2. Refill(Larger(0, last - s)) = Larger(0, Refill(last) - Refill(s))
    BY <2>1, AccountInTokens
  <2> QED
    BY <1>2, <2>1, <2>2, RefillLinear
<1>6. Held' = tokens'
  BY <1>2 DEF Held
<1>7. Refill(s) \in Int
  BY RefillLinear
<1> DEFINE t == Held
<1> DEFINE l == Refill(last)
<1> DEFINE m == Refill(mark)
<1> DEFINE b == Refill(back)
<1> DEFINE p == passed * Cost
<1> DEFINE r == Refill(s)
<1>8. /\ p + Smaller(Capacity, t + Larger(0, m - l)) <= Capacity + (Larger(l, m) - m) + b
      /\ p \in Int /\ l \in Int /\ m \in Int /\ b \in Int
  BY AccountTerms
<1>9. /\ t \in Int /\ 0 <= t /\ t <= Capacity /\ r \in Int
      /\ k \in Int /\ 0 <= k /\ tokens' \in Int /\ 0 <= tokens' /\ Capacity \in Nat
      /\ tokens' + k <= Smaller(Capacity, t + Larger(0, r - l))
      /\ k > 0 => r >= m
  BY <1>1, <1>2, <1>3, <1>4, <1>7, Policy
<1> HIDE DEF t, l, m, b, p, r
<1>10. (p + k) + Smaller(Capacity, tokens' + Larger(0, m - r))
         <= Capacity + (Larger(r, m) - m) + (b + Larger(0, l - r))
  BY <1>8, <1>9, ScriptArithmetic
<1>11. passed' * Cost + Smaller(Capacity, Held' + Larger(0, Refill(mark') - Refill(last')))
         <= Capacity + (Larger(Refill(last'), Refill(mark')) - Refill(mark')) + Refill(back')
  BY <1>2, <1>5, <1>6, <1>10 DEF t, l, m, b, p, r
<1> QED
  BY <1>11, AccountTermsNext

\* The key's expiry keeps the account.
LEMMA ExpireAccount ==
    ASSUME TypeOK, Account, TypeOK', Expire
    PROVE  Account'
<1>1. Refill(last') = Refill(last) + Capacity
  BY Policy, RefillLinear DEF Expire, TypeOK
<1>2. Held' = Capacity /\ Held = tokens
  BY DEF Expire, Held
<1>3. passed' = passed /\ mark' = mark /\ back' = back
  BY DEF Expire, markVars
<1> DEFINE t == tokens
<1> DEFINE l == Refill(last)
<1> DEFINE m == Refill(mark)
<1> DEFINE b == Refill(back)
<1> DEFINE p == passed * Cost
<1>4. /\ p + Smaller(Capacity, t + Larger(0, m - l)) <= Capacity + (Larger(l, m) - m) + b
      /\ p \in Int /\ l \in Int /\ m \in Int /\ b \in Int
  BY <1>2, AccountTerms
<1>5. t \in Int /\ 0 <= t /\ t <= Capacity /\ Capacity \in Nat
  BY Policy DEF TypeOK
<1> HIDE DEF t, l, m, b, p
<1>6. p + Smaller(Capacity, Capacity + Larger(0, m - (l + Capacity)))
        <= Capacity + (Larger(l + Capacity, m) - m) + b
  BY <1>4, <1>5, ExpireArithmetic
<1>7. passed' * Cost + Smaller(Capacity, Held' + Larger(0, Refill(mark') - Refill(last')))
        <= Capacity + (Larger(Refill(last'), Refill(mark')) - Refill(mark')) + Refill(back')
  BY <1>1, <1>2, <1>3, <1>6 DEF t, l, m, b, p
<1> QED
  BY <1>7, AccountTermsNext

\* Every step keeps the account.
LEMMA NextAccount ==
    ASSUME TypeOK, Clocks, Account, [Next]_vars
    PROVE  Account'
<1>1. TypeOK'
  BY NextTypes
<1>2. ASSUME UNCHANGED <<bucketVars, markVars, back>> PROVE Account'
  BY <1>2 DEF Account, HeldAtMark, Held, bucketVars, markVars
<1>3. ASSUME NEW q \in Requests, Check(q) PROVE Account'
  <2>1. stamp[q] \in Nat /\ stamp[q] <= now
    BY <1>3 DEF Check, TypeOK, Clocks
  <2>2. Script(stamp[q]) /\ mark' = mark
    BY <1>3 DEF Check
  <2>3. CASE Allowed(stamp[q]) /\ stamp[q] >= mark
    <3>1. passed' = passed + 1
      BY <1>3, <2>3 DEF Check
    <3>2. passed' * Cost = passed * Cost + Cost
      BY <3>1, Policy DEF TypeOK
    <3> QED
      BY <1>1, <2>1, <2>2, <2>3, <3>2, ScriptAccount
  <2>4. CASE ~(Allowed(stamp[q]) /\ stamp[q] >= mark)
    <3>1. passed' = passed
      BY <1>3, <2>4 DEF Check
    <3>2. passed' * Cost = passed * Cost + 0 /\ 0 # Cost
      BY <3>1, Policy DEF TypeOK
    <3> QED
      BY <1>1, <2>1, <2>2, <3>2, ScriptAccount
  <2> QED
    BY <2>3, <2>4
<1>4. ASSUME NEW q \in Requests, CheckError(q) PROVE Account'
  <2>1. CASE Script(stamp[q])
    <3>1. stamp[q] \in Nat /\ stamp[q] <= now
      BY <1>4 DEF CheckError, TypeOK, Clocks
    <3>2. mark' = mark /\ passed' = passed
      BY <1>4 DEF CheckError, markVars
    <3>3. passed' * Cost = passed * Cost + 0 /\ 0 # Cost
      BY <3>2, Policy DEF TypeOK
    <3> QED
      BY <1>1, <2>1, <3>1, <3>2, <3>3, ScriptAccount
  <2>2. CASE UNCHANGED <<bucketVars, back>>
    BY <1>2, <1>4, <2>2 DEF CheckError
  <2> QED
    BY <1>4, <2>1, <2>2 DEF CheckError
<1>5. CASE Expire
  BY <1>1, <1>5, ExpireAccount
<1>6. CASE Mark
  <2>1. /\ key' = key /\ tokens' = tokens /\ last' = last
        /\ mark' = now /\ passed' = 0 /\ back' = 0
    BY <1>6 DEF Mark, bucketVars
  <2>2. last \in Int /\ now \in Int /\ last <= now
    BY DEF TypeOK, Clocks
  <2>3. Larger(last, now) - now = 0
    BY <2>2 DEF Larger
  <2>4. Larger(0, now - last) \in Nat
    BY <2>2 DEF Larger
  <2>5. Refill(Larger(0, now - last)) \in Int
    BY <2>4, RefillLinear
  <2>6. Held \in Int
    BY Policy DEF TypeOK, Held
  <2>7. Smaller(Capacity, Held + Refill(Larger(0, now - last))) <= Capacity
    BY <2>5, <2>6, Policy DEF Smaller
  <2>8. Smaller(Capacity, Held + Refill(Larger(0, now - last))) \in Int /\ 0 * Cost = 0
    BY <2>5, <2>6, Policy DEF Smaller
  <2>9. HeldAtMark' = Smaller(Capacity, Held + Refill(Larger(0, now - last)))
    BY <2>1 DEF HeldAtMark, Held
  <2>10. Refill(Larger(last', mark') - mark') = 0 /\ Refill(back') = 0
    BY <2>1, <2>3, RefillLinear
  <2>11. passed' * Cost + HeldAtMark' <= Capacity + 0 + 0
    BY <2>1, <2>7, <2>8, <2>9, Policy
  <2> QED
    BY <2>10, <2>11 DEF Account, Refill, Cost, Capacity, Factor
<1>7. ASSUME NEW q \in Requests, ReadClock(q) PROVE Account'
  BY <1>2, <1>7 DEF ReadClock
<1>8. CASE Tick
  BY <1>2, <1>8 DEF Tick
<1>9. CASE UNCHANGED vars
  BY <1>2, <1>9 DEF vars
<1> QED
  BY <1>3, <1>4, <1>5, <1>6, <1>7, <1>8, <1>9 DEF Next

-----------------------------------------------------------------------------
(* Theorems                                                                *)

\* The bound follows from the account: last and mark are not in the future.
LEMMA AccountBounds == IInv => RateBounded
<1> SUFFICES ASSUME TypeOK, Clocks, Account PROVE RateBounded
  BY DEF IInv
<1>1. passed * Cost \in Nat
  BY AccountTerms
<1>2. HeldAtMark \in Int /\ HeldAtMark >= 0
  <2>1. Larger(0, mark - last) \in Nat
    BY DEF TypeOK, Larger
  <2>2. Refill(Larger(0, mark - last)) \in Int /\ Refill(Larger(0, mark - last)) >= 0
    BY <2>1, RefillLinear
  <2>3. Held \in Nat
    BY Policy DEF TypeOK, Held
  <2> QED
    BY <2>2, <2>3, Policy DEF HeldAtMark, Smaller
<1>3. /\ Larger(last, mark) - mark \in Int /\ now - mark \in Int /\ back \in Int
      /\ Larger(last, mark) - mark <= now - mark
  BY DEF TypeOK, Clocks, Larger
<1>4. /\ Refill(Larger(last, mark) - mark) <= Refill(now - mark)
      /\ Refill(Larger(last, mark) - mark) \in Int /\ Refill(now - mark) \in Int
      /\ Refill(back) \in Int
  BY <1>3, RefillLinear
<1> QED
  BY <1>1, <1>2, <1>4, Policy DEF RateBounded, Account

\* Whatever the order in which scripts reach Redis, and whatever Redis errors
\* and key expiries come between, the bucket is never overdrawn and never holds
\* more than its capacity, for every policy.
THEOREM LimiterTypeCorrect == Spec => []TypeOK
<1>1. TypeOK /\ [Next]_vars => TypeOK'
  BY NextTypes
<1>2. Init => TypeOK
  BY InitIInv DEF IInv
<1> QED
  BY <1>1, <1>2, PTL DEF Spec

\* For every policy whose bucket fills within the key's time to live, any
\* number of requests and any clock: from any instant on the script lets
\* through no more than a full bucket, the refill of the time elapsed and what
\* out-of-order stamps refill twice.
THEOREM RateCorrect ==
    ASSUME Factor * Window <= Ttl
    PROVE  Spec => []RateBounded
<1>1. IInv /\ [Next]_vars => IInv'
  BY NextTypes, NextClocks, NextAccount DEF IInv
<1> QED
  BY <1>1, InitIInv, AccountBounds, PTL DEF Spec

=============================================================================
