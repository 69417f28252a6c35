---------------------------- MODULE ClientProofs -----------------------------
(***************************************************************************)
(* Bans and budgets of the HTTP client for any number of domains, slots,     *)
(* requests and retries: a cooldown is bounded, a ban is lifted only by who   *)
(* may, one get sends a bounded number of requests, and the map of domains   *)
(* exceeds its cap by no more than the requests still enforcing it.          *)
(***************************************************************************)
EXTENDS HttpClient, FiniteSetTheorems, TLAPS

-----------------------------------------------------------------------------
(* The pool. *)

SessionOK(s, seen) ==
    /\ s \in Session /\ s.last_failure_time <= seen
    /\ s.next_retry_time <= s.last_failure_time + MaxCooldown

EntryOK(e) ==
    /\ e \in Entry /\ e.last_seen <= clock
    /\ \A i \in Slots : SessionOK(e.states[i], e.last_seen)

PoolOK ==
    /\ clock \in Nat /\ Tracked \subseteq Domains
    /\ \A d \in Tracked : EntryOK(pool[d])

LEMMA Rounding ==
    \A n \in 1..MaxDelay :
        /\ Least(n) \in Nat \ {0} /\ Most(n) \in Nat /\ Most(n) <= Most(MaxDelay)
  BY PoolAssumption DEF Least, Most

LEMMA CooldownNat == MaxCooldown \in Nat /\ MaxCooldown <= Ttl /\ Ttl \in Nat
  BY PoolAssumption DEF MaxCooldown, Most

LEMMA DelayIs ==
    ASSUME NEW failures \in Nat, NEW delay \in BackoffDelays(failures)
    PROVE  delay \in Nat \ {0} /\ delay <= Most(MaxDelay)
  <1> DEFINE e == IF failures < MaxExp THEN failures ELSE MaxExp
             nominal == Capped(BaseDelay * 2 ^ e)
  <1>1. 2 ^ e \in Int
    BY PoolAssumption
  <1>2. BaseDelay * 2 ^ e \in Int
    BY <1>1, PoolAssumption
  <1>3. nominal \in 1..MaxDelay
    BY <1>2, PoolAssumption DEF Capped
  <1>4. delay \in Least(nominal)..Most(nominal)
    BY DEF BackoffDelays
  <1> HIDE DEF nominal
  <1>5. Most(MaxDelay) \in Nat
    BY PoolAssumption DEF Most
  <1> QED
    BY <1>3, <1>4, <1>5, Rounding

LEMMA StaggerIs ==
    ASSUME NEW slot \in Slots, NEW delay \in Nat, delay <= Most(MaxDelay)
    PROVE  Stagger(slot, delay) \in Nat /\ Stagger(slot, delay) <= Most(MaxDelay) \div 5
  <1> DEFINE w == IF delay \div 5 > 1 THEN delay \div 5 ELSE 1
  <1>1. w \in Nat \ {0} /\ slot * 37 \in Nat
    BY PoolAssumption DEF Slots
  <1>2. (slot * 37) % w \in 0..(w - 1)
    BY <1>1
  <1>3. Most(MaxDelay) \in Nat
    BY PoolAssumption DEF Most
  <1>4. w - 1 <= Most(MaxDelay) \div 5 /\ Most(MaxDelay) \div 5 \in Nat
    BY <1>3
  <1> QED
    BY <1>1, <1>2, <1>4 DEF Stagger

\* A ban ends after now, and no later than the longest cooldown.
LEMMA BansOK ==
    ASSUME PoolOK, NEW s \in Session, NEW slot \in Slots, NEW t \in Bans(s, slot)
    PROVE  SessionOK(t, clock) /\ ~Available(t)
  <1>1. s.consecutive_failures + 1 \in Nat /\ clock \in Nat
    BY DEF Session, PoolOK
  <1>2. PICK delay \in BackoffDelays(s.consecutive_failures + 1) :
            t = [status |-> "Banned", consecutive_failures |-> s.consecutive_failures + 1,
                 last_failure_time |-> clock, next_retry_time |-> clock + delay + Stagger(slot, delay)]
    BY DEF Bans
  <1>3. delay \in Nat \ {0} /\ delay <= Most(MaxDelay)
    BY <1>1, <1>2, DelayIs
  <1>4. Stagger(slot, delay) \in Nat /\ Stagger(slot, delay) <= Most(MaxDelay) \div 5
    BY <1>3, StaggerIs
  <1>5. Most(MaxDelay) \in Nat /\ Most(MaxDelay) \div 5 \in Nat
    BY PoolAssumption DEF Most
  <1>6. /\ clock + delay + Stagger(slot, delay) \in Nat
        /\ clock + delay + Stagger(slot, delay) > clock
        /\ clock + delay + Stagger(slot, delay) <= clock + MaxCooldown
    BY <1>1, <1>3, <1>4, <1>5 DEF MaxCooldown
  <1>7. t \in Session
    BY <1>1, <1>2, <1>6 DEF Session
  <1> QED
    BY <1>1, <1>2, <1>6, <1>7 DEF SessionOK, Available

\* Another failure keeps the deadline.
LEMMA CountedOK ==
    ASSUME PoolOK, NEW s, NEW seen \in Nat, SessionOK(s, seen), seen <= clock
    PROVE  /\ SessionOK(Counted(s), clock)
           /\ (s.status = "Banned" /\ ~Available(s) => ~Available(Counted(s)))
  <1>1. /\ s \in Session /\ s.last_failure_time \in Nat /\ s.next_retry_time \in Nat /\ clock \in Nat
        /\ s.consecutive_failures + 1 \in Nat /\ s.status \in {"Healthy", "Banned", "Retiring"}
        /\ s.last_failure_time <= clock
    BY DEF SessionOK, Session, PoolOK
  <1>2. s.next_retry_time <= clock + MaxCooldown
    BY <1>1, CooldownNat DEF SessionOK
  <1>3. Counted(s) \in Session
    BY <1>1 DEF Counted, Session
  <1> QED
    BY <1>1, <1>2, <1>3 DEF Counted, SessionOK, Available

LEMMA HealthyOK == ASSUME NEW seen \in Nat PROVE SessionOK(Healthy, seen)
  BY CooldownNat DEF SessionOK, Healthy, Session

\* The TTL heals a slot only after its deadline.
LEMMA EvictExpiredOK ==
    ASSUME PoolOK, NEW states \in [Slots -> Session], NEW seen \in Nat, seen <= clock,
           \A i \in Slots : SessionOK(states[i], seen)
    PROVE  /\ EvictExpired(states) \in [Slots -> Session]
           /\ \A i \in Slots : SessionOK(EvictExpired(states)[i], seen)
           /\ \A i \in Slots : clock < states[i].next_retry_time
                                 => EvictExpired(states)[i] = states[i]
  <1>1. Healthy \in Session
    BY DEF Healthy, Session
  <1>2. EvictExpired(states) \in [Slots -> Session]
    BY <1>1 DEF EvictExpired
  <1>3. \A i \in Slots : SessionOK(EvictExpired(states)[i], seen)
    BY HealthyOK DEF EvictExpired
  <1>4. ASSUME NEW i \in Slots, clock < states[i].next_retry_time
        PROVE  EvictExpired(states)[i] = states[i]
    <2>1. /\ states[i].last_failure_time \in Nat /\ states[i].next_retry_time \in Nat /\ clock \in Nat
          /\ states[i].next_retry_time <= states[i].last_failure_time + MaxCooldown
      BY DEF PoolOK, Session, SessionOK
    <2>2. ~(clock - states[i].last_failure_time > Ttl)
      BY <1>4, <2>1, CooldownNat
    <2> QED
      BY <2>2 DEF EvictExpired
  <1> QED
    BY <1>2, <1>3, <1>4

LEMMA PutOK ==
    ASSUME PoolOK, NEW d \in Domains, NEW e, EntryOK(e), Put(d, e), clock' = clock
    PROVE  /\ PoolOK' /\ Tracked' = Tracked \cup {d} /\ pool'[d] = e
           /\ \A x \in Tracked \ {d} : pool'[x] = pool[x]
  <1>1. /\ Tracked' = Tracked \cup {d} /\ pool'[d] = e
        /\ \A x \in Tracked \ {d} : pool'[x] = pool[x]
    BY DEF Put, Tracked
  <1>2. \A x : EntryOK(x) => (x \in Entry /\ x.last_seen <= clock'
                              /\ \A i \in Slots : SessionOK(x.states[i], x.last_seen))
    BY DEF EntryOK
  <1> QED
    BY <1>1, <1>2 DEF PoolOK, EntryOK

-----------------------------------------------------------------------------
(* The requests. *)

Places == {"idle", "count", "choose", "remove", "send", "retry", "report"}

Leased ==
    /\ at \in [Requests -> Places] /\ lease \in [Requests -> Lease \cup {NoLease}]
    /\ \A r \in Requests :
          /\ at[r] # "idle" => lease[r] \in Lease
          /\ at[r] \in {"send", "retry", "report"} => lease[r].session \in Slots

\* What a call has sent, by where it is.
Budget ==
    /\ try \in [Requests -> Try]
    /\ \A r \in Requests :
          LET t == try[r]
          IN  CASE at[r] = "send"  -> t.sends <= t.ua * (MaxRetries + 1) + t.attempt
                [] at[r] = "retry" -> t.sends <= 2 * MaxRetries + 2 + t.attempt
                [] OTHER           -> t = FirstTry

Evicting == DOMAIN evict = Requests /\ \A r \in Requests : "victims" \in DOMAIN evict[r]

Inv == PoolOK /\ Leased /\ Budget /\ Evicting

\* The steps that send, count, choose or give up.
Moves(r) ==
    \/ CountDomains(r) \/ ChooseVictims(r) \/ Enforced(r)
    \/ SendTimesOut(r) \/ SendFails(r) \/ SendSucceeds(r) \/ SendForbidden(r)
    \/ SendRateLimited(r) \/ SendServerError(r) \/ SendRefused(r)
    \/ RetrySucceeds(r) \/ RetryAnswered(r) \/ RetryFails(r) \/ RetriesExhausted(r)
    \/ Drop(r)

LEMMA MovesShape ==
    ASSUME NEW r \in Requests, Moves(r)
    PROVE  /\ UNCHANGED <<clock, pool>> /\ at[r] # "idle"
           /\ \/ at' = [at EXCEPT ![r] = "idle"] /\ lease' = [lease EXCEPT ![r] = NoLease]
              \/ \E to \in {"choose", "remove", "report", "retry"} :
                    at' = [at EXCEPT ![r] = to] /\ lease' = lease
                    /\ (to \in {"report", "retry"} => at[r] \in {"send", "retry"})
              \/ at' = [at EXCEPT ![r] = "send"] /\ lease' = lease
                    /\ (at[r] = "send" \/ lease[r].session # -1)
  <1>1. CASE CountDomains(r) \/ ChooseVictims(r) \/ Enforced(r) \/ Drop(r)
    BY <1>1 DEF CountDomains, ChooseVictims, Enforced, Drop, AcquireReturns, Over
  <1>2. CASE SendTimesOut(r) \/ SendFails(r) \/ SendSucceeds(r) \/ SendForbidden(r)
             \/ SendRateLimited(r) \/ SendServerError(r) \/ SendRefused(r)
    BY <1>2 DEF SendTimesOut, SendFails, SendSucceeds, SendForbidden, SendRateLimited, SendServerError,
                SendRefused, EntersRetry, Returns, Continues
  <1>3. CASE RetrySucceeds(r) \/ RetryAnswered(r) \/ RetryFails(r) \/ RetriesExhausted(r)
    BY <1>3 DEF RetrySucceeds, RetryAnswered, RetryFails, RetriesExhausted, Retrying, Returns, Continues
  <1> QED
    BY <1>1, <1>2, <1>3 DEF Moves

LEMMA MovesLeased == ASSUME Leased, NEW r \in Requests, Moves(r) PROVE Leased'
  <1>1. /\ at[r] # "idle"
        /\ \/ at' = [at EXCEPT ![r] = "idle"] /\ lease' = [lease EXCEPT ![r] = NoLease]
           \/ \E to \in {"choose", "remove", "report", "retry"} :
                 at' = [at EXCEPT ![r] = to] /\ lease' = lease
                 /\ (to \in {"report", "retry"} => at[r] \in {"send", "retry"})
           \/ at' = [at EXCEPT ![r] = "send"] /\ lease' = lease
                 /\ (at[r] = "send" \/ lease[r].session # -1)
    BY MovesShape
  <1>2. lease[r] \in Lease /\ lease[r].session \in Slots \cup {-1}
    BY <1>1 DEF Leased, Lease
  <1>3. CASE at' = [at EXCEPT ![r] = "idle"] /\ lease' = [lease EXCEPT ![r] = NoLease]
    BY <1>3 DEF Leased, Places
  <1>4. CASE \E to \in {"choose", "remove", "report", "retry"} :
                at' = [at EXCEPT ![r] = to] /\ lease' = lease
                /\ (to \in {"report", "retry"} => at[r] \in {"send", "retry"})
    BY <1>2, <1>4 DEF Leased, Places
  <1>5. CASE at' = [at EXCEPT ![r] = "send"] /\ lease' = lease
                /\ (at[r] = "send" \/ lease[r].session # -1)
    BY <1>2, <1>5 DEF Leased, Places
  <1> QED
    BY <1>1, <1>3, <1>4, <1>5

LEMMA TryIs ==
    ASSUME Budget, NEW r \in Requests
    PROVE  /\ try[r] \in Try /\ try[r].ua \in {0, 1} /\ try[r].attempt \in 0..MaxRetries
           /\ try[r].policy \in {0, 429, 500, 503} /\ try[r].timedOut \in BOOLEAN
           /\ try[r].sends \in Nat /\ MaxRetries \in Nat
           /\ FirstTry \in Try /\ FirstTry.sends = 0 /\ FirstTry.ua = 0 /\ FirstTry.attempt = 0
  BY ClientAssumption DEF Budget, Try, FirstTry

\* A request that is over, or about to report, counts anew.
LEMMA Resets ==
    ASSUME Budget, Leased, NEW r \in Requests, try' = [try EXCEPT ![r] = FirstTry],
           NEW to \in Places \ {"retry"}, at' = [at EXCEPT ![r] = to]
    PROVE  Budget'
  <1>1. try'[r] = FirstTry /\ at'[r] = to
    BY DEF Budget, Leased
  <1>2. \A q \in Requests \ {r} : try'[q] = try[q] /\ at'[q] = at[q]
    BY DEF Budget, Leased
  <1>3. try' \in [Requests -> Try]
    BY TryIs DEF Budget
  <1>4. FirstTry.sends <= FirstTry.ua * (MaxRetries + 1) + FirstTry.attempt
    BY ClientAssumption DEF FirstTry
  <1> QED
    BY <1>1, <1>2, <1>3, <1>4 DEF Budget, Places

\* One that goes on keeps within its budget.
LEMMA Continued ==
    ASSUME Budget, Leased, NEW r \in Requests, NEW t \in Try, NEW to, Continues(r, to, t),
           \/ to = "send" /\ t.sends <= t.ua * (MaxRetries + 1) + t.attempt
           \/ to = "retry" /\ t.sends <= 2 * MaxRetries + 2 + t.attempt
    PROVE  Budget'
  <1>1. try'[r] = t /\ at'[r] = to /\ try' \in [Requests -> Try]
    BY DEF Budget, Leased, Continues
  <1>2. \A q \in Requests \ {r} : try'[q] = try[q] /\ at'[q] = at[q]
    BY DEF Budget, Leased, Continues
  <1> QED
    BY <1>1, <1>2 DEF Budget

LEMMA SentIs ==
    ASSUME NEW t \in Try
    PROVE  /\ Sent(t) \in Try /\ Sent(t).sends = t.sends + 1 /\ t.sends \in Nat
           /\ Sent(t).ua = t.ua /\ Sent(t).attempt = t.attempt
  BY DEF Try, Sent

LEMMA AgainIs ==
    ASSUME NEW t \in Try, t.attempt < MaxRetries
    PROVE  /\ Again(t) \in Try /\ Again(t).attempt = t.attempt + 1
           /\ Again(t).ua = t.ua /\ Again(t).sends = t.sends
  <1>1. t.attempt + 1 \in 0..MaxRetries
    BY ClientAssumption DEF Try
  <1> QED
    BY <1>1 DEF Try, Again

LEMMA AnewIs ==
    ASSUME NEW t \in Try
    PROVE  Anew(t) \in Try /\ Anew(t).attempt = 0 /\ Anew(t).ua = t.ua /\ Anew(t).sends = t.sends
  <1>1. 0 \in 0..MaxRetries
    BY ClientAssumption
  <1> QED
    BY <1>1 DEF Try, Anew

LEMMA TryWithUa ==
    ASSUME NEW t \in Try
    PROVE  /\ [t EXCEPT !.ua = 1] \in Try /\ [t EXCEPT !.ua = 1].ua = 1
           /\ [t EXCEPT !.ua = 1].sends = t.sends
  BY DEF Try

LEMMA MovesBudget == ASSUME Budget, Leased, NEW r \in Requests, Moves(r) PROVE Budget'
  <1> DEFINE t == try[r]
  <1>1. /\ t \in Try /\ t.ua \in {0, 1} /\ t.attempt \in 0..MaxRetries /\ t.sends \in Nat
        /\ t.policy \in {0, 429, 500, 503} /\ t.timedOut \in BOOLEAN
        /\ MaxRetries \in Nat
    BY TryIs
  <1>2. /\ at[r] = "send" => t.sends <= t.ua * (MaxRetries + 1) + t.attempt
        /\ at[r] = "retry" => t.sends <= 2 * MaxRetries + 2 + t.attempt
        /\ at[r] \notin {"send", "retry"} => t = FirstTry
    BY DEF Budget
  <1>3. CASE Over(r) \/ \E result : Returns(r, result)
    BY <1>3, Resets DEF Over, Returns, Places
  <1>4. CASE (CountDomains(r) \/ ChooseVictims(r) \/ Enforced(r)) /\ ~Over(r)
    <2>1. at[r] \notin {"send", "retry"} /\ try' = try
      BY <1>4 DEF CountDomains, ChooseVictims, Enforced, AcquireReturns
    <2>2. PICK to \in {"choose", "remove", "send"} : at' = [at EXCEPT ![r] = to]
      BY <1>4 DEF CountDomains, ChooseVictims, Enforced, AcquireReturns
    <2>3. try' = [try EXCEPT ![r] = FirstTry]
      BY <1>2, <2>1 DEF Budget
    <2> QED
      BY <2>2, <2>3, Resets DEF Places
  <1>5. CASE at[r] = "send" /\ t.attempt < MaxRetries /\ Continues(r, "send", Sent(Again(t)))
    <2>1. /\ Sent(Again(t)) \in Try /\ Sent(Again(t)).sends = t.sends + 1
          /\ Sent(Again(t)).ua = t.ua /\ Sent(Again(t)).attempt = t.attempt + 1
      BY <1>1, <1>5, AgainIs, SentIs
    <2>2. t.ua * (MaxRetries + 1) \in Nat
      BY <1>1
    <2>3. Sent(Again(t)).sends <= Sent(Again(t)).ua * (MaxRetries + 1) + Sent(Again(t)).attempt
      BY <1>1, <1>2, <1>5, <2>1, <2>2
    <2> QED
      BY <1>5, <2>1, <2>3, Continued
  <1>6. CASE at[r] = "send" /\ t.ua = 0 /\ Continues(r, "send", Sent(Anew([t EXCEPT !.ua = 1])))
    <2> DEFINE v == [t EXCEPT !.ua = 1]
               u == Sent(Anew(v))
    <2>0. v \in Try /\ v.ua = 1 /\ v.sends = t.sends
      BY <1>1, TryWithUa
    <2> HIDE DEF v
    <2>1. u \in Try /\ u.sends = t.sends + 1 /\ u.ua = 1 /\ u.attempt = 0
      BY <2>0, AnewIs, SentIs
    <2>2. t.sends <= t.attempt
      BY <1>1, <1>2, <1>6
    <2>3. u.sends <= u.ua * (MaxRetries + 1) + u.attempt
      BY <1>1, <2>1, <2>2
    <2> QED
      BY <1>6, <2>1, <2>3, Continued DEF v
  <1>7. ASSUME NEW code \in {429, 500, 503}, at[r] = "send", EntersRetry(r, code) PROVE Budget'
    <2> DEFINE v == [t EXCEPT !.policy = code]
               u == Sent(Anew(v))
    <2>0. v \in Try /\ v.sends = t.sends
      BY <1>1 DEF Try
    <2> HIDE DEF v
    <2>1. u \in Try /\ u.sends = t.sends + 1 /\ u.attempt = 0
      BY <2>0, AnewIs, SentIs
    <2>2. t.sends <= 2 * MaxRetries + 1
      <3>1. CASE t.ua = 0
        BY <1>1, <1>2, <1>7, <3>1
      <3>2. CASE t.ua = 1
        BY <1>1, <1>2, <1>7, <3>2
      <3> QED
        BY <1>1, <3>1, <3>2
    <2>3. u.sends <= 2 * MaxRetries + 2 + u.attempt
      BY <1>1, <2>1, <2>2
    <2> QED
      BY <1>7, <2>1, <2>3, Continued DEF EntersRetry, v
  <1>8. ASSUME NEW u \in Try, u.sends = t.sends, u.attempt = t.attempt, at[r] = "retry",
               t.attempt < MaxRetries, Continues(r, "retry", Sent(Again(u)))
        PROVE  Budget'
    <2>1. /\ Sent(Again(u)) \in Try /\ Sent(Again(u)).sends = t.sends + 1
          /\ Sent(Again(u)).attempt = t.attempt + 1
      BY <1>1, <1>8, AgainIs, SentIs
    <2>2. Sent(Again(u)).sends <= 2 * MaxRetries + 2 + Sent(Again(u)).attempt
      BY <1>1, <1>2, <1>8, <2>1
    <2> QED
      BY <1>8, <2>1, <2>2, Continued
  <1>9. \A timeout \in BOOLEAN :
           /\ [t EXCEPT !.timedOut = timeout] \in Try /\ [t EXCEPT !.timedOut = timeout].sends = t.sends
           /\ [t EXCEPT !.timedOut = timeout].attempt = t.attempt
    BY <1>1 DEF Try
  <1>10. CASE CountDomains(r) \/ ChooseVictims(r) \/ Enforced(r) \/ Drop(r)
    BY <1>3, <1>4, <1>10 DEF Drop
  <1>11. CASE SendTimesOut(r) \/ SendFails(r) \/ SendSucceeds(r) \/ SendForbidden(r)
              \/ SendRateLimited(r) \/ SendServerError(r) \/ SendRefused(r)
    <2>1. CASE SendTimesOut(r)
      <3>1. CASE t.attempt >= MaxRetries
        BY <1>3, <2>1, <3>1 DEF SendTimesOut
      <3>2. CASE t.attempt < MaxRetries
        BY <1>1, <1>5, <2>1, <3>2 DEF SendTimesOut
      <3> QED
        BY <1>1, <3>1, <3>2
    <2>2. CASE SendForbidden(r)
      BY <1>3, <1>6, <2>2 DEF SendForbidden
    <2>3. CASE SendRateLimited(r)
      BY <1>7, <2>3 DEF SendRateLimited
    <2>4. CASE SendServerError(r)
      BY <1>3, <1>7, <2>4 DEF SendServerError
    <2> QED
      BY <1>3, <1>11, <2>1, <2>2, <2>3, <2>4 DEF SendFails, SendSucceeds, SendRefused
  <1>12. CASE RetrySucceeds(r) \/ RetryAnswered(r) \/ RetryFails(r) \/ RetriesExhausted(r)
    <2>1. CASE RetryAnswered(r)
      BY <1>1, <1>3, <1>8, <2>1 DEF RetryAnswered, Retrying
    <2>2. CASE RetryFails(r)
      BY <1>8, <1>9, <2>2 DEF RetryFails, Retrying
    <2> QED
      BY <1>3, <1>12, <2>1, <2>2 DEF RetrySucceeds, RetriesExhausted
  <1> QED
    BY <1>10, <1>11, <1>12 DEF Moves

-----------------------------------------------------------------------------
(* The steps that touch the pool, and what they do to a ban. *)

\* The slot i of d is still out, or its domain is gone, or a success has healed it.
Holds(d, i) ==
    \/ d \in Tracked' /\ ~Available(pool[d].states[i])'
    \/ clock' >= pool[d].states[i].next_retry_time

BannedOut ==
    \A d \in Domains, i \in Slots : Barred(d, i) => Holds(d, i)

\* A step that leaves every entry but d's, and the clock, alone.
LEMMA OthersHold ==
    ASSUME PoolOK, NEW d \in Domains, Tracked \subseteq Tracked' \cup {d}, clock' = clock,
           \A x \in Tracked \ {d} : pool'[x] = pool[x],
           NEW e \in Domains \ {d}, NEW i \in Slots, Barred(e, i)
    PROVE  Holds(e, i)
  <1>1. e \in Tracked' /\ pool'[e] = pool[e] /\ ~(clock >= pool[e].states[i].next_retry_time)
        /\ pool[e].states[i].status = "Banned"
    <2>1. e \in Tracked /\ pool[e] \in Entry /\ clock \in Nat
      BY DEF Barred, PoolOK, EntryOK
    <2>2. pool[e].states[i].next_retry_time \in Nat
      BY <2>1 DEF Entry, Session
    <2> QED
      BY <2>1, <2>2 DEF Barred
  <1> QED
    BY <1>1 DEF Holds, Available

LEMMA AcquireOK ==
    ASSUME PoolOK, NEW d \in Domains, NEW found, Acquire(d, found)
    PROVE  PoolOK' /\ BannedOut /\ found \in Slots \cup {-1}
  <1> DEFINE old == IF d \in Tracked THEN pool[d].states ELSE [i \in Slots |-> Healthy]
             seen == IF d \in Tracked THEN pool[d].last_seen ELSE clock
             e == [states |-> EvictExpired(old), last_seen |-> clock]
  <1>1. old \in [Slots -> Session] /\ seen \in Nat /\ seen <= clock /\ clock \in Nat
        /\ \A i \in Slots : SessionOK(old[i], seen)
    <2>1. CASE d \in Tracked
      BY <2>1 DEF PoolOK, EntryOK, Entry
    <2>2. CASE d \notin Tracked
      <3>1. Healthy \in Session
        BY DEF Healthy, Session
      <3> QED
        BY <2>2, <3>1, HealthyOK DEF PoolOK
    <2> QED
      BY <2>1, <2>2
  <1> HIDE DEF old, seen
  <1>2. /\ EvictExpired(old) \in [Slots -> Session]
        /\ \A i \in Slots : SessionOK(EvictExpired(old)[i], seen)
        /\ \A i \in Slots : clock < old[i].next_retry_time => EvictExpired(old)[i] = old[i]
    BY <1>1, EvictExpiredOK
  <1>3. e \in Entry /\ e.states = EvictExpired(old) /\ e.last_seen = clock
    BY <1>1, <1>2 DEF Entry
  <1>4. \A i \in Slots : SessionOK(EvictExpired(old)[i], clock)
    <2> SUFFICES ASSUME NEW i \in Slots PROVE SessionOK(EvictExpired(old)[i], clock)
      OBVIOUS
    <2>1. SessionOK(EvictExpired(old)[i], seen)
      BY <1>2
    <2>2. EvictExpired(old)[i].last_failure_time \in Nat
      BY <1>2 DEF Session
    <2> QED
      BY <1>1, <2>1, <2>2 DEF SessionOK
  <1>5. EntryOK(e)
    BY <1>1, <1>3, <1>4 DEF EntryOK
  <1>6. Put(d, e) /\ clock' = clock /\ found \in Slots \cup {-1}
    BY DEF Acquire, old
  <1> HIDE DEF e
  <1>7. /\ PoolOK' /\ Tracked' = Tracked \cup {d} /\ pool'[d] = e
        /\ \A x \in Tracked \ {d} : pool'[x] = pool[x]
    BY <1>5, <1>6, PutOK
  <1>8. ASSUME NEW i \in Slots, Barred(d, i) PROVE Holds(d, i)
    <2>1. d \in Tracked /\ old = pool[d].states
      BY <1>8 DEF Barred, old
    <2>2. old[i].next_retry_time \in Nat
      BY <1>1 DEF Session
    <2>3. e.states[i] = old[i] /\ old[i].status = "Banned" /\ ~(clock >= old[i].next_retry_time)
      BY <1>1, <1>2, <1>3, <1>8, <2>1, <2>2 DEF Barred
    <2> QED
      BY <1>6, <1>7, <2>3 DEF Holds, Available
  <1>9. \A x \in Domains \ {d}, i \in Slots : Barred(x, i) => Holds(x, i)
    BY <1>6, <1>7, OthersHold
  <1> QED
    BY <1>6, <1>7, <1>8, <1>9 DEF BannedOut

\* Nothing happens to any entry, and no time passes.
LEMMA StillHolds ==
    ASSUME PoolOK, UNCHANGED <<clock, pool>> PROVE PoolOK' /\ BannedOut
  <1>1. PoolOK'
    BY DEF PoolOK, EntryOK, Tracked
  <1>2. ASSUME NEW d \in Domains, NEW i \in Slots, Barred(d, i) PROVE Holds(d, i)
    <2>1. d \in Tracked /\ pool[d] \in Entry /\ clock \in Nat
      BY <1>2 DEF Barred, PoolOK, EntryOK
    <2>2. pool[d].states[i].next_retry_time \in Nat
      BY <2>1 DEF Entry, Session
    <2> QED
      BY <1>2, <2>1, <2>2 DEF Barred, Holds, Available, Tracked
  <1> QED
    BY <1>1, <1>2 DEF BannedOut

\* One slot of a tracked domain becomes t.
LEMMA SlotOK ==
    ASSUME PoolOK, NEW d \in Domains, d \in Tracked, NEW slot \in Slots, NEW t, SessionOK(t, clock),
           clock' = clock,
           Put(d, [states |-> [pool[d].states EXCEPT ![slot] = t], last_seen |-> clock])
    PROVE  /\ PoolOK'
           /\ \A e \in Domains, i \in Slots :
                 Barred(e, i) /\ (e = d /\ i = slot => ~Available(t)) => Holds(e, i)
  <1> DEFINE states == [pool[d].states EXCEPT ![slot] = t]
             e0 == [states |-> states, last_seen |-> clock]
  <1>1. /\ pool[d].states \in [Slots -> Session] /\ pool[d].last_seen \in Nat /\ clock \in Nat
        /\ pool[d].last_seen <= clock /\ \A i \in Slots : SessionOK(pool[d].states[i], pool[d].last_seen)
    BY DEF PoolOK, EntryOK, Entry
  <1>2. t \in Session
    BY DEF SessionOK
  <1>3. /\ states \in [Slots -> Session] /\ states[slot] = t
        /\ \A i \in Slots \ {slot} : states[i] = pool[d].states[i]
    BY <1>1, <1>2
  <1> HIDE DEF states
  <1>4. \A i \in Slots : SessionOK(states[i], clock)
    <2> SUFFICES ASSUME NEW i \in Slots \ {slot} PROVE SessionOK(pool[d].states[i], clock)
      BY <1>3
    <2>1. SessionOK(pool[d].states[i], pool[d].last_seen)
      BY <1>1
    <2>2. pool[d].states[i].last_failure_time \in Nat
      BY <1>1 DEF Session
    <2> QED
      BY <1>1, <2>1, <2>2 DEF SessionOK
  <1>5. e0 \in Entry /\ e0.states = states /\ e0.last_seen = clock
    BY <1>1, <1>3 DEF Entry
  <1>6. EntryOK(e0)
    BY <1>1, <1>4, <1>5 DEF EntryOK
  <1>7. Put(d, e0)
    BY DEF states
  <1> HIDE DEF e0
  <1>8. /\ PoolOK' /\ Tracked' = Tracked \cup {d} /\ pool'[d] = e0
        /\ \A x \in Tracked \ {d} : pool'[x] = pool[x]
    BY <1>6, <1>7, PutOK
  <1>9. ASSUME NEW e \in Domains \ {d}, NEW i \in Slots, Barred(e, i) PROVE Holds(e, i)
    BY <1>8, <1>9, OthersHold
  <1>10. ASSUME NEW i \in Slots \ {slot}, Barred(d, i) PROVE Holds(d, i)
    <2>1. pool'[d].states[i] = pool[d].states[i] /\ d \in Tracked'
      BY <1>3, <1>5, <1>8
    <2>2. pool[d].states[i].next_retry_time \in Nat
      BY <1>1 DEF Session
    <2> QED
      BY <1>1, <1>10, <2>1, <2>2 DEF Barred, Holds, Available
  <1>11. ~Available(t) => Holds(d, slot)
    BY <1>3, <1>5, <1>8 DEF Holds, Available
  <1> QED
    BY <1>8, <1>9, <1>10, <1>11

\* A domain goes.
LEMMA RemoveOK ==
    ASSUME PoolOK, NEW d \in Domains, clock' = clock, pool' = [x \in Tracked \ {d} |-> pool[x]]
    PROVE  PoolOK' /\ \A e \in Domains \ {d}, i \in Slots : Barred(e, i) => Holds(e, i)
  <1>1. Tracked' = Tracked \ {d} /\ \A x \in Tracked \ {d} : pool'[x] = pool[x]
    BY DEF Tracked
  <1>2. PoolOK'
    BY <1>1 DEF PoolOK, EntryOK
  <1>3. ASSUME NEW e \in Domains \ {d}, NEW i \in Slots, Barred(e, i) PROVE Holds(e, i)
    BY <1>1, <1>3, OthersHold
  <1> QED
    BY <1>2, <1>3

\* A sweep heals or removes only what has been idle for the whole TTL.
LEMMA SweepOK == ASSUME PoolOK, NEW d \in Domains, EvictStale(d) PROVE PoolOK' /\ BannedOut
  <1>1. d \in Tracked /\ clock' = clock
    BY DEF EvictStale
  <1>2. /\ pool[d].states \in [Slots -> Session] /\ pool[d].last_seen \in Nat /\ clock \in Nat
        /\ pool[d].last_seen <= clock /\ pool[d] \in Entry
        /\ \A i \in Slots : SessionOK(pool[d].states[i], pool[d].last_seen)
    BY <1>1 DEF PoolOK, EntryOK, Entry
  <1>3. CASE clock - pool[d].last_seen > Ttl
    <2>1. pool' = [x \in Tracked \ {d} |-> pool[x]]
      BY <1>3 DEF EvictStale
    <2>2. PoolOK' /\ \A e \in Domains \ {d}, i \in Slots : Barred(e, i) => Holds(e, i)
      BY <1>1, <2>1, RemoveOK
    <2>3. ASSUME NEW i \in Slots PROVE ~Barred(d, i)
      <3>1. /\ pool[d].states[i].last_failure_time \in Nat /\ pool[d].states[i].next_retry_time \in Nat
            /\ SessionOK(pool[d].states[i], pool[d].last_seen)
        BY <1>2 DEF Session
      <3>2. pool[d].states[i].next_retry_time <= pool[d].last_seen + MaxCooldown
        BY <1>2, <3>1, CooldownNat DEF SessionOK
      <3> QED
        BY <1>2, <1>3, <3>1, <3>2, CooldownNat DEF Barred
    <2> QED
      BY <2>2, <2>3 DEF BannedOut
  <1>4. CASE ~(clock - pool[d].last_seen > Ttl)
    <2> DEFINE healed == EvictExpired(pool[d].states)
               e0 == [pool[d] EXCEPT !.states = healed]
    <2>1. Put(d, e0)
      BY <1>4 DEF EvictStale
    <2>2. /\ healed \in [Slots -> Session]
          /\ \A i \in Slots : SessionOK(healed[i], pool[d].last_seen)
          /\ \A i \in Slots : clock < pool[d].states[i].next_retry_time => healed[i] = pool[d].states[i]
      BY <1>2, EvictExpiredOK
    <2> HIDE DEF healed
    <2>3. e0 \in Entry /\ e0.states = healed /\ e0.last_seen = pool[d].last_seen
      BY <1>2, <2>2 DEF Entry
    <2>4. EntryOK(e0)
      BY <1>2, <2>2, <2>3 DEF EntryOK
    <2> HIDE DEF e0
    <2>5. /\ PoolOK' /\ Tracked' = Tracked \cup {d} /\ pool'[d] = e0
          /\ \A x \in Tracked \ {d} : pool'[x] = pool[x]
      BY <1>1, <2>1, <2>4, PutOK
    <2>6. ASSUME NEW i \in Slots, Barred(d, i) PROVE Holds(d, i)
      <3>1. pool[d].states[i].next_retry_time \in Nat
        BY <1>2 DEF Session
      <3>2. pool'[d].states[i] = pool[d].states[i]
        BY <2>2, <2>3, <2>5, <2>6 DEF Barred
      <3> QED
        BY <1>1, <1>2, <2>5, <2>6, <3>1, <3>2 DEF Barred, Holds, Available
    <2>7. ASSUME NEW e \in Domains \ {d}, NEW i \in Slots, Barred(e, i) PROVE Holds(e, i)
      BY <1>1, <2>5, <2>7, OthersHold
    <2> QED
      BY <2>5, <2>6, <2>7 DEF BannedOut
  <1> QED
    BY <1>3, <1>4

\* The clock advances: a ban stays out until its deadline.
LEMMA TickOK == ASSUME PoolOK, Tick PROVE PoolOK' /\ BannedOut
  <1>1. clock \in Nat /\ clock' = clock + 1 /\ pool' = pool
    BY DEF PoolOK, Tick
  <1>2. ASSUME NEW e, EntryOK(e) PROVE EntryOK(e)'
    <2>1. e \in Entry /\ e.last_seen \in Nat /\ e.last_seen <= clock
      BY <1>2 DEF EntryOK, Entry
    <2>2. e.last_seen <= clock'
      BY <1>1, <2>1
    <2> QED
      BY <1>2, <2>2 DEF EntryOK
  <1>3. PoolOK'
    BY <1>1, <1>2 DEF PoolOK, Tracked
  <1>4. ASSUME NEW d \in Domains, NEW i \in Slots, Barred(d, i) PROVE Holds(d, i)
    BY <1>1, <1>4 DEF Barred, Holds, Available, Tracked
  <1> QED
    BY <1>3, <1>4 DEF BannedOut

-----------------------------------------------------------------------------
(* The steps of the client. *)

\* What BanHolds says of a step.
BanStep ==
    \A d \in Domains, i \in Slots :
        Barred(d, i) =>
            \/ d \in Tracked' /\ ~Available(pool[d].states[i])'
            \/ clock' >= pool[d].states[i].next_retry_time
            \/ \E r \in Requests : /\ at[r] = "report" /\ at'[r] = "idle" /\ outcome[r] = 200
                                   /\ lease[r] = [domain |-> d, session |-> i]
            \/ \E r \in Requests : at[r] = "remove" /\ d \in evict[r].victims \ evict'[r].victims

LEMMA HoldsSuffices == BannedOut => BanStep
  BY DEF BannedOut, BanStep, Holds

LEMMA StaysEvicting == ASSUME Evicting, [Next]_vars PROVE Evicting'
  <1>1. ASSUME NEW r \in Requests, NEW d \in Domains, Get(r, d) PROVE Evicting'
    BY <1>1 DEF Get, Evicting
  <1>2. ASSUME NEW r \in Requests, Over(r) \/ AcquireReturns(r) PROVE Evicting'
    BY <1>2 DEF Over, AcquireReturns, Evicting, NoEviction
  <1>3. ASSUME NEW r \in Requests, Work(r) \/ Drop(r) PROVE Evicting'
    <2>1. CASE evict' = evict
      BY <2>1 DEF Evicting
    <2>2. CASE CountDomains(r) \/ ChooseVictims(r)
      BY <1>2, <2>2 DEF CountDomains, ChooseVictims, Evicting
    <2>3. CASE \E d \in Domains : RemoveVictim(r, d)
      BY <2>3 DEF RemoveVictim, Evicting
    <2>4. CASE Enforced(r) \/ ReportOutcome(r) \/ Drop(r)
      BY <1>2, <2>4 DEF Enforced, ReportOutcome, Drop
    <2>5. CASE \/ SendTimesOut(r) \/ SendFails(r) \/ SendSucceeds(r) \/ SendForbidden(r)
               \/ SendRateLimited(r) \/ SendServerError(r) \/ SendRefused(r)
      BY <2>1, <2>5 DEF SendTimesOut, SendFails, SendSucceeds, SendForbidden, SendRateLimited,
                        SendServerError, SendRefused, EntersRetry, Returns, Continues
    <2>6. CASE RetrySucceeds(r) \/ RetryAnswered(r) \/ RetryFails(r) \/ RetriesExhausted(r)
      BY <2>1, <2>6 DEF RetrySucceeds, RetryAnswered, RetryFails, RetriesExhausted, Returns, Continues
    <2> QED
      BY <1>3, <2>2, <2>3, <2>4, <2>5, <2>6 DEF Work
  <1>4. CASE Tick \/ (\E d \in Domains : Sweep(d)) \/ UNCHANGED vars
    BY <1>4 DEF Tick, Sweep, requests, vars, Evicting
  <1> QED
    BY <1>1, <1>3, <1>4 DEF Next

LEMMA GetStep ==
    ASSUME Inv, NEW r \in Requests, NEW d \in Domains, Get(r, d) PROVE Inv' /\ BanStep
  <1>1. PICK found \in Slots \cup {-1} :
            Acquire(d, found) /\ lease' = [lease EXCEPT ![r] = [domain |-> d, session |-> found]]
    BY DEF Get
  <1>2. PoolOK' /\ BannedOut
    BY <1>1, AcquireOK DEF Inv
  <1>3. [domain |-> d, session |-> found] \in Lease
    BY DEF Lease
  <1>4. at' = [at EXCEPT ![r] = "count"] /\ at[r] = "idle" /\ try' = try
    BY DEF Get
  <1>5. Leased'
    BY <1>1, <1>3, <1>4 DEF Inv, Leased, Places
  <1>6. try' = [try EXCEPT ![r] = FirstTry]
    BY <1>4 DEF Inv, Budget
  <1>7. Budget'
    BY <1>4, <1>6, Resets DEF Inv, Places
  <1> QED
    BY <1>2, <1>5, <1>7, HoldsSuffices, StaysEvicting DEF Inv, Next

LEMMA MovesStep == ASSUME Inv, NEW r \in Requests, Moves(r) PROVE Inv' /\ BanStep
  <1>1. UNCHANGED <<clock, pool>>
    BY MovesShape
  <1>2. Evicting'
    BY StaysEvicting DEF Inv, Next, Moves, Work
  <1> QED
    BY <1>1, <1>2, StillHolds, MovesLeased, MovesBudget, HoldsSuffices DEF Inv

LEMMA RemoveVictimStep ==
    ASSUME Inv, NEW r \in Requests, NEW d \in Domains, RemoveVictim(r, d)
    PROVE  Inv' /\ BanStep
  <1>1. /\ at[r] = "remove" /\ d \in evict[r].victims /\ UNCHANGED <<at, lease, try, clock>>
        /\ pool' = [x \in Tracked \ {d} |-> pool[x]]
    BY DEF RemoveVictim, Remove
  <1>2. d \notin evict'[r].victims
    BY DEF RemoveVictim, Inv, Evicting
  <1>3. PoolOK' /\ \A e \in Domains \ {d}, i \in Slots : Barred(e, i) => Holds(e, i)
    BY <1>1, RemoveOK DEF Inv
  <1>4. Leased' /\ Budget'
    BY <1>1 DEF Inv, Leased, Budget
  <1>5. ASSUME NEW e \in Domains, NEW i \in Slots, Barred(e, i)
        PROVE  Holds(e, i) \/ \E q \in Requests : at[q] = "remove" /\ e \in evict[q].victims \ evict'[q].victims
    BY <1>1, <1>2, <1>3, <1>5
  <1>6. Evicting'
    BY StaysEvicting DEF Inv, Next, Work
  <1> QED
    BY <1>6, <1>3, <1>4, <1>5 DEF Inv, BanStep, Holds

LEMMA OverOK == ASSUME Inv, NEW r \in Requests, Over(r) PROVE Leased' /\ Budget'
  <1>1. Leased'
    BY DEF Inv, Leased, Over, Places
  <1>2. Budget'
    BY Resets DEF Inv, Over, Places
  <1> QED
    BY <1>1, <1>2

LEMMA ReportStep ==
    ASSUME Inv, NEW r \in Requests, ReportOutcome(r)
    PROVE  Inv' /\ BanStep
  <1> DEFINE d == lease[r].domain
             slot == lease[r].session
  <1>1. at[r] = "report" /\ Over(r) /\ at'[r] = "idle"
    BY DEF ReportOutcome, Over, Inv, Leased
  <1>2. lease[r] \in Lease /\ d \in Domains /\ slot \in Slots /\ lease[r] = [domain |-> d, session |-> slot]
    BY <1>1 DEF Inv, Leased, Lease
  <1>3. Leased' /\ Budget' /\ Evicting'
    <2>1. Evicting'
      BY StaysEvicting DEF Inv, Next, Work
    <2> QED
      BY <1>1, <2>1, OverOK
  <1>4. CASE outcome[r] = 200
    <2>1. ReportSuccess(d, slot)
      BY <1>4 DEF ReportOutcome
    <2>2. CASE d \in Tracked
      <3>1. /\ Put(d, [states |-> [pool[d].states EXCEPT ![slot] = Healthy], last_seen |-> clock])
            /\ clock' = clock /\ clock \in Nat
        BY <2>1, <2>2 DEF ReportSuccess, Inv, PoolOK
      <3>2. SessionOK(Healthy, clock)
        BY <3>1, HealthyOK
      <3>3. PoolOK' /\ \A e \in Domains, i \in Slots :
                Barred(e, i) /\ (e = d /\ i = slot => ~Available(Healthy)) => Holds(e, i)
        BY <1>2, <2>2, <3>1, <3>2, SlotOK, SMTT(30) DEF Inv
      <3>4. ASSUME NEW e \in Domains, NEW i \in Slots, Barred(e, i)
            PROVE  \/ Holds(e, i)
                   \/ \E q \in Requests : /\ at[q] = "report" /\ at'[q] = "idle" /\ outcome[q] = 200
                                          /\ lease[q] = [domain |-> e, session |-> i]
        BY <1>1, <1>2, <1>4, <3>3, <3>4
      <3> QED
        BY <1>3, <3>3, <3>4 DEF Inv, BanStep, Holds
    <2>3. CASE d \notin Tracked
      <3>1. UNCHANGED <<clock, pool>>
        BY <2>1, <2>3 DEF ReportSuccess
      <3> QED
        BY <1>3, <3>1, StillHolds, HoldsSuffices DEF Inv
    <2> QED
      BY <2>2, <2>3
  <1>5. CASE outcome[r] = 0
    <2>1. UNCHANGED <<clock, pool>>
      BY <1>5 DEF ReportOutcome
    <2> QED
      BY <1>3, <2>1, StillHolds, HoldsSuffices DEF Inv
  <1>6. CASE outcome[r] \notin {0, 200}
    <2>1. ReportFailure(d, slot, outcome[r])
      BY <1>6 DEF ReportOutcome
    <2>2. CASE d \in Tracked
      <3>1. /\ SessionOK(pool[d].states[slot], pool[d].last_seen) /\ pool[d].states[slot] \in Session
            /\ pool[d].last_seen \in Nat /\ pool[d].last_seen <= clock
        BY <1>2, <2>2 DEF Inv, PoolOK, EntryOK, Entry
      <3>2. PICK t \in IF outcome[r] \in {429, 503, 403} THEN Bans(pool[d].states[slot], slot)
                                                          ELSE {Counted(pool[d].states[slot])} :
                Put(d, [states |-> [pool[d].states EXCEPT ![slot] = t], last_seen |-> clock])
        BY <2>1, <2>2, ZenonT(60) DEF ReportFailure
      <3>3. clock' = clock
        BY <2>1 DEF ReportFailure
      <3>4. SessionOK(t, clock) /\ (Barred(d, slot) => ~Available(t))
        <4>1. CASE outcome[r] \in {429, 503, 403}
          BY <1>2, <3>1, <3>2, <4>1, BansOK DEF Inv
        <4>2. CASE outcome[r] \notin {429, 503, 403}
          <5>1. t = Counted(pool[d].states[slot])
            BY <3>2, <4>2, ZenonT(60)
          <5>2. PoolOK /\ clock \in Nat
            BY DEF Inv, PoolOK
          <5>3. /\ SessionOK(Counted(pool[d].states[slot]), clock)
                /\ (pool[d].states[slot].status = "Banned" /\ ~Available(pool[d].states[slot])
                        => ~Available(Counted(pool[d].states[slot])))
            <6> DEFINE s == pool[d].states[slot]
            <6>1. SessionOK(s, pool[d].last_seen) /\ pool[d].last_seen \in Nat /\ pool[d].last_seen <= clock
              BY <3>1
            <6> HIDE DEF s
            <6>2. SessionOK(Counted(s), clock) /\ (s.status = "Banned" /\ ~Available(s) => ~Available(Counted(s)))
              BY <5>2, <6>1, CountedOK
            <6> QED
              BY <6>2 DEF s
          <5>4. pool[d].states[slot].next_retry_time \in Nat
            BY <3>1 DEF Session
          <5>5. Barred(d, slot) =>
                    pool[d].states[slot].status = "Banned" /\ ~Available(pool[d].states[slot])
            BY <5>2, <5>4 DEF Barred, Available
          <5> QED
            BY <5>1, <5>3, <5>5
        <4> QED
          BY <4>1, <4>2
      <3>5. PoolOK' /\ \A e \in Domains, i \in Slots :
                Barred(e, i) /\ (e = d /\ i = slot => ~Available(t)) => Holds(e, i)
        BY <1>2, <2>2, <3>2, <3>3, <3>4, SlotOK DEF Inv
      <3>6. BannedOut
        BY <3>4, <3>5 DEF BannedOut
      <3> QED
        BY <1>3, <3>5, <3>6, HoldsSuffices DEF Inv
    <2>3. CASE d \notin Tracked
      <3>1. UNCHANGED <<clock, pool>>
        BY <2>1, <2>3 DEF ReportFailure
      <3> QED
        BY <1>3, <3>1, StillHolds, HoldsSuffices DEF Inv
    <2> QED
      BY <2>2, <2>3
  <1> QED
    BY <1>4, <1>5, <1>6

-----------------------------------------------------------------------------
(* The specification. *)

LEMMA InitInv == Init => Inv
  <1> SUFFICES ASSUME Init PROVE Inv
    OBVIOUS
  <1>1. PoolOK
    BY DEF Init, PoolInit, PoolOK, Tracked
  <1>2. FirstTry \in Try
    BY ClientAssumption DEF Try, FirstTry
  <1>3. Leased /\ Budget /\ Evicting
    BY <1>2 DEF Init, Leased, Places, Budget, Evicting, NoEviction
  <1> QED
    BY <1>1, <1>3 DEF Inv

LEMMA InvStep == Inv /\ [Next]_vars => Inv' /\ BanStep
  <1> SUFFICES ASSUME Inv, [Next]_vars PROVE Inv' /\ BanStep
    OBVIOUS
  <1>1. ASSUME NEW r \in Requests, NEW d \in Domains, Get(r, d) PROVE Inv' /\ BanStep
    BY <1>1, GetStep
  <1>2. ASSUME NEW r \in Requests, Work(r) \/ Drop(r) PROVE Inv' /\ BanStep
    BY <1>2, MovesStep, RemoveVictimStep, ReportStep DEF Work, Moves
  <1>3. CASE Tick \/ \E d \in Domains : Sweep(d)
    <2>1. PoolOK' /\ BannedOut /\ UNCHANGED requests
      BY <1>3, TickOK, SweepOK DEF Sweep, Tick, Inv
    <2>2. Leased' /\ Budget' /\ Evicting'
      BY <2>1 DEF requests, Inv, Leased, Budget, Evicting
    <2> QED
      BY <2>1, <2>2, HoldsSuffices DEF Inv
  <1>4. CASE UNCHANGED vars
    <2>1. PoolOK' /\ BannedOut
      BY <1>4, StillHolds DEF vars, Inv
    <2>2. Leased' /\ Budget' /\ Evicting'
      BY <1>4 DEF vars, Inv, Leased, Budget, Evicting
    <2> QED
      BY <2>1, <2>2, HoldsSuffices DEF Inv
  <1> QED
    BY <1>1, <1>2, <1>3, <1>4 DEF Next

\* The pool, the leases and the budgets are as Inv says, whoever overlaps whom.
THEOREM Invariance == Spec => []Inv
  <1>1. Inv /\ [Next]_vars => Inv'
    BY InvStep
  <1> QED
    BY <1>1, InitInv, PTL DEF Spec

\* What TypeOK says beyond Inv.
Typed ==
    /\ clock \in 1..MaxClock /\ pool \in [Tracked -> Entry]
    /\ evict \in [Requests -> [excess : Nat, victims : SUBSET Domains]]
    /\ outcome \in [Requests -> Statuses] /\ gets \in 0..MaxGets

LEMMA TypedSuffices == Inv /\ Typed => TypeOK
  BY DEF Inv, PoolOK, Leased, Places, Budget, Typed, TypeOK

\* Neither the pool nor the clock moves.
LEMMA QuietTyped ==
    ASSUME Typed, UNCHANGED <<clock, pool>>, gets' \in 0..MaxGets,
           evict' \in [Requests -> [excess : Nat, victims : SUBSET Domains]],
           outcome' \in [Requests -> Statuses]
    PROVE  Typed'
  BY DEF Typed, Tracked

LEMMA PutTyped ==
    ASSUME Inv', NEW d \in Domains, NEW e, Put(d, e) PROVE pool' \in [Tracked' -> Entry]
  <1>1. pool' = [x \in Tracked' |-> pool'[x]]
    BY DEF Put, Tracked
  <1>2. \A x \in Tracked' : pool'[x] \in Entry
    BY DEF Inv, PoolOK, EntryOK
  <1> QED
    BY <1>1, <1>2

LEMMA RemoveTyped ==
    ASSUME pool \in [Tracked -> Entry], NEW d, pool' = [x \in Tracked \ {d} |-> pool[x]]
    PROVE  pool' \in [Tracked' -> Entry]
  BY DEF Tracked

LEMMA MovesTyped == ASSUME Inv, Typed, NEW r \in Requests, Moves(r) PROVE Typed'
  <1>1. UNCHANGED <<clock, pool>>
    BY MovesShape
  <1>2. gets' \in 0..MaxGets
    <2>1. gets' = gets
      BY ZenonT(60) DEF Moves, CountDomains, ChooseVictims, Enforced, Drop, AcquireReturns, Over, SendTimesOut,
             SendFails, SendSucceeds, SendForbidden, SendRateLimited, SendServerError, SendRefused,
             RetrySucceeds, RetryAnswered, RetryFails, RetriesExhausted, EntersRetry, Returns, Continues
    <2> QED
      BY <2>1 DEF Typed
  <1>3. ASSUME Over(r) \/ AcquireReturns(r)
        PROVE  /\ evict' \in [Requests -> [excess : Nat, victims : SUBSET Domains]]
               /\ outcome' \in [Requests -> Statuses]
    <2>1. NoEviction \in [excess : Nat, victims : SUBSET Domains] /\ 0 \in Statuses
      BY DEF NoEviction, Statuses
    <2> QED
      BY <1>3, <2>1 DEF Over, AcquireReturns, Typed
  <1>4. ASSUME NEW status \in Statuses, Returns(r, status)
        PROVE  evict' = evict /\ outcome' \in [Requests -> Statuses]
    BY <1>4 DEF Returns, Typed
  <1>5. CASE CountDomains(r)
    <2>1. IsFiniteSet(Tracked)
      BY PoolAssumption, FS_Subset DEF Inv, PoolOK
    <2>2. Cardinality(Tracked) \in Nat
      BY <2>1, FS_CardinalityType
    <2>3. Excess \in Int
      BY <2>2, PoolAssumption DEF Excess
    <2>4. CASE Excess <= 0
      BY <1>1, <1>2, <1>3, <1>5, <2>4, QuietTyped DEF CountDomains
    <2>5. CASE ~(Excess <= 0)
      <3>1. evict' = [evict EXCEPT ![r].excess = Excess] /\ Excess \in Nat /\ outcome' = outcome
        BY <1>5, <2>3, <2>5 DEF CountDomains
      <3> HIDE DEF Excess
      <3>2. evict' \in [Requests -> [excess : Nat, victims : SUBSET Domains]]
        BY <3>1 DEF Typed
      <3> QED
        BY <1>1, <1>2, <3>1, <3>2, QuietTyped DEF Typed
    <2> QED
      BY <2>4, <2>5
  <1>6. CASE ChooseVictims(r)
    <2>1. PICK victims \in SUBSET Domains : evict' = [evict EXCEPT ![r].victims = victims]
      BY <1>6 DEF ChooseVictims, LeastRecentlySeen, Inv, PoolOK
    <2>2. evict' \in [Requests -> [excess : Nat, victims : SUBSET Domains]]
      BY <2>1 DEF Typed
    <2> QED
      BY <1>1, <1>2, <1>6, <2>2, QuietTyped DEF ChooseVictims, Typed
  <1>7. CASE Enforced(r) \/ Drop(r)
    BY <1>1, <1>2, <1>3, <1>7, QuietTyped DEF Enforced, Drop
  <1>8. CASE \E status \in Statuses : Returns(r, status)
    BY <1>1, <1>2, <1>4, <1>8, QuietTyped DEF Typed
  <1>9. CASE evict' = evict /\ outcome' = outcome
    BY <1>1, <1>2, <1>9, QuietTyped DEF Typed
  <1>10. \A code \in Codes : Reported(code) \in Statuses
    BY DEF Codes, Reported, Statuses
  <1>11. CASE SendTimesOut(r) \/ SendFails(r) \/ SendSucceeds(r) \/ SendForbidden(r)
              \/ SendRateLimited(r) \/ SendServerError(r)
    <2>1. {504, 503, 0, 200, 403} \subseteq Statuses
      BY DEF Statuses, Codes
    <2> QED
      BY <1>8, <1>9, <1>11, <2>1 DEF SendTimesOut, SendFails, SendSucceeds, SendForbidden, SendRateLimited,
            SendServerError, EntersRetry, Continues
  <1>12. CASE SendRefused(r) \/ RetrySucceeds(r) \/ RetryAnswered(r) \/ RetryFails(r)
    <2>1. {200, 0} \subseteq Statuses /\ {400, 404} \subseteq Codes
      BY DEF Statuses, Codes
    <2> QED
      BY <1>8, <1>9, <1>10, <1>12, <2>1, ZenonT(60) DEF SendRefused, RetrySucceeds, RetryAnswered, RetryFails, Continues
  <1>13. CASE RetriesExhausted(r)
    <2>1. try[r].policy \in Statuses /\ 504 \in Statuses
      BY TryIs DEF Inv, Statuses, Codes
    <2> QED
      BY <1>8, <1>13, <2>1 DEF RetriesExhausted
  <1> QED
    BY <1>5, <1>6, <1>7, <1>11, <1>12, <1>13 DEF Moves

LEMMA TypedStep == ASSUME Inv, Inv', Typed, [Next]_vars PROVE Typed'
  <1>1. ASSUME NEW r \in Requests, NEW d \in Domains, Get(r, d) PROVE Typed'
    <2>1. PICK found, e : Put(d, e) /\ Acquire(d, found)
      BY <1>1 DEF Get, Acquire
    <2>2. pool' \in [Tracked' -> Entry] /\ clock' = clock
      BY <2>1, PutTyped DEF Acquire
    <2>3. gets' \in 0..MaxGets /\ evict' = evict /\ outcome' = outcome
      BY <1>1, ClientAssumption DEF Get, Typed
    <2> QED
      BY <2>2, <2>3 DEF Typed
  <1>2. ASSUME NEW r \in Requests, NEW d \in Domains, RemoveVictim(r, d) PROVE Typed'
    <2>1. pool' \in [Tracked' -> Entry] /\ clock' = clock
      BY <1>2, RemoveTyped DEF RemoveVictim, Remove, Typed
    <2>2. evict' \in [Requests -> [excess : Nat, victims : SUBSET Domains]]
      BY <1>2 DEF RemoveVictim, Typed
    <2> QED
      BY <1>2, <2>1, <2>2 DEF RemoveVictim, Typed
  <1>3. ASSUME NEW r \in Requests, ReportOutcome(r) PROVE Typed'
    <2>1. lease[r].domain \in Domains
      BY <1>3 DEF ReportOutcome, Inv, Leased, Lease
    <2>2. clock' = clock /\ (pool' = pool \/ \E e : Put(lease[r].domain, e))
      <3>1. CASE outcome[r] = 200
        <4>1. ReportSuccess(lease[r].domain, lease[r].session)
          BY <1>3, <3>1 DEF ReportOutcome
        <4> QED
          BY <4>1 DEF ReportSuccess
      <3>2. CASE outcome[r] = 0
        BY <1>3, <3>2 DEF ReportOutcome
      <3>3. CASE outcome[r] \notin {0, 200}
        <4>1. ReportFailure(lease[r].domain, lease[r].session, outcome[r])
          BY <1>3, <3>3 DEF ReportOutcome
        <4>2. clock' = clock
          BY <4>1 DEF ReportFailure
        <4>3. CASE lease[r].domain \in Tracked
          <5>1. \E t : Put(lease[r].domain,
                           [states |-> [pool[lease[r].domain].states EXCEPT ![lease[r].session] = t],
                            last_seen |-> clock])
            BY <4>1, <4>3, ZenonT(60) DEF ReportFailure
          <5> QED
            BY <4>2, <5>1
        <4>4. CASE lease[r].domain \notin Tracked
          BY <4>1, <4>2, <4>4 DEF ReportFailure
        <4> QED
          BY <4>3, <4>4
      <3> QED
        BY <3>1, <3>2, <3>3
    <2>3. pool' \in [Tracked' -> Entry]
      <3>1. CASE pool' = pool
        BY <3>1 DEF Typed, Tracked
      <3>2. CASE \E e : Put(lease[r].domain, e)
        BY <2>1, <3>2, PutTyped
      <3> QED
        BY <2>2, <3>1, <3>2
    <2>4. NoEviction \in [excess : Nat, victims : SUBSET Domains] /\ 0 \in Statuses
      BY DEF NoEviction, Statuses
    <2>5. /\ evict' \in [Requests -> [excess : Nat, victims : SUBSET Domains]]
          /\ outcome' \in [Requests -> Statuses] /\ gets' = gets
      BY <1>3, <2>4 DEF ReportOutcome, Over, Typed
    <2> QED
      BY <2>2, <2>3, <2>5 DEF Typed
  <1>4. CASE Tick
    <2>1. clock' \in 1..MaxClock
      BY <1>4, ClientAssumption DEF Tick, Typed
    <2> QED
      BY <1>4, <2>1 DEF Tick, requests, Typed, Tracked
  <1>5. ASSUME NEW d \in Domains, Sweep(d) PROVE Typed'
    <2>1. clock' = clock /\ UNCHANGED requests
      BY <1>5 DEF Sweep, EvictStale
    <2>2. (\E e : Put(d, e)) \/ pool' = [x \in Tracked \ {d} |-> pool[x]]
      BY <1>5 DEF Sweep, EvictStale
    <2>3. pool' \in [Tracked' -> Entry]
      BY <2>2, PutTyped, RemoveTyped DEF Typed
    <2> QED
      BY <2>1, <2>3 DEF requests, Typed
  <1>6. CASE UNCHANGED vars
    BY <1>6 DEF vars, Typed, Tracked
  <1> QED
    BY <1>1, <1>2, <1>3, <1>4, <1>5, <1>6, MovesTyped DEF Next, Work, Moves

\* Every reachable state of the client and its pool is well typed, for any number of
\* domains, slots, requests and retries.
THEOREM TypeCorrect == Spec => []TypeOK
  <1>1. Init => Typed
    BY ClientAssumption DEF Init, PoolInit, Typed, Tracked, NoEviction, Statuses
  <1>2. Inv /\ Inv' /\ Typed /\ [Next]_vars => Typed'
    BY TypedStep
  <1> QED
    BY <1>1, <1>2, Invariance, TypedSuffices, PTL DEF Spec

\* For any number of domains, slots and requests a slot's deadline lies at most the
\* longest cooldown after its last failure, which lies in the past: no order of
\* reports, sweeps and evictions leaves a domain out of use for longer.
THEOREM CooldownStaysBounded == Spec => []CooldownBounded
  <1>1. Inv => CooldownBounded
    <2> SUFFICES ASSUME Inv, NEW d \in Tracked, NEW i \in Slots
                 PROVE  /\ pool[d].states[i].last_failure_time <= clock
                        /\ pool[d].states[i].next_retry_time
                             <= pool[d].states[i].last_failure_time + MaxCooldown
      BY DEF CooldownBounded
    <2>1. /\ pool[d] \in Entry /\ pool[d].last_seen <= clock /\ clock \in Nat
          /\ SessionOK(pool[d].states[i], pool[d].last_seen)
      BY DEF Inv, PoolOK, EntryOK
    <2>2. pool[d].last_seen \in Nat /\ pool[d].states[i].last_failure_time \in Nat
      BY <2>1 DEF Entry, Session
    <2> QED
      BY <2>1, <2>2 DEF SessionOK
  <1> QED
    BY <1>1, Invariance, PTL

\* For any number of domains, slots and requests, only a success on that very slot
\* or the eviction of the whole domain lifts a ban before its deadline.
THEOREM BansHold == Spec => BanHolds
  <1>1. Inv /\ [Next]_vars => BanStep
    BY InvStep
  <1> QED
    BY <1>1, Invariance, PTL DEF Spec, BanHolds, BanStep

\* For every retry budget, one get sends at most three budgets and two requests.
THEOREM SendsStayBounded == Spec => []SendsBounded
  <1>1. Inv => SendsBounded
    <2> SUFFICES ASSUME Inv, NEW r \in Requests PROVE try[r].sends <= 3 * MaxRetries + 2
      BY DEF SendsBounded
    <2>1. /\ try[r].ua \in {0, 1} /\ try[r].attempt \in 0..MaxRetries
          /\ try[r].sends \in Nat /\ MaxRetries \in Nat /\ FirstTry.sends = 0
      BY TryIs DEF Inv
    <2>2. /\ at[r] = "send" => try[r].sends <= try[r].ua * (MaxRetries + 1) + try[r].attempt
          /\ at[r] = "retry" => try[r].sends <= 2 * MaxRetries + 2 + try[r].attempt
          /\ at[r] \notin {"send", "retry"} => try[r] = FirstTry
      BY DEF Inv, Budget
    <2>3. CASE at[r] = "send"
      <3>1. CASE try[r].ua = 0
        BY <2>1, <2>2, <2>3, <3>1
      <3>2. CASE try[r].ua = 1
        BY <2>1, <2>2, <2>3, <3>2
      <3> QED
        BY <2>1, <3>1, <3>2
    <2>4. CASE at[r] = "retry"
      BY <2>1, <2>2, <2>4
    <2>5. CASE at[r] \notin {"send", "retry"}
      BY <2>1, <2>2, <2>5
    <2> QED
      BY <2>3, <2>4, <2>5
  <1> QED
    BY <1>1, Invariance, PTL

-----------------------------------------------------------------------------
(* The cap on tracked domains.  A request that has counted answers for every  *)
(* domain but those of the requests that came later; when it is done, these   *)
(* are still enforcing, or have answered for it.                              *)

Enforcers == { r \in Requests : at[r] \in {"count", "choose", "remove"} }

\* later[r]: who is enforcing now and began after r had counted.
Excused(later) ==
    /\ later \in [Requests -> SUBSET Requests]
    /\ \A r \in Requests :
          /\ at[r] \notin {"choose", "remove"} => later[r] = {}
          /\ later[r] \subseteq Enforcers \ {r}
          /\ \A q \in later[r] : later[q] \subseteq later[r]
          /\ at[r] = "choose" => Cardinality(Tracked) - evict[r].excess
                                   <= MaxTracked + Cardinality(later[r])
          /\ at[r] = "remove" => Cardinality(Tracked \ evict[r].victims)
                                   <= MaxTracked + Cardinality(later[r])

CapInv ==
    /\ IsFiniteSet(Enforcers) /\ MapBounded
    /\ \E later \in [Requests -> SUBSET Requests] : Excused(later)

\* Smaller sets of domains, and sets with one more.
LEMMA Sizes ==
    ASSUME NEW S, IsFiniteSet(S)
    PROVE  /\ Cardinality(S) \in Nat
           /\ \A R \in SUBSET S : /\ IsFiniteSet(R) /\ Cardinality(R) \in Nat
                                  /\ Cardinality(R) <= Cardinality(S)
           /\ \A x : /\ IsFiniteSet(S \cup {x})
                     /\ Cardinality(S \cup {x}) \in Nat
                     /\ Cardinality(S \cup {x}) <= Cardinality(S) + 1
                     /\ x \notin S => Cardinality(S \cup {x}) = Cardinality(S) + 1
  <1>1. \A R \in SUBSET S : IsFiniteSet(R) /\ Cardinality(R) <= Cardinality(S)
    BY FS_Subset
  <1>2. \A x : /\ IsFiniteSet(S \cup {x})
               /\ Cardinality(S \cup {x}) = IF x \in S THEN Cardinality(S) ELSE Cardinality(S) + 1
    BY FS_AddElement
  <1>3. ASSUME NEW R, IsFiniteSet(R) PROVE Cardinality(R) \in Nat
    BY <1>3, FS_CardinalityType
  <1>4. \A R \in SUBSET S : /\ IsFiniteSet(R) /\ Cardinality(R) \in Nat
                           /\ Cardinality(R) <= Cardinality(S)
    BY <1>1, <1>3
  <1>5. Cardinality(S) \in Nat
    BY <1>3
  <1>6. ASSUME NEW x
        PROVE  /\ IsFiniteSet(S \cup {x})
               /\ Cardinality(S \cup {x}) \in Nat
               /\ Cardinality(S \cup {x}) <= Cardinality(S) + 1
               /\ x \notin S => Cardinality(S \cup {x}) = Cardinality(S) + 1
    <2> DEFINE n == Cardinality(S)
               m == Cardinality(S \cup {x})
    <2>1. IsFiniteSet(S \cup {x}) /\ m = (IF x \in S THEN n ELSE n + 1) /\ n \in Nat
      BY <1>2, <1>5
    <2> HIDE DEF n, m
    <2>2. m \in Nat /\ m <= n + 1 /\ (x \notin S => m = n + 1)
      BY <2>1
    <2> QED
      BY <2>1, <2>2 DEF n, m
  <1> QED
    BY <1>4, <1>5, <1>6

LEMMA TrackedFinite == ASSUME TypeOK PROVE IsFiniteSet(Tracked) /\ MaxTracked \in Nat
  BY PoolAssumption, FS_Subset DEF TypeOK

\* A request begins: everyone who has counted may leave its domain to it.
LEMMA BeginsCap ==
    ASSUME TypeOK, CapInv, NEW r \in Requests, NEW d \in Domains, Get(r, d)
    PROVE  CapInv'
  <1>1. PICK later \in [Requests -> SUBSET Requests] : Excused(later)
    BY DEF CapInv
  <1>2. /\ at[r] = "idle" /\ at' = [at EXCEPT ![r] = "count"] /\ evict' = evict
        /\ Tracked' = Tracked \cup {d} /\ at \in [Requests -> Places]
    BY DEF Get, Acquire, Put, Tracked, TypeOK, Places
  <1>3. r \notin Enforcers /\ Enforcers' = Enforcers \cup {r}
    BY <1>2 DEF Enforcers, Places
  <1>4. /\ IsFiniteSet(Tracked) /\ IsFiniteSet(Enforcers) /\ MaxTracked \in Nat
        /\ Cardinality(Tracked) <= MaxTracked + Cardinality(Enforcers)
    BY TrackedFinite DEF CapInv, MapBounded, Enforcers
  <1>5. IsFiniteSet(Enforcers') /\ MapBounded'
    <2>1. /\ Cardinality(Tracked) \in Nat /\ Cardinality(Enforcers) \in Nat
          /\ Cardinality(Tracked') \in Nat /\ Cardinality(Tracked') <= Cardinality(Tracked) + 1
          /\ IsFiniteSet(Enforcers') /\ Cardinality(Enforcers') = Cardinality(Enforcers) + 1
      BY <1>2, <1>3, <1>4, Sizes
    <2>2. Cardinality(Tracked') <= MaxTracked + Cardinality(Enforcers')
      BY <1>4, <2>1
    <2> QED
      BY <2>1, <2>2 DEF MapBounded, Enforcers
  <1>6. PICK now \in [Requests -> SUBSET Requests] :
            now = [q \in Requests |->
                      IF at[q] \in {"choose", "remove"} THEN later[q] \cup {r} ELSE {}]
    BY <1>1
  <1>7. ASSUME NEW q \in Requests
        PROVE  /\ at'[q] \notin {"choose", "remove"} => now[q] = {}
               /\ now[q] \subseteq Enforcers' \ {q}
               /\ \A p \in now[q] : now[p] \subseteq now[q]
    <2>1. /\ later[q] \subseteq Enforcers \ {q} /\ later[q] \subseteq Requests
          /\ \A p \in later[q] : later[p] \subseteq later[q]
          /\ at[q] \notin {"choose", "remove"} => later[q] = {}
      BY <1>1 DEF Excused
    <2>2. now[r] = {} /\ (q = r => at[q] = "idle")
      BY <1>2, <1>6
    <2> QED
      BY <1>2, <1>3, <1>6, <2>1, <2>2
  <1>8. ASSUME NEW q \in Requests, at'[q] \in {"choose", "remove"}
        PROVE  /\ at'[q] = "choose" => Cardinality(Tracked') - evict'[q].excess
                                         <= MaxTracked + Cardinality(now[q])
               /\ at'[q] = "remove" => Cardinality(Tracked' \ evict'[q].victims)
                                         <= MaxTracked + Cardinality(now[q])
    <2>1. q # r /\ at'[q] = at[q] /\ evict'[q] = evict[q] /\ now[q] = later[q] \cup {r}
      BY <1>2, <1>6, <1>8
    <2>2. /\ later[q] \subseteq Enforcers /\ r \notin later[q]
          /\ at[q] = "choose" => Cardinality(Tracked) - evict[q].excess
                                   <= MaxTracked + Cardinality(later[q])
          /\ at[q] = "remove" => Cardinality(Tracked \ evict[q].victims)
                                   <= MaxTracked + Cardinality(later[q])
      BY <1>1, <1>3 DEF Excused
    <2>3. Cardinality(now[q]) = Cardinality(later[q]) + 1 /\ Cardinality(later[q]) \in Nat
      BY <1>4, <2>1, <2>2, Sizes
    <2>4. evict[q].excess \in Nat
      BY DEF TypeOK
    <2>5. /\ Cardinality(Tracked) \in Nat /\ Cardinality(Tracked') \in Nat
          /\ Cardinality(Tracked') <= Cardinality(Tracked) + 1
      BY <1>2, <1>4, Sizes
    <2>6. LET left == Tracked \ evict[q].victims
          IN  /\ Cardinality(left) \in Nat /\ Cardinality(Tracked' \ evict[q].victims) \in Nat
              /\ Cardinality(Tracked' \ evict[q].victims) <= Cardinality(left) + 1
      <3> DEFINE left == Tracked \ evict[q].victims
      <3>1. IsFiniteSet(left) /\ Tracked' \ evict[q].victims \in SUBSET (left \cup {d})
        BY <1>2, <1>4, Sizes
      <3> HIDE DEF left
      <3>2. /\ Cardinality(left) \in Nat /\ IsFiniteSet(left \cup {d})
            /\ Cardinality(left \cup {d}) \in Nat
            /\ Cardinality(left \cup {d}) <= Cardinality(left) + 1
        BY <3>1, Sizes
      <3>3. /\ Cardinality(Tracked' \ evict[q].victims) \in Nat
            /\ Cardinality(Tracked' \ evict[q].victims) <= Cardinality(left \cup {d})
        BY <3>1, <3>2, Sizes
      <3>4. Cardinality(Tracked' \ evict[q].victims) <= Cardinality(left) + 1
        BY <3>2, <3>3
      <3> QED
        BY <3>2, <3>3, <3>4 DEF left
    <2>7. CASE at[q] = "choose"
      BY <1>4, <2>1, <2>2, <2>3, <2>4, <2>5, <2>7
    <2>8. CASE at[q] = "remove"
      BY <1>4, <2>1, <2>2, <2>3, <2>6, <2>8
    <2> QED
      BY <1>8, <2>1, <2>7, <2>8
  <1>9. Excused(now)'
    BY <1>6, <1>7, <1>8 DEF Excused
  <1> QED
    BY <1>5, <1>6, <1>9 DEF CapInv

\* A request is through: fewer domains are left than those who came later answer for.
LEMMA LeavesCap ==
    ASSUME TypeOK, CapInv, NEW r \in Requests, Tracked' = Tracked, r \in Enforcers,
           at'[r] \notin {"count", "choose", "remove"}, at' \in [Requests -> Places],
           \A q \in Requests \ {r} : at'[q] = at[q] /\ evict'[q] = evict[q],
           NEW later \in [Requests -> SUBSET Requests], Excused(later),
           Cardinality(Tracked) <= MaxTracked + Cardinality(later[r])
    PROVE  CapInv'
  <1>1. Enforcers' = Enforcers \ {r} /\ at \in [Requests -> Places]
    BY DEF Enforcers, TypeOK, Places
  <1>2. IsFiniteSet(Tracked) /\ IsFiniteSet(Enforcers) /\ MaxTracked \in Nat
    BY TrackedFinite DEF CapInv
  <1>3. \A q \in Requests : /\ later[q] \subseteq Enforcers \ {q} /\ later[q] \subseteq Requests
                            /\ \A p \in later[q] : later[p] \subseteq later[q]
                            /\ at[q] \notin {"choose", "remove"} => later[q] = {}
    BY DEF Excused
  <1>4. Cardinality(Tracked) \in Nat /\ Cardinality(later[r]) \in Nat
    BY <1>2, <1>3, Sizes
  <1>5. IsFiniteSet(Enforcers') /\ MapBounded'
    <2>1. IsFiniteSet(Enforcers') /\ Enforcers' \in SUBSET Enforcers /\ later[r] \in SUBSET Enforcers'
      BY <1>1, <1>2, <1>3, Sizes
    <2>2. Cardinality(Enforcers') \in Nat /\ Cardinality(later[r]) <= Cardinality(Enforcers')
      BY <2>1, Sizes
    <2>3. Cardinality(Tracked') <= MaxTracked + Cardinality(Enforcers')
      BY <1>2, <1>4, <2>2
    <2> QED
      BY <2>1, <2>3 DEF MapBounded, Enforcers
  <1> DEFINE now == [q \in Requests |-> IF q = r THEN {} ELSE later[q] \ {r}]
  <1>6. now \in [Requests -> SUBSET Requests]
    BY <1>3
  <1>7. ASSUME NEW q \in Requests
        PROVE  /\ at'[q] \notin {"choose", "remove"} => now[q] = {}
               /\ now[q] \subseteq Enforcers' \ {q}
               /\ \A p \in now[q] : now[p] \subseteq now[q]
    BY <1>1, <1>3
  <1>8. ASSUME NEW q \in Requests, at'[q] \in {"choose", "remove"}
        PROVE  /\ at'[q] = "choose" => Cardinality(Tracked') - evict'[q].excess
                                         <= MaxTracked + Cardinality(now[q])
               /\ at'[q] = "remove" => Cardinality(Tracked' \ evict'[q].victims)
                                         <= MaxTracked + Cardinality(now[q])
    <2>1. q # r /\ at'[q] = at[q] /\ evict'[q] = evict[q] /\ now[q] = later[q] \ {r}
      BY <1>8
    <2>2. evict[q].excess \in Nat
      BY DEF TypeOK
    <2>3. /\ Cardinality(Tracked \ evict[q].victims) \in Nat
          /\ Cardinality(Tracked \ evict[q].victims) <= Cardinality(Tracked)
      BY <1>2, Sizes
    <2>4. CASE r \in later[q]
      <3>1. later[r] \in SUBSET now[q] /\ IsFiniteSet(now[q])
        BY <1>2, <1>3, <2>1, <2>4, Sizes
      <3>2. Cardinality(now[q]) \in Nat /\ Cardinality(later[r]) <= Cardinality(now[q])
        BY <3>1, Sizes
      <3>3. Cardinality(Tracked) <= MaxTracked + Cardinality(now[q])
        BY <1>2, <1>4, <3>2
      <3> QED
        BY <1>2, <1>4, <2>1, <2>2, <2>3, <3>2, <3>3
    <2>5. CASE r \notin later[q]
      <3>1. now[q] = later[q]
        BY <2>1, <2>5
      <3> QED
        BY <2>1, <3>1 DEF Excused
    <2> QED
      BY <2>4, <2>5
  <1> HIDE DEF now
  <1>9. Excused(now)'
    BY <1>6, <1>7, <1>8 DEF Excused
  <1> QED
    BY <1>5, <1>6, <1>9 DEF CapInv

\* Nobody begins or ends, and no domain is added: whoever has not just counted or
\* chosen is no worse off.
LEMMA KeepsCap ==
    ASSUME TypeOK, CapInv, Tracked' \subseteq Tracked, Enforcers' = Enforcers,
           NEW later \in [Requests -> SUBSET Requests], Excused(later),
           \A q \in Requests :
              /\ at'[q] \notin {"choose", "remove"} => later[q] = {}
              /\ at'[q] = "choose" => \/ at[q] = "choose" /\ evict'[q].excess = evict[q].excess
                                      \/ /\ Cardinality(Tracked') - evict'[q].excess
                                              <= MaxTracked + Cardinality(later[q])
              /\ at'[q] = "remove" => \/ /\ at[q] = "remove"
                                         /\ Tracked' \ evict'[q].victims \subseteq Tracked \ evict[q].victims
                                      \/ /\ Cardinality(Tracked' \ evict'[q].victims)
                                              <= MaxTracked + Cardinality(later[q])
    PROVE  CapInv'
  <1>1. IsFiniteSet(Tracked) /\ IsFiniteSet(Enforcers) /\ MaxTracked \in Nat
    BY TrackedFinite DEF CapInv
  <1>2. /\ Cardinality(Tracked) \in Nat /\ Cardinality(Tracked') \in Nat
        /\ Cardinality(Tracked') <= Cardinality(Tracked) /\ Cardinality(Enforcers) \in Nat
    BY <1>1, Sizes
  <1>3. IsFiniteSet(Enforcers') /\ MapBounded'
    <2>1. Cardinality(Tracked) <= MaxTracked + Cardinality(Enforcers)
      BY DEF CapInv, MapBounded, Enforcers
    <2>2. Cardinality(Tracked') <= MaxTracked + Cardinality(Enforcers')
      BY <1>1, <1>2, <2>1
    <2> QED
      BY <1>1, <2>2 DEF MapBounded, Enforcers
  <1>4. ASSUME NEW q \in Requests
        PROVE  /\ at'[q] = "choose" => Cardinality(Tracked') - evict'[q].excess
                                         <= MaxTracked + Cardinality(later[q])
               /\ at'[q] = "remove" => Cardinality(Tracked' \ evict'[q].victims)
                                         <= MaxTracked + Cardinality(later[q])
    <2>1. /\ evict[q].excess \in Nat /\ later[q] \subseteq Enforcers
          /\ at[q] = "choose" => Cardinality(Tracked) - evict[q].excess
                                   <= MaxTracked + Cardinality(later[q])
          /\ at[q] = "remove" => Cardinality(Tracked \ evict[q].victims)
                                   <= MaxTracked + Cardinality(later[q])
      BY DEF Excused, TypeOK
    <2>2. Cardinality(later[q]) \in Nat
      BY <1>1, <2>1, Sizes
    <2>3. CASE at'[q] = "choose"
      <3>1. CASE at[q] = "choose" /\ evict'[q].excess = evict[q].excess
        BY <1>1, <1>2, <2>1, <2>2, <2>3, <3>1
      <3> QED
        BY <2>3, <3>1
    <2>4. CASE at'[q] = "remove"
      <3>1. IsFiniteSet(Tracked \ evict[q].victims)
        BY <1>1, Sizes
      <3>2. Cardinality(Tracked \ evict[q].victims) \in Nat
        BY <3>1, Sizes
      <3>3. CASE Tracked' \ evict'[q].victims \subseteq Tracked \ evict[q].victims /\ at[q] = "remove"
        <4>1. /\ Cardinality(Tracked' \ evict'[q].victims) \in Nat
              /\ Cardinality(Tracked' \ evict'[q].victims) <= Cardinality(Tracked \ evict[q].victims)
          BY <3>1, <3>3, Sizes
        <4> QED
          BY <1>1, <2>1, <2>2, <2>4, <3>2, <3>3, <4>1
      <3> QED
        BY <2>4, <3>3
    <2> QED
      BY <2>3, <2>4
  <1>5. Excused(later)'
    BY <1>4 DEF Excused
  <1> QED
    BY <1>3, <1>5 DEF CapInv

\* The requests that enforce the cap.
LEMMA CountsCap ==
    ASSUME TypeOK, CapInv, NEW r \in Requests, CountDomains(r) \/ ChooseVictims(r) \/ Enforced(r)
    PROVE  CapInv'
  <1>1. PICK later \in [Requests -> SUBSET Requests] : Excused(later)
    BY DEF CapInv
  <1>2. /\ IsFiniteSet(Tracked) /\ IsFiniteSet(Enforcers) /\ MaxTracked \in Nat
        /\ Cardinality(Tracked) \in Nat /\ Excess = Cardinality(Tracked) - MaxTracked
    BY TrackedFinite, Sizes DEF CapInv, Excess
  <1>3. /\ at \in [Requests -> Places] /\ Tracked' = Tracked
        /\ evict \in [Requests -> [excess : Nat, victims : SUBSET Domains]]
    BY DEF TypeOK, Places, CountDomains, ChooseVictims, Enforced, AcquireReturns, Tracked
  <1>4. ASSUME AcquireReturns(r), r \in Enforcers,
               Cardinality(Tracked) <= MaxTracked + Cardinality(later[r])
        PROVE  CapInv'
    <2>1. /\ at' = [at EXCEPT ![r] = "idle"] \/ at' = [at EXCEPT ![r] = "send"]
          /\ evict' = [evict EXCEPT ![r] = NoEviction]
      BY <1>4 DEF AcquireReturns, Over
    <2>2. /\ at'[r] \notin {"count", "choose", "remove"} /\ at' \in [Requests -> Places]
          /\ \A q \in Requests \ {r} : at'[q] = at[q] /\ evict'[q] = evict[q]
      BY <1>3, <2>1 DEF Places
    <2> QED
      BY <1>1, <1>3, <1>4, <2>2, LeavesCap
  <1>5. CASE CountDomains(r) /\ Excess <= 0
    <2>1. AcquireReturns(r) /\ at[r] = "count" /\ later[r] = {}
      BY <1>1, <1>5 DEF CountDomains, Excused
    <2>2. Cardinality(Tracked) <= MaxTracked + Cardinality(later[r])
      BY <1>2, <1>5, <2>1, FS_EmptySet
    <2> QED
      BY <1>4, <2>1, <2>2 DEF Enforcers
  <1>6. CASE CountDomains(r) /\ ~(Excess <= 0)
    <2>1. /\ at[r] = "count" /\ at' = [at EXCEPT ![r] = "choose"] /\ later[r] = {}
          /\ evict' = [evict EXCEPT ![r].excess = Excess]
      BY <1>1, <1>6 DEF CountDomains, Excused
    <2>2. Enforcers' = Enforcers
      BY <1>3, <2>1 DEF Enforcers
    <2>3. Cardinality(Tracked') - evict'[r].excess <= MaxTracked + Cardinality(later[r])
      <3>1. evict'[r].excess = Excess
        BY <1>3, <2>1
      <3> QED
        BY <1>2, <1>3, <2>1, <3>1, FS_EmptySet
    <2>4. \A q \in Requests \ {r} : at'[q] = at[q] /\ evict'[q] = evict[q]
      BY <1>3, <2>1
    <2>5. at'[r] = "choose"
      BY <1>3, <2>1
    <2>6. \A q \in Requests \ {r} : at[q] \notin {"choose", "remove"} => later[q] = {}
      BY <1>1 DEF Excused
    <2> QED
      BY <1>1, <1>3, <2>2, <2>3, <2>4, <2>5, <2>6, KeepsCap
  <1>7. CASE ChooseVictims(r)
    <2>1. PICK victims \in LeastRecentlySeen(evict[r].excess) :
              /\ at[r] = "choose" /\ at' = [at EXCEPT ![r] = "remove"]
              /\ evict' = [evict EXCEPT ![r].victims = victims]
      BY <1>7 DEF ChooseVictims
    <2> DEFINE e == evict[r].excess
    <2>2. /\ e \in Nat /\ victims \subseteq Tracked
          /\ Cardinality(victims) = IF e < Cardinality(Tracked) THEN e ELSE Cardinality(Tracked)
      BY <1>3, <2>1 DEF LeastRecentlySeen
    <2>3. Enforcers' = Enforcers
      BY <1>3, <2>1 DEF Enforcers
    <2>4. /\ Cardinality(Tracked) - e <= MaxTracked + Cardinality(later[r])
          /\ later[r] \subseteq Enforcers
      BY <1>1, <2>1 DEF Excused
    <2>5. Cardinality(Tracked \ victims) = Cardinality(Tracked) - Cardinality(victims)
      <3>1. Tracked \cap victims = victims
        BY <2>2
      <3> QED
        BY <1>2, <3>1, FS_Difference
    <2>6. Cardinality(later[r]) \in Nat
      BY <1>2, <2>4, Sizes
    <2> HIDE DEF e
    <2>7. Cardinality(Tracked \ victims) <= MaxTracked + Cardinality(later[r])
      BY <1>2, <2>2, <2>4, <2>5, <2>6
    <2>8. evict'[r].victims = victims /\ at'[r] = "remove"
      BY <1>3, <2>1
    <2>9. \A q \in Requests \ {r} : at'[q] = at[q] /\ evict'[q] = evict[q]
      BY <1>3, <2>1
    <2> QED
      BY <1>1, <1>3, <2>3, <2>7, <2>8, <2>9, KeepsCap DEF Excused
  <1>8. CASE Enforced(r)
    <2>1. AcquireReturns(r) /\ at[r] = "remove" /\ evict[r].victims = {}
      BY <1>8 DEF Enforced
    <2>2. Tracked \ evict[r].victims = Tracked
      BY <2>1
    <2> QED
      BY <1>1, <1>4, <2>1, <2>2 DEF Excused, Enforcers
  <1> QED
    BY <1>5, <1>6, <1>7, <1>8

\* Every other step.
LEMMA CapStep == ASSUME TypeOK, CapInv, [Next]_vars PROVE CapInv'
  <1>1. PICK later \in [Requests -> SUBSET Requests] : Excused(later)
    BY DEF CapInv
  <1>2. /\ at \in [Requests -> Places]
        /\ evict \in [Requests -> [excess : Nat, victims : SUBSET Domains]]
    BY DEF TypeOK, Places
  <1>3. ASSUME Tracked' \subseteq Tracked,
               \A q \in Requests :
                  \/ at'[q] = at[q] /\ evict'[q] = evict[q]
                  \/ at[q] \notin {"count", "choose", "remove"}
                     /\ at'[q] \notin {"count", "choose", "remove"}
        PROVE  CapInv'
    <2>1. Enforcers' = Enforcers
      BY <1>3 DEF Enforcers
    <2> QED
      BY <1>1, <1>3, <2>1, KeepsCap DEF Excused
  <1>4. ASSUME NEW r \in Requests, NEW d \in Domains, RemoveVictim(r, d) PROVE CapInv'
    <2>1. /\ Tracked' = Tracked \ {d} /\ at' = at
          /\ evict' = [evict EXCEPT ![r].victims = @ \ {d}] /\ d \in evict[r].victims
      BY <1>4 DEF RemoveVictim, Remove, Tracked
    <2>2. \A q \in Requests : /\ evict'[q].excess = evict[q].excess
                              /\ Tracked' \ evict'[q].victims \subseteq Tracked \ evict[q].victims
      BY <1>2, <2>1
    <2>3. Enforcers' = Enforcers
      BY <2>1 DEF Enforcers
    <2> QED
      BY <1>1, <2>1, <2>2, <2>3, KeepsCap DEF Excused
  <1>5. ASSUME NEW r \in Requests, pool' = pool \/ Tracked' \subseteq Tracked,
               at[r] \in {"send", "retry", "report"},
               \E to \in {"send", "retry", "report", "idle"} : at' = [at EXCEPT ![r] = to],
               evict' = evict \/ evict' = [evict EXCEPT ![r] = NoEviction]
        PROVE  CapInv'
    BY <1>2, <1>3, <1>5 DEF Tracked
  <1>6. ASSUME NEW r \in Requests, Work(r) \/ Drop(r) PROVE CapInv'
    <2>1. CASE CountDomains(r) \/ ChooseVictims(r) \/ Enforced(r)
      BY <2>1, CountsCap
    <2>2. CASE \E d \in Domains : RemoveVictim(r, d)
      BY <1>4, <2>2
    <2>3. CASE \/ SendTimesOut(r) \/ SendFails(r) \/ SendSucceeds(r) \/ SendForbidden(r)
               \/ SendRateLimited(r) \/ SendServerError(r) \/ SendRefused(r)
      BY <1>5, <2>3 DEF SendTimesOut, SendFails, SendSucceeds, SendForbidden, SendRateLimited,
                        SendServerError, SendRefused, EntersRetry, Returns, Continues
    <2>4. CASE RetrySucceeds(r) \/ RetryAnswered(r) \/ RetryFails(r) \/ RetriesExhausted(r)
      BY <1>5, <2>4 DEF RetrySucceeds, RetryAnswered, RetryFails, RetriesExhausted, Retrying, Returns,
                        Continues
    <2>5. CASE ReportOutcome(r) \/ Drop(r)
      <3>1. pool' = pool \/ Tracked' = Tracked
        <4>1. ASSUME NEW d \in Tracked, NEW e, Put(d, e) PROVE Tracked' = Tracked
          BY <4>1 DEF Put, Tracked
        <4>2. CASE Drop(r)
          BY <4>2 DEF Drop
        <4>3. ASSUME NEW d, NEW slot, ReportSuccess(d, slot) PROVE pool' = pool \/ Tracked' = Tracked
          BY <4>1, <4>3 DEF ReportSuccess
        <4>4. ASSUME NEW d, NEW slot, NEW code, ReportFailure(d, slot, code)
              PROVE  pool' = pool \/ Tracked' = Tracked
          <5>1. CASE d \in Tracked
            <6> DEFINE s == pool[d].states[slot]
                       becomes(x) == [states |-> [pool[d].states EXCEPT ![slot] = x],
                                      last_seen |-> clock]
            <6>1. PICK x : Put(d, becomes(x))
              BY <4>4, <5>1, ZenonT(60) DEF ReportFailure
            <6> QED
              BY <4>1, <5>1, <6>1
          <5> QED
            BY <4>4, <5>1 DEF ReportFailure
        <4>5. CASE ReportOutcome(r)
          BY <4>3, <4>4, <4>5 DEF ReportOutcome
        <4> QED
          BY <2>5, <4>2, <4>5
      <3> QED
        BY <1>5, <2>5, <3>1 DEF ReportOutcome, Drop, Over
    <2> QED
      BY <1>6, <2>1, <2>2, <2>3, <2>4, <2>5 DEF Work
  <1>7. CASE Tick \/ UNCHANGED vars
    BY <1>3, <1>7 DEF Tick, requests, vars, Tracked
  <1>8. ASSUME NEW d \in Domains, Sweep(d) PROVE CapInv'
    <2>1. Tracked' \subseteq Tracked /\ UNCHANGED <<at, evict>>
      BY <1>8 DEF Sweep, EvictStale, Put, Tracked, requests
    <2> QED
      BY <1>3, <2>1
  <1> QED
    BY <1>6, <1>7, <1>8, BeginsCap DEF Next

\* However many requests acquire at once, the map of tracked domains exceeds its cap
\* by at most one domain for each request that is not through with enforcing it
\* (enforce_domain_cap).
THEOREM MapStaysBounded == Spec => []MapBounded
  <1>1. Init => CapInv
    <2> SUFFICES ASSUME Init PROVE CapInv
      OBVIOUS
    <2>1. Enforcers = {} /\ Tracked = {}
      BY DEF Init, PoolInit, Enforcers, Tracked
    <2>2. IsFiniteSet(Enforcers) /\ MapBounded
      BY <2>1, FS_EmptySet, PoolAssumption DEF MapBounded, Enforcers
    <2> DEFINE nobody == [r \in Requests |-> {}]
    <2>3. nobody \in [Requests -> SUBSET Requests] /\ Excused(nobody)
      BY DEF Init, Excused
    <2> QED
      BY <2>2, <2>3 DEF CapInv
  <1>2. TypeOK /\ CapInv /\ [Next]_vars => CapInv'
    BY CapStep
  <1>3. CapInv => MapBounded
    BY DEF CapInv
  <1> QED
    BY <1>1, <1>2, <1>3, TypeCorrect, PTL DEF Spec

=============================================================================
