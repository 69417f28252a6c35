----------------------------- MODULE HttpClient ------------------------------
(***************************************************************************)
(* HttpClient::get (application/http_client/client.rs and retry.rs) over a   *)
(* session pool: concurrent requests acquire a slot, wait for the rate       *)
(* limiter, send (again after a timeout, with another user agent after a     *)
(* first 403, in a retry loop after a 429 or a 5xx) and report the outcome.  *)
(* A request's future may be dropped at any of its awaits.                   *)
(***************************************************************************)
EXTENDS SessionPool

CONSTANTS Requests,   \* the tasks that call get
          MaxRetries, \* config.max_retries
          UserAgents, \* how many user agents there are to rotate
          MaxGets,    \* bound: calls of get
          MaxClock,   \* bound
          NoLease

ASSUME ClientAssumption ==
    /\ MaxRetries \in Nat /\ UserAgents \in Nat \ {0}
    /\ MaxGets \in Nat /\ MaxClock \in Nat \ {0}

VARIABLES
    at,       \* where each request is
    lease,    \* the domain and the slot acquire returned; -1 is None
    evict,    \* enforce_domain_cap's excess, and the domains left to remove
    try,      \* get_inner's counters
    outcome,  \* what get_inner returned, as report_outcome sees it
    gets      \* calls so far

requests == <<at, lease, evict, try, outcome, gets>>
vars == <<clock, pool, at, lease, evict, try, outcome, gets>>

\* 400 stands for the 3xx and 4xx without a rule of their own and for codes that
\* are no status at all, 500 for the other 5xx.
Codes == {400, 404, 403, 429, 500, 503}

\* What report_outcome makes of a result: 200 a success, 0 nothing (a 404, a
\* request that could not be sent or read, a body too large), and else the status
\* of a failure: 403 also for a challenge page, 503 for a failed connect, 504 for a
\* timeout.
Statuses == {200, 0, 504} \cup (Codes \ {404})

Reported(code) == IF code = 404 THEN 0 ELSE code

\* ua_index; retries so far; the status that began the retry loop;
\* last_failure_was_timeout; and how often the request was sent without ending the
\* call (history).
Try == [ua : {0, 1}, attempt : 0..MaxRetries, policy : {0, 429, 500, 503}, timedOut : BOOLEAN,
        sends : Nat]

FirstTry == [ua |-> 0, attempt |-> 0, policy |-> 0, timedOut |-> FALSE, sends |-> 0]

Lease == [domain : Domains, session : Slots \cup {-1}]

NoEviction == [excess |-> 0, victims |-> {}]

TypeOK ==
    /\ clock \in 1..MaxClock
    /\ Tracked \subseteq Domains /\ pool \in [Tracked -> Entry]
    /\ at \in [Requests -> {"idle", "count", "choose", "remove", "send", "retry", "report"}]
    /\ lease \in [Requests -> Lease \cup {NoLease}]
    /\ \A r \in Requests : at[r] # "idle" => lease[r] \in Lease
    /\ evict \in [Requests -> [excess : Nat, victims : SUBSET Domains]]
    /\ try \in [Requests -> Try]
    /\ outcome \in [Requests -> Statuses]
    /\ gets \in 0..MaxGets

Init ==
    /\ PoolInit
    /\ at = [r \in Requests |-> "idle"] /\ lease = [r \in Requests |-> NoLease]
    /\ evict = [r \in Requests |-> NoEviction] /\ try = [r \in Requests |-> FirstTry]
    /\ outcome = [r \in Requests |-> 0]
    /\ gets = 0

-----------------------------------------------------------------------------
(* Gating. *)

Get(r, d) ==
    /\ at[r] = "idle" /\ gets < MaxGets
    /\ \E found \in Slots \cup {-1} :
          Acquire(d, found) /\ lease' = [lease EXCEPT ![r] = [domain |-> d, session |-> found]]
    /\ at' = [at EXCEPT ![r] = "count"] /\ gets' = gets + 1
    /\ UNCHANGED <<evict, try, outcome>>

\* get is over, or its future is gone; what it held means nothing any more.
Over(r) ==
    /\ at' = [at EXCEPT ![r] = "idle"]
    /\ lease' = [lease EXCEPT ![r] = NoLease]
    /\ evict' = [evict EXCEPT ![r] = NoEviction]
    /\ try' = [try EXCEPT ![r] = FirstTry]
    /\ outcome' = [outcome EXCEPT ![r] = 0]
    /\ UNCHANGED gets

\* acquire returns: on to the limiter and the first send, whose waits look alike
\* from outside, or out of get as DomainBanned, unreported.
AcquireReturns(r) ==
    /\ IF lease[r].session = -1
       THEN Over(r)
       ELSE /\ at' = [at EXCEPT ![r] = "send"]
            /\ evict' = [evict EXCEPT ![r] = NoEviction]
            /\ UNCHANGED <<lease, try, outcome, gets>>
    /\ UNCHANGED <<clock, pool>>

CountDomains(r) ==
    /\ at[r] = "count"
    /\ IF Excess <= 0
       THEN AcquireReturns(r)
       ELSE /\ at' = [at EXCEPT ![r] = "choose"]
            /\ evict' = [evict EXCEPT ![r].excess = Excess]
            /\ UNCHANGED <<clock, pool, lease, try, outcome, gets>>

ChooseVictims(r) ==
    /\ at[r] = "choose"
    /\ \E victims \in LeastRecentlySeen(evict[r].excess) :
          evict' = [evict EXCEPT ![r].victims = victims]
    /\ at' = [at EXCEPT ![r] = "remove"]
    /\ UNCHANGED <<clock, pool, lease, try, outcome, gets>>

RemoveVictim(r, d) ==
    /\ at[r] = "remove" /\ d \in evict[r].victims
    /\ Remove(d)
    /\ evict' = [evict EXCEPT ![r].victims = @ \ {d}]
    /\ UNCHANGED <<at, lease, try, outcome, gets>>

Enforced(r) ==
    /\ at[r] = "remove" /\ evict[r].victims = {}
    /\ AcquireReturns(r)

-----------------------------------------------------------------------------
(* Sending. *)

Returns(r, result) ==
    /\ at' = [at EXCEPT ![r] = "report"]
    /\ outcome' = [outcome EXCEPT ![r] = result]
    /\ try' = [try EXCEPT ![r] = FirstTry]
    /\ UNCHANGED <<clock, pool, lease, evict, gets>>

\* Another attempt; counting anew; one more send.
Again(t) == [t EXCEPT !.attempt = @ + 1]
Anew(t) == [t EXCEPT !.attempt = 0]
Sent(t) == [t EXCEPT !.sends = @ + 1]

Continues(r, place, t) ==
    /\ at' = [at EXCEPT ![r] = place]
    /\ try' = [try EXCEPT ![r] = t]
    /\ UNCHANGED <<clock, pool, lease, evict, outcome, gets>>

\* send_with_timeout_retry: each user agent has the whole budget.
SendTimesOut(r) ==
    /\ at[r] = "send"
    /\ IF try[r].attempt >= MaxRetries
       THEN Returns(r, 504)
       ELSE Continues(r, "send", Sent(Again(try[r])))

\* map_send_error: a connect failure, or another that no retry would mend.
SendFails(r) ==
    /\ at[r] = "send"
    /\ \E status \in {503, 0} : Returns(r, status)

\* handle_success: the body may be too large, broken off, or a challenge page.
SendSucceeds(r) ==
    /\ at[r] = "send"
    /\ \E status \in {200, 403, 0} : Returns(r, status)

\* Mutant: every 403 tries once more.
SendForbiddenAgain(r) ==
    /\ at[r] = "send"
    /\ Continues(r, "send", Sent(Anew([try[r] EXCEPT !.ua = 1])))

\* A 403: once more with the next user agent, if there is one.
SendForbidden(r) ==
    /\ at[r] = "send"
    /\ IF try[r].ua = 0 /\ UserAgents > 1
       THEN Continues(r, "send", Sent(Anew([try[r] EXCEPT !.ua = 1])))
       ELSE Returns(r, 403)

EntersRetry(r, code) ==
    Continues(r, "retry", Sent(Anew([try[r] EXCEPT !.policy = code])))

SendRateLimited(r) == at[r] = "send" /\ EntersRetry(r, 429)

\* handle_server_error: a challenge page is not retried.
SendServerError(r) ==
    /\ at[r] = "send"
    /\ \/ Returns(r, 403)
       \/ \E code \in {500, 503} : EntersRetry(r, code)

SendRefused(r) ==
    /\ at[r] = "send"
    /\ \E code \in {400, 404} : Returns(r, Reported(code))

-----------------------------------------------------------------------------
(* retry_with_backoff. *)

Retrying(r) == at[r] = "retry" /\ try[r].attempt < MaxRetries

RetrySucceeds(r) ==
    /\ Retrying(r)
    /\ \E status \in {200, 0} : Returns(r, status)

Retryable(policy) == IF policy = 429 THEN {429, 500, 503} ELSE {500, 503}

\* A retryable status leaves last_failure_was_timeout as it was.
RetryAnswered(r) ==
    /\ Retrying(r)
    /\ \E code \in Codes :
          IF code \in Retryable(try[r].policy)
          THEN Continues(r, "retry", Sent(Again(try[r])))
          ELSE Returns(r, Reported(code))

\* A transport error, whether a timeout or not, uses up an attempt.
RetryFails(r) ==
    /\ Retrying(r)
    /\ \E timeout \in BOOLEAN :
          Continues(r, "retry", Sent(Again([try[r] EXCEPT !.timedOut = timeout])))

RetriesExhausted(r) ==
    /\ at[r] = "retry" /\ try[r].attempt >= MaxRetries
    /\ Returns(r, IF try[r].timedOut THEN 504 ELSE try[r].policy)

-----------------------------------------------------------------------------
(* Reporting. *)

ReportOutcome(r) ==
    /\ at[r] = "report"
    /\ LET d == lease[r].domain
           slot == lease[r].session
       IN  CASE outcome[r] = 200 -> ReportSuccess(d, slot)
             [] outcome[r] = 0   -> UNCHANGED <<clock, pool>>
             [] OTHER            -> ReportFailure(d, slot, outcome[r])
    /\ Over(r)

\* The caller drops the future while it waits: nothing is reported.
Drop(r) ==
    /\ at[r] \in {"send", "retry"}
    /\ Over(r)
    /\ UNCHANGED <<clock, pool>>

Tick == clock < MaxClock /\ clock' = clock + 1 /\ UNCHANGED <<pool, requests>>

Sweep(d) == EvictStale(d) /\ UNCHANGED requests

Work(r) ==
    \/ CountDomains(r) \/ ChooseVictims(r) \/ (\E d \in Domains : RemoveVictim(r, d)) \/ Enforced(r)
    \/ SendTimesOut(r) \/ SendFails(r) \/ SendSucceeds(r) \/ SendForbidden(r)
    \/ SendRateLimited(r) \/ SendServerError(r) \/ SendRefused(r)
    \/ RetrySucceeds(r) \/ RetryAnswered(r) \/ RetryFails(r) \/ RetriesExhausted(r)
    \/ ReportOutcome(r)

Next ==
    \/ \E r \in Requests : (\E d \in Domains : Get(r, d)) \/ Work(r) \/ Drop(r)
    \/ Tick
    \/ \E d \in Domains : Sweep(d)

Spec == Init /\ [][Next]_vars

-----------------------------------------------------------------------------
(* Properties. *)

Barred(d, i) == d \in Tracked /\ pool[d].states[i].status = "Banned" /\ clock < pool[d].states[i].next_retry_time

\* However failures, late reports and sweeps fall, a slot's deadline is at most
\* the longest cooldown after its last failure, which lies in the past
\* (session_pool.rs: backoff_delay, apply_failure).
CooldownBounded ==
    \A d \in Tracked : \A i \in Slots :
        LET s == pool[d].states[i]
        IN  /\ s.last_failure_time <= clock
            /\ s.next_retry_time <= s.last_failure_time + MaxCooldown

\* Nobody but a success on that very slot, or the eviction of the whole domain by
\* the cap, lifts a ban before its deadline: not a late failure of another
\* request, not the TTL, not a sweep (session_pool.rs: "the cooldown deadline is
\* frozen HERE").  A slot that retires meanwhile stays unavailable.
BanHolds ==
    [][\A d \in Domains, i \in Slots :
          Barred(d, i) =>
              \/ d \in Tracked' /\ ~Available(pool[d].states[i])'
              \/ clock' >= pool[d].states[i].next_retry_time
              \/ \E r \in Requests : /\ at[r] = "report" /\ at'[r] = "idle" /\ outcome[r] = 200
                                     /\ lease[r] = [domain |-> d, session |-> i]
              \/ \E r \in Requests : at[r] = "remove" /\ d \in evict[r].victims \ evict'[r].victims]_vars

\* Whoever overlaps whom in counting, choosing and removing, the map exceeds the
\* cap by at most the requests that are not through with enforcing it
\* (session_pool.rs: enforce_domain_cap).
MapBounded ==
    Cardinality(Tracked)
        <= MaxTracked + Cardinality({ r \in Requests : at[r] \in {"count", "choose", "remove"} })

\* One get sends a bounded number of requests, three budgets and the two first
\* sends at worst: timeouts under one user agent and, after a 403, under the
\* other, then a retry loop that starts counting anew (client.rs: get_inner,
\* send_with_timeout_retry; retry.rs).
SendsBounded == \A r \in Requests : try[r].sends <= 3 * MaxRetries + 2

=============================================================================
