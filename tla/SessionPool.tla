----------------------------- MODULE SessionPool -----------------------------
(***************************************************************************)
(* DomainSessionPool (infrastructure/network/session_pool.rs): for every    *)
(* domain a few session slots, each healthy, banned until a deadline or     *)
(* retiring; domains are tracked up to a soft cap, which every acquire      *)
(* enforces once it has let go of the domain's entry.  Slots are not        *)
(* leased: several requests may hold one, and report on it, at the same     *)
(* time.  HttpClient.tla uses the pool.                                     *)
(***************************************************************************)
EXTENDS Integers, FiniteSets

CONSTANTS Domains,
          PoolSize,    \* config.pool_size
          BaseDelay,   \* config.base_delay
          MaxDelay,    \* config.max_delay
          MaxExp,      \* config.max_exp
          Ttl,         \* config.ttl_duration
          MaxTracked   \* MAX_TRACKED_DOMAINS

\* 0.8 N and 1.2 N, rounded.
Least(n) == (8 * n + 5) \div 10
Most(n) == (12 * n + 5) \div 10

\* The longest ban: the delay at its cap with the jitter and the stagger at
\* their highest.
MaxCooldown == Most(MaxDelay) + Most(MaxDelay) \div 5

\* With the defaults a ban lasts at most 86.4 of the 300 seconds of the TTL.
ASSUME PoolAssumption ==
    /\ IsFiniteSet(Domains)
    /\ PoolSize \in Nat \ {0} /\ MaxTracked \in Nat \ {0}
    /\ BaseDelay \in Nat /\ MaxDelay \in Nat \ {0} /\ MaxExp \in Nat
    /\ Ttl \in Nat /\ MaxCooldown <= Ttl

VARIABLES clock,  \* SystemClock
          pool    \* DomainSessionPool::sessions: the entries of the tracked domains

Slots == 0..(PoolSize - 1)

\* Times start at 1; 0 stands for None.
Session == [status : {"Healthy", "Banned", "Retiring"},
            consecutive_failures : Nat, last_failure_time : Nat, next_retry_time : Nat]

Entry == [states : [Slots -> Session], last_seen : Nat]

Healthy == [status |-> "Healthy", consecutive_failures |-> 0,
            last_failure_time |-> 0, next_retry_time |-> 0]

Tracked == DOMAIN pool

PoolInit == clock = 1 /\ pool = [d \in {} |-> <<>>]

\* The entry of d becomes e; other entries stay.
Put(d, e) == pool' = [x \in Tracked \cup {d} |-> IF x = d THEN e ELSE pool[x]]

-----------------------------------------------------------------------------
(* Bans. *)

\* Mutant: the cap on the delay is forgotten.
CappedNot(delay) == IF delay < 1 THEN 1 ELSE delay

Capped(delay) == IF delay < 1 THEN 1 ELSE IF delay < MaxDelay THEN delay ELSE MaxDelay

\* backoff_delay: exponential up to the cap, give or take a fifth.
BackoffDelays(failures) ==
    LET nominal == Capped(BaseDelay * 2 ^ (IF failures < MaxExp THEN failures ELSE MaxExp))
    IN  Least(nominal)..Most(nominal)

\* Slots of one domain recover at different times.
Stagger(slot, delay) == (slot * 37) % (IF delay \div 5 > 1 THEN delay \div 5 ELSE 1)

\* apply_failure with should_ban: the deadline is drawn once, here.
Bans(s, slot) ==
    { [status |-> "Banned", consecutive_failures |-> s.consecutive_failures + 1,
       last_failure_time |-> clock, next_retry_time |-> clock + delay + Stagger(slot, delay)] :
        delay \in BackoffDelays(s.consecutive_failures + 1) }

\* Mutant: a failure that does not ban starts the deadline anew.
CountedReset(s) ==
    [status |-> IF s.consecutive_failures + 1 >= 3 THEN "Retiring" ELSE s.status,
     consecutive_failures |-> s.consecutive_failures + 1,
     last_failure_time |-> clock, next_retry_time |-> clock]

\* apply_failure without: the third failure in a row retires the slot, banned or
\* not; a deadline it had stays.
Counted(s) ==
    [status |-> IF s.consecutive_failures + 1 >= 3 THEN "Retiring" ELSE s.status,
     consecutive_failures |-> s.consecutive_failures + 1,
     last_failure_time |-> clock, next_retry_time |-> s.next_retry_time]

\* evict_expired: slots whose last failure is older than the TTL are healed.
EvictExpired(states) ==
    [i \in Slots |->
        IF /\ states[i].last_failure_time # 0 /\ states[i].status # "Healthy"
           /\ clock - states[i].last_failure_time > Ttl
        THEN Healthy ELSE states[i]]

\* find_available's scan: a banned slot after its deadline, a retiring one never.
Available(s) ==
    \/ s.status = "Healthy"
    \/ s.status = "Banned" /\ clock >= s.next_retry_time

-----------------------------------------------------------------------------
(* Operations.  A call reads the clock just before it takes the entry's guard *)
(* and holds the guard to its end: one step, in which the clock stands still. *)

\* acquire up to the drop of the guard.  The scan starts at a slot hashed from
\* the clock, so any available one may be found; -1 is None.
Acquire(d, found) ==
    LET states == EvictExpired(IF d \in Tracked THEN pool[d].states ELSE [i \in Slots |-> Healthy])
        available == { i \in Slots : Available(states[i]) }
    IN  /\ found \in IF available = {} THEN {-1} ELSE available
        /\ Put(d, [states |-> states, last_seen |-> clock])
        /\ UNCHANGED clock

\* report_success, whenever the slot was acquired: it lifts a ban too.
ReportSuccess(d, slot) ==
    /\ IF d \in Tracked
       THEN Put(d, [states |-> [pool[d].states EXCEPT ![slot] = Healthy], last_seen |-> clock])
       ELSE UNCHANGED pool
    /\ UNCHANGED clock

\* report_failure: 429, 503 and 403 ban.
ReportFailure(d, slot, code) ==
    /\ IF d \in Tracked
       THEN LET s == pool[d].states[slot]
            IN  \E t \in IF code \in {429, 503, 403} THEN Bans(s, slot) ELSE {Counted(s)} :
                    Put(d, [states |-> [pool[d].states EXCEPT ![slot] = t], last_seen |-> clock])
       ELSE UNCHANGED pool
    /\ UNCHANGED clock

\* Mutant: one domain goes at a time.
ExcessOne == IF Cardinality(Tracked) > MaxTracked THEN 1 ELSE 0

\* enforce_domain_cap: how many domains there are too many ...
Excess == Cardinality(Tracked) - MaxTracked

\* ... and who goes: that many, none seen later than one that stays.
LeastRecentlySeen(n) ==
    { victims \in SUBSET Tracked :
        /\ Cardinality(victims) = IF n < Cardinality(Tracked) THEN n ELSE Cardinality(Tracked)
        /\ \A v \in victims, d \in Tracked \ victims : pool[v].last_seen <= pool[d].last_seen }

Remove(d) == pool' = [x \in Tracked \ {d} |-> pool[x]] /\ UNCHANGED clock

\* evict_stale, one domain of it: an idle domain is removed, the slots of another
\* are healed.
EvictStale(d) ==
    /\ d \in Tracked
    /\ IF clock - pool[d].last_seen > Ttl
       THEN pool' = [x \in Tracked \ {d} |-> pool[x]]
       ELSE Put(d, [pool[d] EXCEPT !.states = EvictExpired(@)])
    /\ UNCHANGED clock

=============================================================================
