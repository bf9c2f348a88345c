----------------------------- MODULE RateCache -----------------------------
(***************************************************************************)
(* The exchange rate of a pair of currencies as one process knows it       *)
(* (fetchExchangeRateQuote, pricing/pricing.service.js): a cache that is   *)
(* fresh for a while and may be served stale for longer when the provider  *)
(* fails, retries, and a circuit breaker shared by all pairs. The limits   *)
(* of a payment are computed with it (pricing/policyRate.js), which takes  *)
(* the rate for fetched at the moment it asks, so that its own check of    *)
(* the age never refuses one.                                              *)
(***************************************************************************)
EXTENDS Integers

CONSTANTS Fetch,      \* requests for the rate
          FreshAge,   \* cacheMaxAgeMs
          StaleAge,   \* staleCacheMaxAgeMs
          SourceAge,  \* maxSourceAgeMs, of the provider's own data
          CircuitThreshold,  \* circuitThreshold
          Cooldown,   \* circuitCooldownMs
          MaxTries,   \* maxRetries and the first try
          MaxClock    \* bounds the clock

ASSUME RateAssumption ==
  /\ {FreshAge, StaleAge, SourceAge, Cooldown, MaxClock} \subseteq Nat
  /\ {CircuitThreshold, MaxTries} \subseteq Nat \ {0}
  /\ FreshAge <= StaleAge

VARIABLES clock,
          cache,    \* the rate, by the time it was published, and when cached
          rateFailures, \* failed requests since the last success
          reopens,  \* the time until which the circuit is open
          fetch     \* what each request is doing, and the rate it was given

rateVars == <<clock, cache, rateFailures, reopens, fetch>>

NoRate == -1000
Waiting == [step |-> "idle", try |-> 0, rate |-> NoRate]

RateInit ==
  /\ clock = 0
  /\ cache = [published |-> NoRate, at |-> NoRate]
  /\ rateFailures = 0
  /\ reopens = 0
  /\ fetch = [f \in Fetch |-> Waiting]

Cached(age) == clock - cache.at <= age
FetchIs(f, state) == fetch' = [fetch EXCEPT ![f] = state]
Give(f, published) == FetchIs(f, [step |-> "given", try |-> 0, rate |-> published])
RefuseRate(f) == FetchIs(f, [step |-> "refused", try |-> 0, rate |-> NoRate])
GiveStale(f) == IF Cached(StaleAge) THEN Give(f, cache.published) ELSE RefuseRate(f)

AskRate(f) ==
  /\ fetch[f].step # "asking"
  /\ \/ Cached(FreshAge) /\ Give(f, cache.published)
     \/ ~ Cached(FreshAge) /\ reopens > clock /\ GiveStale(f)
     \/ /\ ~ Cached(FreshAge)
        /\ reopens <= clock
        /\ FetchIs(f, [step |-> "asking", try |-> 1, rate |-> NoRate])
  /\ UNCHANGED <<clock, cache, rateFailures, reopens>>

\* A usable answer, published at most SourceAge before it is checked: older
\* answers may come later and replace a newer rate.
RateArrives(f, published) ==
  /\ fetch[f].step = "asking"
  /\ clock - published <= SourceAge
  /\ cache' = [published |-> published, at |-> clock]
  /\ rateFailures' = 0
  /\ reopens' = 0
  /\ Give(f, published)
  /\ UNCHANGED clock

Retried(f) ==
  /\ fetch[f].step = "asking"
  /\ fetch[f].try < MaxTries
  /\ fetch' = [fetch EXCEPT ![f].try = fetch[f].try + 1]
  /\ UNCHANGED <<clock, cache, rateFailures, reopens>>

\* (Mutant: a stale rate that is served counts as cached again.)
FailedRecaches(f) ==
  /\ fetch[f].step = "asking"
  /\ fetch[f].try = MaxTries
  /\ rateFailures' = IF rateFailures < CircuitThreshold THEN rateFailures + 1 ELSE rateFailures
  /\ reopens' = IF rateFailures + 1 >= CircuitThreshold THEN clock + Cooldown ELSE reopens
  /\ GiveStale(f)
  /\ cache' = IF Cached(StaleAge) THEN [cache EXCEPT !.at = clock] ELSE cache
  /\ UNCHANGED clock

\* The last try failed, timed out, or its rate was missing, implausible or
\* too old. (Failures beyond the threshold are all the same.)
Failed(f) ==
  /\ fetch[f].step = "asking"
  /\ fetch[f].try = MaxTries
  /\ rateFailures' = IF rateFailures < CircuitThreshold THEN rateFailures + 1 ELSE rateFailures
  /\ reopens' = IF rateFailures + 1 >= CircuitThreshold THEN clock + Cooldown ELSE reopens
  /\ GiveStale(f)
  /\ UNCHANGED <<clock, cache>>

\* What was given is looked at when it is given.
RateTick ==
  /\ clock < MaxClock
  /\ clock' = clock + 1
  /\ fetch' = [f \in Fetch |-> IF fetch[f].step = "asking" THEN fetch[f] ELSE Waiting]
  /\ UNCHANGED <<cache, rateFailures, reopens>>

RateNext ==
  \/ RateTick
  \/ \E f \in Fetch :
       \/ AskRate(f) \/ Retried(f) \/ Failed(f)
       \/ \E published \in (clock - SourceAge) .. clock : RateArrives(f, published)

RateSpec == RateInit /\ [][RateNext]_rateVars
-----------------------------------------------------------------------------
\* However long the provider is down and whatever answers overtake each other,
\* a rate that is given was published no longer ago than the provider may lag
\* and the cache may be stale together; payments are checked against limits
\* with such rates (policyFxMaxAgeMs notwithstanding).
RateAgeBounded ==
  \A f \in Fetch : fetch[f].step = "given" => clock - fetch[f].rate <= SourceAge + StaleAge
=============================================================================
