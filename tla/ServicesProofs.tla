--------------------------- MODULE ServicesProofs ---------------------------
(***************************************************************************)
(* For any requests, callbacks, operators, sessions, chats, users,         *)
(* messages, workers and tables: what the services around payments         *)
(* promise. Each section is about one of them: its invariant, the steps    *)
(* that keep it, its theorem.                                              *)
(***************************************************************************)
EXTENDS RateCache, Callbacks, DeadLetters, HorizonPool, Administration, AuditLog,
        TelegramLinks, PhoneMigration, Inbound, AdminLists, OrderingProofs,
        SequenceTheorems, FiniteSetTheorems, WellFoundedInduction, TLAPS
-----------------------------------------------------------------------------
(* Exchange rates *)

RateTypeOK ==
  /\ clock \in Nat
  /\ cache \in [published : Int, at : Int]
  /\ rateFailures \in Nat /\ reopens \in Nat
  /\ fetch \in [Fetch -> [step : {"idle", "asking", "given", "refused"}, try : Nat, rate : Int]]

\* What is cached was published at most SourceAge before it was cached.
CacheIsRecent == cache.at <= clock /\ cache.at - cache.published <= SourceAge

RateInv == RateTypeOK /\ CacheIsRecent /\ RateAgeBounded

\* A request takes a step and leaves the cache alone, or as recent.
LEMMA FetchStep ==
  ASSUME RateInv, NEW f \in Fetch, NEW state \in [step : {"idle", "asking", "given", "refused"}, try : Nat, rate : Int],
         clock' = clock, fetch' = [fetch EXCEPT ![f] = state],
         cache' \in [published : Int, at : Int], CacheIsRecent', rateFailures' \in Nat, reopens' \in Nat,
         state.step = "given" => clock - state.rate <= SourceAge + StaleAge
  PROVE  RateInv'
<1>1. fetch'[f] = state /\ \A g \in Fetch \ {f} : fetch'[g] = fetch[g]
  BY DEF RateInv, RateTypeOK
<1>2. RateTypeOK'
  BY DEF RateInv, RateTypeOK
<1>3. RateAgeBounded'
  BY <1>1 DEF RateInv, RateAgeBounded
<1> QED BY <1>2, <1>3 DEF RateInv

\* A rate given from the cache, fresh or stale.
LEMMA CachedIsBounded ==
  ASSUME RateInv, NEW age \in Nat, age <= StaleAge, Cached(age)
  PROVE  clock - cache.published <= SourceAge + StaleAge
BY RateAssumption DEF RateInv, RateTypeOK, CacheIsRecent, Cached

\* A step of a request, or the provider's next quotation, keeps the rates as fresh.
LEMMA NextRateInv == RateInv /\ [RateNext]_rateVars => RateInv'
<1> SUFFICES ASSUME RateInv, [RateNext]_rateVars PROVE RateInv'
  OBVIOUS
<1> DEFINE States == [step : {"idle", "asking", "given", "refused"}, try : Nat, rate : Int]
<1>1. /\ clock \in Nat /\ cache \in [published : Int, at : Int] /\ cache.published \in Int
      /\ rateFailures \in Nat /\ reopens \in Nat /\ CacheIsRecent
      /\ SourceAge \in Nat /\ StaleAge \in Nat /\ FreshAge \in Nat /\ FreshAge <= StaleAge
      /\ Cooldown \in Nat /\ NoRate \in Int
  BY RateAssumption DEF RateInv, RateTypeOK, NoRate
<1>2. ASSUME NEW f \in Fetch, NEW published \in Int, clock - published <= SourceAge + StaleAge, Give(f, published),
             UNCHANGED clock, cache' \in [published : Int, at : Int], CacheIsRecent',
             rateFailures' \in Nat, reopens' \in Nat
      PROVE  RateInv'
  <2>1. PICK state \in States : state.step = "given" /\ state.rate = published /\ fetch' = [fetch EXCEPT ![f] = state]
    BY <1>2 DEF Give, FetchIs
  <2> QED BY <1>2, <2>1, FetchStep
<1>3. ASSUME NEW f \in Fetch, RefuseRate(f), UNCHANGED <<clock, cache>>,
             rateFailures' \in Nat, reopens' \in Nat
      PROVE  RateInv'
  <2>1. PICK state \in States : state.step = "refused" /\ fetch' = [fetch EXCEPT ![f] = state]
    BY <1>1, <1>3 DEF RefuseRate, FetchIs
  <2>2. CacheIsRecent'
    BY <1>1, <1>3 DEF CacheIsRecent
  <2> QED BY <1>1, <1>3, <2>1, <2>2, FetchStep
<1>4. ASSUME NEW f \in Fetch, GiveStale(f), UNCHANGED <<clock, cache>>, rateFailures' \in Nat, reopens' \in Nat
      PROVE  RateInv'
  <2>1. CacheIsRecent'
    BY <1>1, <1>4 DEF CacheIsRecent
  <2>2. CASE Cached(StaleAge) /\ Give(f, cache.published)
    <3>1. clock - cache.published <= SourceAge + StaleAge
      BY <1>1, <2>2, CachedIsBounded
    <3> QED BY <1>1, <1>2, <1>4, <2>1, <2>2, <3>1
  <2> QED BY <1>3, <1>4, <2>2 DEF GiveStale
<1>5. ASSUME NEW f \in Fetch, AskRate(f) PROVE RateInv'
  <2>1. CacheIsRecent'
    BY <1>1, <1>5 DEF CacheIsRecent, AskRate
  <2>2. CASE Cached(FreshAge) /\ Give(f, cache.published)
    <3>1. clock - cache.published <= SourceAge + StaleAge
      BY <1>1, <2>2, CachedIsBounded
    <3> QED BY <1>1, <1>2, <1>5, <2>1, <2>2, <3>1 DEF AskRate
  <2>3. CASE GiveStale(f)
    BY <1>1, <1>4, <1>5, <2>3 DEF AskRate
  <2>4. CASE FetchIs(f, [step |-> "asking", try |-> 1, rate |-> NoRate])
    <3>1. PICK state \in States : state.step = "asking" /\ fetch' = [fetch EXCEPT ![f] = state]
      BY <1>1, <2>4 DEF FetchIs
    <3> QED BY <1>1, <1>5, <2>1, <3>1, FetchStep DEF AskRate
  <2> QED BY <1>5, <2>2, <2>3, <2>4 DEF AskRate
<1>6. ASSUME NEW f \in Fetch, NEW published \in (clock - SourceAge) .. clock, RateArrives(f, published) PROVE RateInv'
  <2>1. cache' = [published |-> published, at |-> clock] /\ published \in Int
        /\ clock - published <= SourceAge + StaleAge
    BY <1>1, <1>6 DEF RateArrives
  <2>2. cache' \in [published : Int, at : Int] /\ CacheIsRecent'
    BY <1>1, <1>6, <2>1 DEF CacheIsRecent, RateArrives
  <2> QED BY <1>1, <1>2, <1>6, <2>1, <2>2 DEF RateArrives
<1>7. ASSUME NEW f \in Fetch, Retried(f) PROVE RateInv'
  <2>1. PICK state : state = [fetch[f] EXCEPT !.try = fetch[f].try + 1]
    OBVIOUS
  <2>2. state \in States /\ state.step = "asking"
    BY <1>7, <2>1 DEF RateInv, RateTypeOK, Retried
  <2>3. CacheIsRecent'
    BY <1>1, <1>7 DEF CacheIsRecent, Retried
  <2>4. fetch' = [fetch EXCEPT ![f] = state]
    BY <1>7, <2>1 DEF Retried
  <2> QED BY <1>1, <1>7, <2>2, <2>3, <2>4, FetchStep DEF Retried
<1>8. ASSUME NEW f \in Fetch, Failed(f) PROVE RateInv'
  <2>1. rateFailures' \in Nat /\ reopens' \in Nat
    BY <1>1, <1>8, RateAssumption DEF Failed
  <2> QED BY <1>4, <1>8, <2>1 DEF Failed
<1>9. CASE RateTick
  <2>1. Waiting \in States /\ Waiting.step = "idle"
    BY <1>1 DEF Waiting
  <2>2. /\ fetch' \in [Fetch -> States]
        /\ \A f \in Fetch : fetch'[f].step # "given"
    BY <1>9, <2>1 DEF RateTick, RateInv, RateTypeOK
  <2>3. RateTypeOK' /\ RateAgeBounded'
    BY <1>1, <1>9, <2>2 DEF RateTick, RateTypeOK, RateAgeBounded
  <2>4. CacheIsRecent'
    BY <1>1, <1>9 DEF RateTick, CacheIsRecent
  <2> QED BY <2>3, <2>4 DEF RateInv
<1>10. CASE UNCHANGED rateVars
  BY <1>10 DEF rateVars, RateInv, RateTypeOK, CacheIsRecent, RateAgeBounded
<1> QED BY <1>5, <1>6, <1>7, <1>8, <1>9, <1>10 DEF RateNext

\* A rate given to a payment, fresh, stale or just answered, is no older than
\* the provider's lag and the stale cache allow together.
THEOREM SpecRateAgeBounded == RateSpec => []RateAgeBounded
<1>1. RateInit => RateInv
  <2> SUFFICES ASSUME RateInit PROVE RateInv
    OBVIOUS
  <2>1. RateTypeOK
    BY DEF RateInit, RateTypeOK, NoRate, Waiting
  <2> QED BY <2>1, RateAssumption DEF RateInit, RateInv, CacheIsRecent, RateAgeBounded, NoRate, Waiting
<1>2. RateInv => RateAgeBounded
  BY DEF RateInv
<1> QED BY <1>1, <1>2, NextRateInv, PTL DEF RateSpec

-----------------------------------------------------------------------------
(* Callbacks of the payment provider *)

\* A delivery that holds the row of its event.
Holds(d, e) == delivery[d].step \in {"order", "handle", "done", "failed"} /\ delivery[d].event = e

CallbackTypeOK ==
  /\ claims \in [Event -> [state : {"none", "processing", "completed", "failed"}, body : Bodies \cup {"none"}]]
  /\ delivery \in [Delivery -> {NotDelivered} \cup
                     [step : {"reclaim", "order", "handle", "done", "failed"}, event : Event]]
  /\ effects \in [Event -> 0 .. 2]

\* A row is held by one delivery, and only while it says "processing".
HeldOnce ==
  /\ \A d \in Delivery, e \in Event : Holds(d, e) => claims[e].state = "processing"
  /\ \A d, f \in Delivery, e \in Event : Holds(d, e) /\ Holds(f, e) => d = f

\* What took effect undisturbed is completed, or about to be, or its row is
\* left "processing" for good.
HandledIsHeld ==
  \A e \in Event \ shaken :
    /\ effects[e] <= 1
    /\ effects[e] = 1 => /\ claims[e].state \in {"processing", "completed"}
                         /\ \A d \in Delivery : Holds(d, e) => delivery[d].step = "done"

CallbackInv == CallbackTypeOK /\ HeldOnce /\ HandledIsHeld

\* A step of one delivery for one event.
LEMMA DeliveryStep ==
  ASSUME CallbackInv, NEW d \in Delivery, NEW e \in Event,
         NEW step \in {"idle", "reclaim", "order", "handle", "done", "failed"},
         \/ step = "idle" /\ Answered(d)
         \/ step # "idle" /\ DeliveryTo(d, step, e),
         claims' \in [Event -> [state : {"none", "processing", "completed", "failed"}, body : Bodies \cup {"none"}]],
         \A f \in Event \ {e} : claims'[f] = claims[f] /\ effects'[f] = effects[f],
         effects' \in [Event -> 0 .. 2], shaken \subseteq shaken', shaken' \subseteq shaken \cup {e},
         step \in {"order", "handle", "done", "failed"} =>
           claims'[e].state = "processing" /\ \A c \in Delivery \ {d} : ~ Holds(c, e),
         claims'[e] # claims[e] => \A c \in Delivery \ {d} : ~ Holds(c, e),
         e \notin shaken' => /\ effects'[e] <= 1
                             /\ effects'[e] = 1 => /\ claims'[e].state \in {"processing", "completed"}
                                                   /\ step \notin {"order", "handle", "failed"}
                                                   /\ \A c \in Delivery \ {d} : Holds(c, e) => delivery[c].step = "done"
  PROVE  CallbackInv'
<1>0. PICK next \in {NotDelivered} \cup [step : {"reclaim", "order", "handle", "done", "failed"}, event : Event] :
        delivery' = [delivery EXCEPT ![d] = next] /\ next.step = step /\ (step # "idle" => next.event = e)
  <2>1. CASE step = "idle"
    <3>1. PICK next : next = NotDelivered
      OBVIOUS
    <3>2. next.step = "idle"
      BY <3>1 DEF NotDelivered
    <3> QED BY <2>1, <3>1, <3>2 DEF Answered
  <2>2. CASE step # "idle"
    <3>1. PICK next : next = [step |-> step, event |-> e]
      OBVIOUS
    <3> QED BY <2>2, <3>1 DEF DeliveryTo
  <2> QED BY <2>1, <2>2
<1>1. CallbackTypeOK'
  BY <1>0 DEF CallbackInv, CallbackTypeOK
<1>2. delivery'[d].step = step /\ (step # "idle" => delivery'[d].event = e)
      /\ \A c \in Delivery \ {d} : delivery'[c] = delivery[c]
  BY <1>0 DEF CallbackInv, CallbackTypeOK
<1>3. \A f \in Event : Holds(d, f)' => f = e /\ step \in {"order", "handle", "done", "failed"}
  BY <1>2 DEF Holds
<1>4. \A c \in Delivery \ {d}, f \in Event : Holds(c, f)' <=> Holds(c, f)
  BY <1>2 DEF Holds
<1>5. HeldOnce'
  <2>1. ASSUME NEW c \in Delivery, NEW f \in Event, Holds(c, f)' PROVE claims'[f].state = "processing"
    BY <1>3, <1>4, <2>1 DEF HeldOnce, CallbackInv
  <2>2. ASSUME NEW c \in Delivery, NEW b \in Delivery, NEW f \in Event, Holds(c, f)', Holds(b, f)' PROVE c = b
    <3>1. CASE c = d \/ b = d
      BY <1>3, <1>4, <2>2, <3>1
    <3>2. CASE c # d /\ b # d
      BY <1>4, <2>2, <3>2 DEF HeldOnce, CallbackInv
    <3> QED BY <3>1, <3>2
  <2> QED BY <2>1, <2>2 DEF HeldOnce
<1>6. HandledIsHeld'
  <2>1. ASSUME NEW f \in Event \ shaken'
        PROVE  /\ effects'[f] <= 1
               /\ effects'[f] = 1 => claims'[f].state \in {"processing", "completed"}
    BY DEF HandledIsHeld, CallbackInv
  <2>2. ASSUME NEW f \in Event \ shaken', effects'[f] = 1, NEW c \in Delivery, Holds(c, f)'
        PROVE  delivery'[c].step = "done"
    <3>1. CASE c = d
      BY <1>2, <1>3, <2>2, <3>1
    <3>2. CASE c # d
      BY <1>2, <1>4, <2>2, <3>2 DEF HandledIsHeld, CallbackInv
    <3> QED BY <3>1, <3>2
  <2> QED BY <2>1, <2>2 DEF HandledIsHeld
<1> QED BY <1>1, <1>5, <1>6 DEF CallbackInv

\* Each step of a delivery, its crash included, leaves an event one holder at most.
LEMMA NextCallbackInv == CallbackInv /\ [CallbackNext]_callbackVars => CallbackInv'
<1> SUFFICES ASSUME CallbackInv, [CallbackNext]_callbackVars PROVE CallbackInv'
  OBVIOUS
<1> DEFINE States == [state : {"none", "processing", "completed", "failed"}, body : Bodies \cup {"none"}]
<1>1. ASSUME NEW e \in Event, NEW state \in {"processing", "completed", "failed"}, Put(e, state)
      PROVE  /\ claims' \in [Event -> States] /\ claims'[e].state = state
             /\ \A f \in Event \ {e} : claims'[f] = claims[f]
  BY <1>1 DEF Put, CallbackInv, CallbackTypeOK
<1>4. /\ claims \in [Event -> States] /\ effects \in [Event -> 0 .. 2] /\ HeldOnce /\ HandledIsHeld
      /\ \A e \in Event : NoClaim.state = "none"
  BY DEF CallbackInv, CallbackTypeOK, NoClaim
<1>5. ASSUME NEW d \in Delivery, NEW e \in Event, NEW body \in Bodies, ClaimCallback(d, e, body) PROVE CallbackInv'
  <2>1. CASE claims[e] = NoClaim
    <3>1. PICK row : row = [state |-> "processing", body |-> body]
      OBVIOUS
    <3>2. /\ claims' \in [Event -> States] /\ claims'[e].state = "processing"
          /\ \A f \in Event \ {e} : claims'[f] = claims[f]
      BY <1>4, <1>5, <2>1, <3>1 DEF ClaimCallback
    <3>3. DeliveryTo(d, "order", e)
      BY <1>5, <2>1 DEF ClaimCallback
    <3>4. (\A c \in Delivery : ~ Holds(c, e)) /\ (e \notin shaken => effects[e] = 0) /\ UNCHANGED <<effects, shaken>>
      BY <1>4, <1>5, <2>1 DEF HeldOnce, HandledIsHeld, ClaimCallback
    <3> QED BY <1>4, <3>2, <3>3, <3>4, DeliveryStep
  <2>2. CASE claims[e] # NoClaim
    <3>1. DeliveryTo(d, "reclaim", e)
      BY <1>5, <2>2 DEF ClaimCallback
    <3>2. claims[e].state = "failed" /\ UNCHANGED <<claims, effects, shaken>>
      BY <1>5, <2>2 DEF ClaimCallback
    <3>3. e \notin shaken => effects[e] = 0
      BY <1>4, <3>2 DEF HandledIsHeld
    <3> QED BY <1>4, <3>1, <3>2, <3>3, DeliveryStep
  <2> QED BY <2>1, <2>2
<1>6. ASSUME NEW d \in Delivery, NEW e \in Event, ReclaimCallback(d, e) PROVE CallbackInv'
  <2>1. CASE claims[e].state = "failed"
    <3>1. DeliveryTo(d, "order", e)
      BY <1>6, <2>1 DEF ReclaimCallback
    <3>2. /\ claims' \in [Event -> States] /\ claims'[e].state = "processing"
          /\ \A f \in Event \ {e} : claims'[f] = claims[f]
      BY <1>1, <1>6, <2>1 DEF ReclaimCallback
    <3>3. (\A c \in Delivery : ~ Holds(c, e)) /\ (e \notin shaken => effects[e] = 0) /\ UNCHANGED <<effects, shaken>>
      BY <1>4, <1>6, <2>1 DEF HeldOnce, HandledIsHeld, ReclaimCallback
    <3> QED BY <1>4, <3>1, <3>2, <3>3, DeliveryStep
  <2>2. CASE claims[e].state # "failed"
    <3>1. UNCHANGED <<claims, effects, shaken>> /\ Answered(d)
      BY <1>6, <2>2 DEF ReclaimCallback
    <3> QED BY <1>4, <3>1, DeliveryStep DEF HandledIsHeld
  <2> QED BY <2>1, <2>2
<1>7. ASSUME NEW d \in Delivery, NEW e \in Event, Order(d, e) PROVE CallbackInv'
  <2>1. /\ Holds(d, e) /\ claims[e].state = "processing" /\ UNCHANGED <<effects, shaken>>
        /\ \A c \in Delivery \ {d} : ~ Holds(c, e)
        /\ e \notin shaken => effects[e] = 0
    BY <1>4, <1>7 DEF Order, Delivering, Holds, HeldOnce, HandledIsHeld
  <2>2. CASE Put(e, "completed") /\ Answered(d)
    BY <1>1, <1>4, <2>1, <2>2, DeliveryStep
  <2>3. CASE DeliveryTo(d, "handle", e) /\ UNCHANGED claims
    <3>1. DeliveryTo(d, "handle", e)
      BY <2>3
    <3> QED BY <1>4, <2>1, <2>3, <3>1, DeliveryStep
  <2> QED BY <1>7, <2>2, <2>3 DEF Order
<1>8. ASSUME NEW d \in Delivery, NEW e \in Event, Handle(d, e) PROVE CallbackInv'
  <2>1. /\ Holds(d, e) /\ claims[e].state = "processing" /\ UNCHANGED claims
        /\ \A c \in Delivery \ {d} : ~ Holds(c, e)
        /\ e \notin shaken => effects[e] = 0
    BY <1>4, <1>8 DEF Handle, Delivering, Holds, HeldOnce, HandledIsHeld
  <2>2. CASE DeliveryTo(d, "failed", e) /\ UNCHANGED <<effects, shaken>>
    <3>1. DeliveryTo(d, "failed", e)
      BY <2>2
    <3> QED BY <1>4, <2>1, <2>2, <3>1, DeliveryStep
  <2>3. CASE effects' = [effects EXCEPT ![e] = IF @ < 2 THEN @ + 1 ELSE @]
    <3>1. /\ effects' \in [Event -> 0 .. 2] /\ \A f \in Event \ {e} : effects'[f] = effects[f]
          /\ e \notin shaken => effects'[e] = 1
      BY <1>4, <2>1, <2>3
    <3>2. CASE DeliveryTo(d, "done", e) /\ UNCHANGED shaken
      <4>1. DeliveryTo(d, "done", e)
        BY <3>2
      <4> QED BY <1>4, <2>1, <3>1, <3>2, <4>1, DeliveryStep
    <3>3. CASE DeliveryTo(d, "failed", e) /\ shaken' = shaken \cup {e}
      <4>1. DeliveryTo(d, "failed", e)
        BY <3>3
      <4> QED BY <1>4, <2>1, <3>1, <3>3, <4>1, DeliveryStep
    <3> QED BY <1>8, <2>2, <2>3, <3>2, <3>3 DEF Handle
  <2> QED BY <1>8, <2>2, <2>3 DEF Handle
<1>9. ASSUME NEW d \in Delivery, NEW e \in Event, Record(d, e) \/ RecordFailure(d, e) PROVE CallbackInv'
  <2>1. /\ Holds(d, e) /\ claims[e].state = "processing" /\ UNCHANGED effects
        /\ \A c \in Delivery \ {d} : ~ Holds(c, e)
        /\ effects[e] \in 0 .. 2 /\ (e \notin shaken => effects[e] <= 1)
        /\ delivery[d].step \in {"done", "failed"}
        /\ e \notin shaken /\ delivery[d].step = "failed" => effects[e] = 0
    BY <1>4, <1>9 DEF Record, RecordFailure, Delivering, Holds, HeldOnce, HandledIsHeld
  <2>2. CASE Answered(d) /\ UNCHANGED <<claims, shaken>>
    BY <1>4, <2>1, <2>2, DeliveryStep
  <2>3. CASE Put(e, "completed") /\ Answered(d) /\ UNCHANGED shaken
    BY <1>1, <1>4, <2>1, <2>3, DeliveryStep
  <2>4. CASE Put(e, "failed") /\ Answered(d) /\ UNCHANGED shaken /\ delivery[d].step = "failed"
    BY <1>1, <1>4, <2>1, <2>4, DeliveryStep
  <2>5. CASE DeliveryTo(d, "failed", e) /\ shaken' = shaken \cup {e} /\ UNCHANGED claims
    <3>1. DeliveryTo(d, "failed", e)
      BY <2>5
    <3> QED BY <1>4, <2>1, <2>5, <3>1, DeliveryStep
  <2> QED BY <1>9, <2>2, <2>3, <2>4, <2>5 DEF Record, RecordFailure, Delivering
<1>10. ASSUME NEW d \in Delivery, DeliveryDies(d) PROVE CallbackInv'
  <2>1. PICK e \in Event : TRUE
    BY <1>10 DEF DeliveryDies, CallbackInv, CallbackTypeOK
  <2>2. UNCHANGED <<claims, effects, shaken>> /\ Answered(d)
    BY <1>10 DEF DeliveryDies
  <2> QED BY <1>4, <2>2, DeliveryStep DEF HandledIsHeld
<1>11. CASE UNCHANGED callbackVars
  BY <1>11 DEF callbackVars, CallbackInv, CallbackTypeOK, HeldOnce, HandledIsHeld, Holds
<1> QED BY <1>5, <1>6, <1>7, <1>8, <1>9, <1>10, <1>11 DEF CallbackNext

\* The handler of a callback takes effect once, unless an error followed an
\* effect of it.
THEOREM SpecEffectOnce == CallbackSpec => []EffectOnce
<1>1. CallbackInit => CallbackInv
  BY DEF CallbackInit, CallbackInv, CallbackTypeOK, HeldOnce, HandledIsHeld, Holds, NoClaim, NotDelivered
<1>2. CallbackInv => EffectOnce
  BY DEF CallbackInv, CallbackTypeOK, HandledIsHeld, EffectOnce
<1> QED BY <1>1, <1>2, NextCallbackInv, PTL DEF CallbackSpec

-----------------------------------------------------------------------------
(* Dead letters *)

Records(r) == Works(r, "recording") \/ Works(r, "ending")

\* The run that holds the job.
HoldsTask(r) == ~ Works(r, "idle") /\ r \notin late

\* What was handled to the end is being recorded by the run that holds the job,
\* or is marked so and its job is over.
HandledIsOver ==
  /\ runs \in {0, 1}
  /\ \A r \in Runner : Records(r) => r \notin late /\ runs = 1
  /\ \A r \in Runner : Works(r, "ending") => processed = "completed"
  /\ runs = 1 => \/ \E r \in Runner : Records(r)
                 \/ processed = "completed" /\ task.state \in {"completed", "none"}

HeldByOne ==
  /\ \A r \in Runner : HoldsTask(r) => task.state = "active"
  /\ \A r, s \in Runner : HoldsTask(r) /\ HoldsTask(s) => r = s
  /\ \A r \in late : ~ Works(r, "idle")

SendKnows == \A o \in Operator : OpAt(o, "send") => op[o].saw # "completed"

TaskSteps == {"idle", "starting", "handling", "recording", "ending"}

LetterTypeOK ==
  /\ task \in [state : {"none", "waiting", "active", "failed", "completed"}, tries : Nat]
  /\ working \in [Runner -> TaskSteps] /\ late \subseteq Runner
  /\ op \in [Operator -> {Resting} \cup [step : {"check", "mark", "discard"}, process : Callers, letter : Letter]
               \cup [step : {"send", "mark"}, process : Callers, letter : Letter,
                     saw : {"queued", "processing", "completed", "nothing"}]]
  /\ processed \in {"queued", "processing", "completed"}

LetterInv == LetterTypeOK /\ HeldByOne /\ SendKnows /\ (excused \/ HandledIsOver)

\* A step of one run changes what the run does, and nothing of another run.
LEMMA WorkSteps ==
  ASSUME LetterTypeOK, NEW r \in Runner, NEW step \in TaskSteps, WorkOn(r, step)
  PROVE  /\ working' \in [Runner -> TaskSteps]
         /\ working'[r] = step
         /\ \A s \in Runner \ {r} : working'[s] = working[s]
BY DEF LetterTypeOK, WorkOn

\* The run that holds the job and has not handled the message yet is the first
\* to do so.
LEMMA FirstRun ==
  ASSUME HeldByOne, HandledIsOver, NEW r \in Runner, HoldsTask(r), ~ Records(r)
  PROVE  runs = 0
<1>1. \A s \in Runner : ~ Records(s)
  BY DEF HeldByOne, HandledIsOver, HoldsTask, Records, Works
<1> QED BY <1>1 DEF HeldByOne, HandledIsOver

\* Nor was it handled, if the job is there and nobody records that.
LEMMA WaitingIsFirst ==
  ASSUME HeldByOne, HandledIsOver, task.state \notin {"active", "completed", "none"}
  PROVE  runs = 0 /\ \A r \in Runner : ~ Records(r)
<1>1. \A r \in Runner : ~ Records(r)
  BY DEF HeldByOne, HandledIsOver, HoldsTask, Records, Works
<1> QED BY <1>1 DEF HandledIsOver

\* The steps of the runs of the job.
LEMMA RunKeepsLetterInv ==
  ASSUME LetterInv, NEW r \in Runner,
         \/ Start(r) \/ SkipTask(r) \/ StartHandler(r) \/ EndHandler(r)
         \/ \E marked \in BOOLEAN : MarkCompletion(r, marked)
         \/ FinishTask(r) \/ Fault(r) \/ StallTask(r)
  PROVE  LetterInv'
<1> USE DEF LetterInv, TaskSteps
<1>0. LetterTypeOK /\ HeldByOne
  OBVIOUS
<1>1. CASE Start(r)
  <2>1. /\ working' \in [Runner -> TaskSteps] /\ working'[r] = "starting"
        /\ \A s \in Runner \ {r} : working'[s] = working[s]
    BY <1>0, <1>1, WorkSteps DEF Start
  <2>2. /\ r \notin late /\ late' = late /\ \A s \in Runner : ~ HoldsTask(s)
        /\ task' \in [state : {"active"}, tries : Nat] /\ task.state = "waiting"
    BY <1>0, <1>1 DEF Start, HeldByOne, LetterTypeOK
  <2>3. LetterTypeOK' /\ SendKnows' /\ HeldByOne'
    BY <1>0, <1>1, <2>1, <2>2 DEF Start, LetterTypeOK, SendKnows, OpAt, HeldByOne, HoldsTask, Works
  <2>4. ASSUME HandledIsOver PROVE HandledIsOver'
    <3>1. runs = 0 /\ \A s \in Runner : ~ Records(s)
      BY <1>0, <2>2, <2>4, WaitingIsFirst
    <3> QED BY <1>1, <2>1, <2>4, <3>1 DEF Start, HandledIsOver, Records, Works
  <2> QED BY <1>1, <2>3, <2>4 DEF Start
<1>2. ASSUME NEW state \in {"completed", "waiting", "failed"}, WorkOn(r, "idle"), late' = late \ {r},
             \/ r \in late /\ task' = task
             \/ r \notin late /\ task' \in [state : {state}, tries : Nat],
             ~ Works(r, "idle"), UNCHANGED <<processed, op, runs>>,
             excused => excused',
             excused' \/ ~ Records(r) \/ (Works(r, "ending") /\ state = "completed")
      PROVE  LetterInv'
  <2>1. /\ working' \in [Runner -> TaskSteps] /\ working'[r] = "idle"
        /\ \A s \in Runner \ {r} : working'[s] = working[s]
    BY <1>0, <1>2, WorkSteps
  <2>2. LetterTypeOK' /\ SendKnows'
    BY <1>0, <1>2, <2>1 DEF LetterTypeOK, SendKnows, OpAt
  <2>3. HeldByOne'
    <3>1. \A s \in Runner : HoldsTask(s)' => s # r /\ HoldsTask(s)
      BY <1>2, <2>1 DEF HoldsTask, Works
    <3>2. \A s \in Runner : HoldsTask(s)' => task' = task
      BY <1>0, <1>2, <3>1 DEF HeldByOne, HoldsTask
    <3>3. \A s \in late' : s \in Runner \ {r} /\ ~ Works(s, "idle")'
      BY <1>0, <1>2, <2>1 DEF HeldByOne, LetterTypeOK, Works
    <3> QED BY <1>0, <3>1, <3>2, <3>3 DEF HeldByOne
  <2>4. ASSUME HandledIsOver, ~ excused' PROVE HandledIsOver'
    <3>1. CASE r \in late
      <4>1. ~ Records(r)
        BY <2>4, <3>1 DEF HandledIsOver
      <4>2. \A s \in Runner : Records(s)' <=> Records(s)
        BY <2>1, <4>1 DEF Records, Works
      <4> QED BY <1>2, <2>1, <2>4, <3>1, <4>2 DEF HandledIsOver, Works
    <3>2. CASE r \notin late /\ ~ Records(r)
      <4>1. runs = 0
        BY <1>0, <1>2, <2>4, <3>2, FirstRun DEF HoldsTask
      <4>2. \A s \in Runner : ~ Records(s)
        BY <2>4, <4>1 DEF HandledIsOver
      <4> QED BY <1>2, <2>1, <4>1, <4>2 DEF HandledIsOver, Records, Works
    <3>3. CASE r \notin late /\ Works(r, "ending") /\ state = "completed"
      <4>1. processed = "completed" /\ runs = 1
        BY <2>4, <3>3 DEF HandledIsOver, Records
      <4>2. \A s \in Runner : ~ Records(s)'
        BY <1>0, <1>2, <2>1, <2>4, <3>3 DEF HeldByOne, HandledIsOver, HoldsTask, Records, Works
      <4> QED BY <1>2, <3>3, <4>1, <4>2 DEF HandledIsOver, Records
    <3> QED BY <1>2, <2>4, <3>1, <3>2, <3>3
  <2> QED BY <1>2, <2>2, <2>3, <2>4 DEF HandledIsOver
<1>3. CASE SkipTask(r) \/ FinishTask(r)
  <2>1. /\ WorkOn(r, "idle") /\ late' = late \ {r} /\ UNCHANGED <<processed, op, runs, excused>>
        /\ task' = IF r \in late THEN task ELSE [task EXCEPT !.state = "completed"]
        /\ Works(r, "starting") \/ Works(r, "ending")
    <3>1. CASE SkipTask(r)
      BY <3>1 DEF SkipTask, EndTask
    <3>2. CASE FinishTask(r)
      BY <3>2 DEF FinishTask, EndTask
    <3> QED BY <1>3, <3>1, <3>2
  <2>3. ~ Works(r, "idle") /\ (Works(r, "ending") \/ ~ Records(r))
    BY <2>1 DEF Works, Records
  <2>2. (r \in late /\ task' = task) \/ (r \notin late /\ task' \in [state : {"completed"}, tries : Nat])
    BY <1>0, <2>1 DEF LetterTypeOK
  <2> QED BY <1>2, <2>1, <2>2, <2>3
<1>4. CASE Fault(r)
  <2>1. /\ WorkOn(r, "idle") /\ late' = late \ {r} /\ UNCHANGED <<processed, op, runs, excused>>
        /\ ~ Works(r, "idle") /\ ~ Records(r)
        /\ task' = IF r \in late THEN task
                   ELSE [state |-> IF task.tries + 1 < MaxFailures THEN "waiting" ELSE "failed",
                         tries |-> task.tries + 1]
    BY <1>4 DEF Fault, Works, Records
  <2>2. PICK state \in {"waiting", "failed"} :
          (r \in late /\ task' = task) \/ (r \notin late /\ task' \in [state : {state}, tries : Nat])
    BY <1>0, <2>1 DEF LetterTypeOK
  <2> QED BY <1>2, <2>1, <2>2
<1>5. ASSUME NEW step \in {"handling", "recording", "ending"}, WorkOn(r, step), ~ Works(r, "idle"),
             UNCHANGED <<task, late, op>>, processed' \in {"queued", "processing", "completed"},
             excused' \/ HandledIsOver'
      PROVE  LetterInv'
  <2>1. /\ working' \in [Runner -> TaskSteps] /\ working'[r] = step
        /\ \A s \in Runner \ {r} : working'[s] = working[s]
    BY <1>0, <1>5, WorkSteps
  <2>2. LetterTypeOK' /\ SendKnows'
    BY <1>0, <1>5, <2>1 DEF LetterTypeOK, SendKnows, OpAt
  <2>3. HeldByOne'
    <3>1. \A s \in Runner : (HoldsTask(s)' <=> HoldsTask(s)) /\ (~ Works(s, "idle") => ~ Works(s, "idle")')
      BY <1>5, <2>1 DEF HoldsTask, Works
    <3> QED BY <1>0, <1>5, <3>1 DEF HeldByOne, LetterTypeOK
  <2> QED BY <1>5, <2>2, <2>3
<1>6. ASSUME NEW step \in TaskSteps, WorkOn(r, step)
      PROVE  /\ \A s \in Runner \ {r} : Records(s)' <=> Records(s)
             /\ \A s \in Runner \ {r} : Works(s, "ending")' <=> Works(s, "ending")
             /\ \A other : Works(r, other)' <=> step = other
  BY <1>0, <1>6, WorkSteps DEF Records, Works
<1>7. CASE StartHandler(r) \/ EndHandler(r)
  <2>1. PICK step \in {"handling", "recording"} :
          /\ WorkOn(r, step) /\ (StartHandler(r) => step = "handling") /\ (EndHandler(r) => step = "recording")
    BY <1>7 DEF StartHandler, EndHandler, Works
  <2>2. excused' = (excused \/ r \in late) /\ ~ Works(r, "idle") /\ ~ Records(r) /\ UNCHANGED <<task, late, op>>
    BY <1>7 DEF StartHandler, EndHandler, Works, Records
  <2>3. ASSUME ~ excused' PROVE HandledIsOver'
    <3>1. HandledIsOver /\ r \notin late
      BY <2>2, <2>3
    <3>2. runs = 0
      BY <1>0, <2>2, <3>1, FirstRun DEF HoldsTask
    <3>3. \A s \in Runner : ~ Records(s)
      BY <3>1, <3>2 DEF HandledIsOver
    <3>4. \A s \in Runner \ {r} : ~ Records(s)'
      BY <1>6, <2>1, <3>3
    <3>5. CASE StartHandler(r)
      <4>1. \A s \in Runner : ~ Records(s)'
        BY <1>6, <2>1, <3>4, <3>5 DEF Records
      <4> QED BY <3>2, <3>5, <4>1 DEF StartHandler, HandledIsOver, Records
    <3>6. CASE EndHandler(r)
      <4>1. runs' = 1 /\ late' = late /\ Records(r)' /\ ~ Works(r, "ending")'
        BY <1>6, <2>1, <3>2, <3>6 DEF EndHandler, Records
      <4> QED BY <3>1, <3>4, <4>1 DEF HandledIsOver, Records
    <3> QED BY <1>7, <3>5, <3>6
  <2>4. processed' \in {"queued", "processing", "completed"}
    BY <1>0, <1>7 DEF StartHandler, EndHandler, LetterTypeOK
  <2> QED BY <1>5, <2>1, <2>2, <2>3, <2>4
<1>8. ASSUME NEW marked \in BOOLEAN, MarkCompletion(r, marked) PROVE LetterInv'
  <2>1. /\ WorkOn(r, "ending") /\ Works(r, "recording") /\ UNCHANGED <<task, late, op, runs>>
        /\ processed' \in {processed, "completed"} /\ (marked => processed' = "completed")
        /\ excused' = (excused \/ ~ marked)
    BY <1>8 DEF MarkCompletion
  <2>2. ASSUME ~ excused' PROVE HandledIsOver'
    <3>1. HandledIsOver /\ processed' = "completed" /\ r \notin late /\ runs = 1
      BY <2>1, <2>2 DEF HandledIsOver, Records
    <3>2. Records(r)' /\ \A s \in Runner \ {r} : Records(s)' <=> Records(s)
      BY <1>6, <2>1 DEF Records
    <3> QED BY <2>1, <3>1, <3>2 DEF HandledIsOver
  <2>3. ~ Works(r, "idle") /\ processed' \in {"queued", "processing", "completed"}
    BY <1>0, <2>1 DEF Works, LetterTypeOK
  <2> QED BY <1>5, <2>1, <2>2, <2>3
<1>9. CASE StallTask(r)
  <2>1. PICK state \in {"waiting", "failed"} : task' = [task EXCEPT !.state = state]
    BY <1>9 DEF StallTask
  <2>2. /\ ~ Works(r, "idle") /\ r \notin late /\ UNCHANGED <<processed, op, runs>>
        /\ excused' = (excused \/ Records(r)) /\ task' \in [state : {state}, tries : Nat]
    BY <1>0, <1>9, <2>1 DEF StallTask, LetterTypeOK, Records
  <2>3. CASE WorkOn(r, "idle") /\ UNCHANGED late
    <3>1. late' = late \ {r} /\ (excused => excused') /\ (excused' \/ ~ Records(r))
      BY <2>2, <2>3
    <3> QED BY <1>2, <2>2, <2>3, <3>1
  <2>4. CASE late' = late \cup {r} /\ UNCHANGED working
    <3>1. LetterTypeOK' /\ SendKnows'
      BY <1>0, <2>2, <2>4 DEF LetterTypeOK, SendKnows, OpAt
    <3>2. HeldByOne'
      BY <1>0, <2>2, <2>4 DEF HeldByOne, HoldsTask, Works
    <3>3. ASSUME ~ excused' PROVE HandledIsOver'
      <4>1. HandledIsOver /\ ~ Records(r)
        BY <2>2, <3>3
      <4>2. runs = 0
        BY <1>0, <2>2, <4>1, FirstRun DEF HoldsTask
      <4> QED BY <2>2, <2>4, <4>1, <4>2 DEF HandledIsOver, Records, Works
    <3> QED BY <3>1, <3>2, <3>3
  <2> QED BY <1>9, <2>3, <2>4 DEF StallTask
<1> QED BY <1>1, <1>3, <1>4, <1>7, <1>8, <1>9

\* Whoever retries a letter, or discards it, leaves its job done once at most.
LEMMA NextLetterInv == LetterInv /\ [LetterNext]_letterVars => LetterInv'
<1> SUFFICES ASSUME LetterInv, [LetterNext]_letterVars PROVE LetterInv'
  OBVIOUS
<1> USE DEF LetterInv
<1> DEFINE Ops == {Resting} \cup [step : {"check", "mark", "discard"}, process : Callers, letter : Letter]
               \cup [step : {"send", "mark"}, process : Callers, letter : Letter,
                     saw : {"queued", "processing", "completed", "nothing"}]
           Tasks == [state : {"none", "waiting", "active", "failed", "completed"}, tries : Nat]
<1>0. /\ task \in Tasks /\ task.state \in {"none", "waiting", "active", "failed", "completed"} /\ task.tries \in Nat
      /\ op \in [Operator -> Ops] /\ processed \in {"queued", "processing", "completed"}
  BY DEF LetterTypeOK
<1>1. CASE Trim
  <2>1. NoJob \in Tasks /\ NoJob.state = "none"
    BY DEF NoJob
  <2>2. task' = NoJob /\ task.state \in {"failed", "completed"} /\ UNCHANGED <<processed, working, late, op, runs, excused>>
    BY <1>1 DEF Trim
  <2>3. LetterTypeOK' /\ SendKnows' /\ HeldByOne'
    BY <2>1, <2>2 DEF LetterTypeOK, SendKnows, OpAt, HeldByOne, HoldsTask, Works
  <2>4. HandledIsOver => HandledIsOver'
    BY <2>1, <2>2, WaitingIsFirst DEF HandledIsOver, Records, Works
  <2> QED BY <2>2, <2>3, <2>4
<1>2. ASSUME UNCHANGED <<jobVars, op, excused>> PROVE LetterInv'
  BY <1>2 DEF jobVars, LetterTypeOK, SendKnows, OpAt, HeldByOne, HoldsTask, HandledIsOver, Records, Works
<1>3. CASE RestartApi
  BY <1>2, <1>3 DEF RestartApi
\* Requests that leave the job and the marks alone.
<1>4. ASSUME NEW o \in Operator, NEW new \in Ops, op' = [op EXCEPT ![o] = new],
             new.step = "send" => new.saw # "completed", UNCHANGED <<jobVars, excused>>
      PROVE  LetterInv'
  <2>1. op' \in [Operator -> Ops] /\ op'[o] = new /\ \A p \in Operator \ {o} : op'[p] = op[p]
    BY <1>0, <1>4
  <2> QED BY <1>0, <1>4, <2>1 DEF LetterTypeOK, SendKnows, OpAt, HeldByOne, HoldsTask, HandledIsOver, Records, Works, jobVars
<1>5. Resting \in Ops /\ Resting.step = "idle"
  BY DEF Resting
<1>6. ASSUME NEW o \in Operator, CheckReplay(o) \/ Mark(o) \/ Discarded(o) \/ OperatorDies(o) PROVE LetterInv'
  <2>1. CASE Rest(o)
    BY <1>4, <1>5, <1>6, <2>1 DEF Rest, CheckReplay, Mark, Discarded, OperatorDies
  <2>2. ASSUME NEW saw \in {processed, "nothing"}, saw # "completed", GoOn(o, saw), OpAt(o, "check") PROVE LetterInv'
    <3>1. op[o].process \in Callers /\ op[o].letter \in Letter
      BY <1>0, <2>2 DEF OpAt, Resting
    <3>2. PICK new : new = [step |-> "send", process |-> op[o].process, letter |-> op[o].letter, saw |-> saw]
      OBVIOUS
    <3>3. new \in Ops /\ new.step = "send" /\ new.saw = saw
      BY <1>0, <3>1, <3>2
    <3> QED BY <1>4, <1>6, <2>2, <3>2, <3>3 DEF GoOn, CheckReplay, Mark, Discarded, OperatorDies
  <2> QED BY <1>6, <2>1, <2>2 DEF CheckReplay, Mark, Discarded, OperatorDies
<1>7. ASSUME NEW o \in Operator, ReplayJob(o) PROVE LetterInv'
  <2>1. PICK new : new = [op[o] EXCEPT !.step = "mark"]
    OBVIOUS
  <2>2. new \in Ops /\ new.step = "mark" /\ op' = [op EXCEPT ![o] = new]
    BY <1>0, <1>7, <2>1 DEF ReplayJob, OpAt, Resting
  <2>3. CASE UNCHANGED <<task, excused>>
    BY <1>4, <1>7, <2>2, <2>3 DEF ReplayJob, jobVars
  <2>4. CASE ~ UNCHANGED <<task, excused>> /\ task' = Enqueued /\ excused' = (excused \/ (processed = "completed" /\ op[o].saw # "completed"))
    <3>1. op' \in [Operator -> Ops] /\ op'[o] = new /\ \A p \in Operator \ {o} : op'[p] = op[p]
      BY <1>0, <2>2
    <3>2. SendKnows'
      BY <2>2, <3>1 DEF SendKnows, OpAt
    <3>3. op[o].saw # "completed"
      BY <1>7 DEF ReplayJob, SendKnows
    <3>4. task = NoJob /\ UNCHANGED <<processed, working, late, runs>> /\ Enqueued \in Tasks
      BY <1>7, <2>3, <2>4 DEF ReplayJob, Enqueued
    <3>5. excused' \/ HandledIsOver'
      <4>1. \A r \in Runner : HandledIsOver => ~ Records(r)
        BY <3>4 DEF NoJob, HeldByOne, HandledIsOver, HoldsTask, Records, Works
      <4> QED BY <2>4, <3>3, <3>4, <4>1 DEF HandledIsOver, Records, Works
    <3>6. LetterTypeOK' /\ HeldByOne'
      BY <1>0, <2>4, <3>1, <3>4 DEF LetterTypeOK, HeldByOne, HoldsTask, NoJob, Works
    <3> QED BY <3>2, <3>5, <3>6
  <2> QED BY <1>7, <2>3, <2>4 DEF ReplayJob
<1>8. ASSUME NEW o \in Operator, NEW l \in Letter, NEW process \in Callers, Look(o, process, l) \/ Discard(o, l)
      PROVE  LetterInv'
  <2>1. CASE Look(o, process, l)
    <3>1. PICK new : new = [step |-> "check", process |-> process, letter |-> l]
      OBVIOUS
    <3>2. new \in Ops /\ new.step = "check"
      BY <3>1
    <3> QED BY <1>4, <2>1, <3>1, <3>2 DEF Look
  <2>2. CASE Discard(o, l)
    <3>1. PICK new : new = [step |-> "discard", process |-> "api", letter |-> l]
      OBVIOUS
    <3>2. new \in Ops /\ new.step = "discard"
      BY <3>1 DEF Callers
    <3> QED BY <1>4, <2>2, <3>1, <3>2 DEF Discard
  <2> QED BY <1>8, <2>1, <2>2
<1>9. CASE UNCHANGED letterVars
  BY <1>2, <1>9 DEF letterVars, jobVars
<1>10. \E process : process \in Callers
  BY DEF Callers
<1> QED BY RunKeepsLetterInv, <1>1, <1>3, <1>6, <1>7, <1>8, <1>9, <1>10 DEF LetterNext

\* A message is handled to the end once, whoever replays its dead letter
\* whenever, but for the exceptions that are noted.
THEOREM SpecDoneOnce == LetterSpec => []DoneOnce
<1>1. LetterInit => LetterInv
  BY DEF LetterInit, LetterInv, LetterTypeOK, SendKnows, HandledIsOver, HeldByOne, HoldsTask,
         Records, TaskSteps, Works, OpAt, Resting, Enqueued
<1>2. LetterInv => DoneOnce
  BY DEF LetterInv, HandledIsOver, DoneOnce
<1> QED BY <1>1, <1>2, NextLetterInv, PTL DEF LetterSpec

-----------------------------------------------------------------------------
(* Horizon endpoints *)

\* A write is under way without a copy, or it ended with one at most, and a
\* result that does not deny that it may have arrived.
WriteKnown(r) ==
  r.method = "post" =>
    /\ r.copies \in {0, 1}
    /\ r.step = "sent" => r.copies = 0
    /\ r.copies = 1 => r.result \in {"ok", "uncertain", "gateway"}

RequestFields == {"step", "method", "candidates", "at", "answers", "copies", "result"}

PoolInv ==
  /\ DOMAIN request = Request
  /\ \A q \in Request : \/ request[q] = NotSent
                        \/ /\ DOMAIN request[q] = RequestFields
                           /\ request[q] = [f \in RequestFields |-> request[q][f]]
                           /\ request[q].step \in {"sent", "ended"}
                           /\ WriteKnown(request[q])

\* One request takes a step.
LEMMA RequestStep ==
  ASSUME PoolInv, NEW q \in Request, NEW r, request' = [request EXCEPT ![q] = r],
         \/ r = NotSent
         \/ DOMAIN r = RequestFields /\ r = [f \in RequestFields |-> r[f]] /\ r.step \in {"sent", "ended"} /\ WriteKnown(r)
  PROVE  PoolInv'
<1>1. DOMAIN request' = Request /\ request'[q] = r /\ \A p \in Request \ {q} : request'[p] = request[p]
  BY DEF PoolInv
<1> QED BY <1>1 DEF PoolInv

\* A request that goes on, or to the next endpoint, has left its write no second copy.
LEMMA NextPoolInv == PoolInv /\ [PoolNext]_poolVars => PoolInv'
<1> SUFFICES ASSUME PoolInv, [PoolNext]_poolVars PROVE PoolInv'
  OBVIOUS
<1>1. ASSUME UNCHANGED request PROVE PoolInv'
  BY <1>1 DEF PoolInv
<1>2. ASSUME NEW q \in Request, NEW method \in {"get", "post"}, Dispatch(q, method) PROVE PoolInv'
  <2>1. PICK r : r = [step |-> IF Available = <<>> THEN "ended" ELSE "sent",
                      method |-> method, candidates |-> Available, at |-> 1, answers |-> {}, copies |-> 0,
                      result |-> IF Available = <<>> THEN "outage" ELSE "none"]
    OBVIOUS
  <2>2. DOMAIN r = RequestFields /\ r = [f \in RequestFields |-> r[f]] /\ r.step \in {"sent", "ended"} /\ r.copies = 0
    BY <2>1 DEF RequestFields
  <2>3. request' = [request EXCEPT ![q] = r]
    BY <1>2, <2>1 DEF Dispatch
  <2>4. WriteKnown(r)
    BY <2>2 DEF WriteKnown
  <2> QED BY <2>2, <2>3, <2>4, RequestStep
\* A request that waits goes on.
<1>3. ASSUME NEW q \in Request, Waits(q), NEW r, request' = [request EXCEPT ![q] = r],
             DOMAIN r = DOMAIN request[q], r = [f \in DOMAIN r |-> r[f]], r.method = request[q].method,
             r.step \in {"sent", "ended"},
             r.method = "post" => /\ r.copies = request[q].copies \/ r.copies = request[q].copies + 1
                                  /\ r.copies # request[q].copies => /\ r.step = "ended"
                                                                     /\ r.result \in {"ok", "uncertain", "gateway"}
      PROVE  PoolInv'
  <2>1. DOMAIN request[q] = RequestFields /\ WriteKnown(request[q]) /\ request[q].step = "sent"
    BY <1>3 DEF PoolInv, Waits, NotSent
  <2>2. DOMAIN r = RequestFields /\ r = [f \in RequestFields |-> r[f]] /\ WriteKnown(r)
    BY <1>3, <2>1 DEF WriteKnown
  <2> QED BY <1>3, <2>2, RequestStep
<1>4. ASSUME NEW q \in Request, Waits(q)
      PROVE  request[q] = [f \in RequestFields |-> request[q][f]] /\ request[q].step = "sent"
  BY <1>4 DEF PoolInv, Waits, NotSent
<1>5. ASSUME NEW q \in Request, Ok(q) PROVE PoolInv'
  <2>1. PICK r : r = [request[q] EXCEPT !.step = "ended", !.result = "ok", !.copies = @ + 1]
    OBVIOUS
  <2>2. request' = [request EXCEPT ![q] = r]
    BY <1>5, <2>1 DEF Ok
  <2>3. /\ DOMAIN r = DOMAIN request[q] /\ r = [f \in DOMAIN r |-> r[f]] /\ r.method = request[q].method
        /\ r.step = "ended" /\ r.result = "ok" /\ r.copies = request[q].copies + 1
    BY <1>4, <1>5, <2>1 DEF Ok, RequestFields
  <2> QED BY <1>3, <1>5, <2>2, <2>3 DEF Ok
<1>6. ASSUME NEW q \in Request, Waits(q), Oversized(q) PROVE PoolInv'
  <2>1. PICK r : r = [request[q] EXCEPT !.step = "ended", !.result = "large",
                             !.answers = @ \cup {RouteLimit[request[q].method]}]
    OBVIOUS
  <2>2. request' = [request EXCEPT ![q] = r]
    BY <1>6, <2>1 DEF Oversized
  <2>3. /\ DOMAIN r = DOMAIN request[q] /\ r = [f \in DOMAIN r |-> r[f]] /\ r.method = request[q].method
        /\ r.step = "ended" /\ r.copies = request[q].copies
    BY <1>4, <1>6, <2>1 DEF RequestFields
  <2> QED BY <1>3, <1>6, <2>2, <2>3
<1>7. ASSUME NEW q \in Request, NEW answer, ReadFails(q, answer) PROVE PoolInv'
  <2>1. PICK r : r = IF request[q].at = Len(request[q].candidates)
                     THEN [request[q] EXCEPT !.answers = @ \cup {answer}, !.step = "ended", !.result = LastWord(q, answer)]
                     ELSE [request[q] EXCEPT !.answers = @ \cup {answer}, !.at = @ + 1]
    OBVIOUS
  <2>2. request' = [request EXCEPT ![q] = r]
    <3>1. PICK known : known = [request[q] EXCEPT !.answers = @ \cup {answer}]
      OBVIOUS
    <3>2. PICK all : all = [request EXCEPT ![q] = known]
      OBVIOUS
    <3>3. all = [request EXCEPT ![q].answers = @ \cup {answer}] /\ all[q] = known /\ DOMAIN all = Request
      BY <3>1, <3>2 DEF PoolInv
    <3>4. request' = IF request[q].at = Len(request[q].candidates)
                     THEN [all EXCEPT ![q].step = "ended", ![q].result = LastWord(q, answer)]
                     ELSE [all EXCEPT ![q].at = @ + 1]
      BY <1>7, <3>3 DEF ReadFails
    <3>5. CASE request[q].at = Len(request[q].candidates)
      <4>1. r = [known EXCEPT !.step = "ended", !.result = LastWord(q, answer)]
        BY <2>1, <3>1, <3>5
      <4> QED BY <3>2, <3>3, <3>4, <3>5, <4>1
    <3>6. CASE request[q].at # Len(request[q].candidates)
      <4>1. r = [known EXCEPT !.at = @ + 1]
        BY <2>1, <3>1, <3>6
      <4> QED BY <3>2, <3>3, <3>4, <3>6, <4>1
    <3> QED BY <3>5, <3>6
  <2>3. /\ DOMAIN r = DOMAIN request[q] /\ r = [f \in DOMAIN r |-> r[f]] /\ r.method = request[q].method
        /\ r.step \in {"sent", "ended"}
    BY <1>4, <1>7, <2>1 DEF ReadFails, RequestFields
  <2> QED BY <1>3, <1>7, <2>2, <2>3 DEF ReadFails, Write
<1>8. ASSUME NEW q \in Request, NEW answer \in {"error", "gateway", "lost"}, WriteFails(q, answer) PROVE PoolInv'
  <2>1. PICK taken \in {0, 1} :
          /\ answer = "error" => taken = 0
          /\ request' = [request EXCEPT ![q].step = "ended", ![q].answers = {answer}, ![q].copies = @ + taken,
                                        ![q].result = IF IsAmbiguous(answer) THEN "uncertain" ELSE answer]
    BY <1>8 DEF WriteFails
  <2>2. PICK r : r = [request[q] EXCEPT !.step = "ended", !.answers = {answer}, !.copies = @ + taken,
                                        !.result = IF IsAmbiguous(answer) THEN "uncertain" ELSE answer]
    OBVIOUS
  <2>3. request' = [request EXCEPT ![q] = r]
    BY <2>1, <2>2
  <2>4. /\ DOMAIN r = DOMAIN request[q] /\ r = [f \in DOMAIN r |-> r[f]] /\ r.method = request[q].method
        /\ r.step = "ended" /\ r.result \in {"uncertain", answer} /\ r.copies = request[q].copies + taken
        /\ answer = "lost" => r.result = "uncertain"
    <3>1. PICK word : word = IF IsAmbiguous(answer) THEN "uncertain" ELSE answer
      OBVIOUS
    <3>2. word \in {"uncertain", answer} /\ (answer = "lost" => word = "uncertain")
      BY <3>1 DEF IsAmbiguous
    <3>3. r = [request[q] EXCEPT !.step = "ended", !.answers = {answer}, !.copies = @ + taken, !.result = word]
      BY <2>2, <3>1
    <3>4. DOMAIN request[q] = RequestFields /\ request[q].step = "sent"
      BY <1>4, <1>8 DEF WriteFails
    <3>5. DOMAIN r = DOMAIN request[q] /\ r = [f \in DOMAIN r |-> r[f]]
      BY <3>3
    <3>6. r.step = "ended" /\ r.copies = request[q].copies + taken /\ r.result = word
          /\ r.method = request[q].method
      BY <3>3, <3>4 DEF RequestFields
    <3> QED BY <3>2, <3>5, <3>6
  <2>5. request[q].copies = 0
    BY <1>8 DEF WriteFails, PoolInv, WriteKnown, NotSent, Waits, Write
  <2>6. r.copies # request[q].copies => taken = 1 /\ r.result \in {"ok", "uncertain", "gateway"}
    BY <2>1, <2>4, <2>5
  <2>7. r.copies = request[q].copies \/ r.copies = request[q].copies + 1
    BY <2>4, <2>5
  <2> QED BY <1>3, <1>8, <2>3, <2>4, <2>6, <2>7 DEF WriteFails
<1>9. ASSUME NEW q \in Request, Close(q) PROVE PoolInv'
  BY <1>9, RequestStep DEF Close
<1> QED BY <1>1, <1>2, <1>5, <1>6, <1>7, <1>8, <1>9 DEF PoolNext, TimeGoesOn, TooLarge, TooLargeLater, poolVars

\* A write reaches the network once, and one that may have is not reported as
\* refused or unsent.
THEOREM SpecWriteOnce == PoolSpec => []WriteOnce
<1>1. PoolInit => PoolInv
  BY DEF PoolInit, PoolInv
<1>2. PoolInv => WriteOnce
  BY DEF PoolInv, WriteKnown, WriteOnce, Write, Ended, NotSent
<1> QED BY <1>1, <1>2, NextPoolInv, PTL DEF PoolSpec

-----------------------------------------------------------------------------
(* Administrators and their sessions *)

Accounts == [role : AdminRoles, enabled : BOOLEAN, password : Nat, must : BOOLEAN]
OpenSessions == [admin : AdminUser, password : Nat, stray : BOOLEAN]
CallStates ==
  {NoCall} \cup [step : {"verified"}, admin : AdminUser, password : Nat]
  \cup [step : {"counted"}, admin : AdminUser, change : AdminRoles \cup {"disabled"}]
  \cup [step : {"revoking"}, admin : AdminUser]
  \cup [step : {"changing"}, session : Session, admin : AdminUser, password : Nat]

AdminTypeOK ==
  /\ adminRow \in [AdminUser -> {NoAdmin} \cup Accounts]
  /\ invited \subseteq AdminUser
  /\ session \in [Session -> {NoSession} \cup OpenSessions]
  /\ adminCall \in [AdminCall -> CallStates]
  /\ passwords \in Nat
  /\ raced \in BOOLEAN

\* Sessions and requests are of accounts that exist, and only an account
\* invites.
OfAccounts ==
  /\ \A s \in Session : session[s] # NoSession => Known(session[s].admin)
  /\ \A c \in AdminCall : adminCall[c] # NoCall => Known(adminCall[c].admin)
  /\ invited # {} => \E a \in AdminUser : Known(a)

\* Who was counted before a removal can be spared, until another removal is
\* made.
CountedSpared ==
  raced \/ \A c \in AdminCall :
             Doing(c, "counted") /\ adminCall[c].change # "administrator" => Administrators \ {adminCall[c].admin} # {}

AdminInv == AdminTypeOK /\ OfAccounts /\ LastAdministrator /\ CountedSpared /\ PasswordEndsSessions

\* What has to be said of a step: the rows it may write, the requests it may
\* bring further, the sessions it leaves open.
LEMMA AdminStep ==
  ASSUME AdminInv, AdminTypeOK', raced => raced',
         \A a \in AdminUser : Known(a) => adminRow'[a] # NoAdmin,
         \/ raced'
         \/ Administrators \subseteq Administrators'
         \/ Administrators' # {} /\ \A c \in AdminCall : adminCall'[c].step # "counted",
         \A a \in AdminUser : adminRow'[a] # NoAdmin => Known(a) \/ invited # {} \/ Administrators' # {},
         invited' \subseteq invited \/ \E a \in AdminUser : Known(a),
         \A c \in AdminCall :
           \/ adminCall'[c] = adminCall[c]
           \/ adminCall'[c] = NoCall
           \/ /\ Known(adminCall'[c].admin)
              /\ (adminCall'[c].step = "counted" /\ adminCall'[c].change # "administrator" =>
                   raced' \/ Administrators \ {adminCall'[c].admin} # {}),
         \A s \in Session : session'[s] # NoSession =>
           /\ Known(session'[s].admin)
           /\ session'[s].password # adminRow'[session'[s].admin].password =>
                session'[s].stray \/ \E c \in AdminCall : adminCall'[c].step = "revoking" /\ adminCall'[c].admin = session'[s].admin
  PROVE  AdminInv'
<1>1. OfAccounts'
  <2>1. ASSUME NEW s \in Session, session'[s] # NoSession PROVE adminRow'[session'[s].admin] # NoAdmin
    <3>1. session'[s].admin \in AdminUser
      BY <2>1 DEF AdminTypeOK, OpenSessions
    <3> QED BY <2>1, <3>1
  <2>2. ASSUME NEW c \in AdminCall, adminCall'[c] # NoCall PROVE adminRow'[adminCall'[c].admin] # NoAdmin
    <3>1. adminCall'[c].admin \in AdminUser
      BY <2>2 DEF AdminTypeOK, CallStates
    <3>2. Known(adminCall'[c].admin)
      BY <2>2 DEF AdminInv, OfAccounts
    <3> QED BY <3>1, <3>2
  <2>3. ASSUME invited' # {} PROVE \E a \in AdminUser : adminRow'[a] # NoAdmin
    BY <2>3 DEF AdminInv, OfAccounts
  <2> QED BY <2>1, <2>2, <2>3 DEF OfAccounts, Known
<1>2. LastAdministrator'
  BY DEF AdminInv, LastAdministrator, OfAccounts, Known
<1>3. CountedSpared'
  <2> SUFFICES ASSUME ~ raced', NEW c \in AdminCall, adminCall'[c].step = "counted", adminCall'[c].change # "administrator"
               PROVE  Administrators' \ {adminCall'[c].admin} # {}
    BY DEF CountedSpared, Doing
  <2>1. Administrators \subseteq Administrators'
    BY DEF Doing
  <2>2. Administrators \ {adminCall'[c].admin} # {}
    BY DEF AdminInv, CountedSpared, Doing, NoCall
  <2> QED BY <2>1, <2>2
<1>4. PasswordEndsSessions'
  BY DEF PasswordEndsSessions, Doing
<1> QED BY <1>1, <1>2, <1>3, <1>4 DEF AdminInv

\* The rows are as they were.
LEMMA RowsStay ==
  ASSUME AdminInv, AdminTypeOK', UNCHANGED adminRow
  PROVE  /\ \A a \in AdminUser : Known(a) => adminRow'[a] # NoAdmin
         /\ Administrators \subseteq Administrators'
         /\ \A a \in AdminUser : adminRow'[a] # NoAdmin => Known(a)
BY DEF Known, Administrators

\* The sessions, or those of them that are left, are as sound as they were.
LEMMA SessionsStay ==
  ASSUME AdminInv, NEW s \in Session, session'[s] # NoSession, session'[s] = session[s],
         \A a \in AdminUser : Known(a) => adminRow'[a].password = adminRow[a].password,
         \A c \in AdminCall : adminCall[c].step = "revoking" => adminCall'[c] = adminCall[c]
  PROVE  /\ Known(session'[s].admin)
         /\ session'[s].password # adminRow'[session'[s].admin].password =>
              session'[s].stray \/ \E c \in AdminCall : adminCall'[c].step = "revoking" /\ adminCall'[c].admin = session'[s].admin
<1>1. Known(session[s].admin) /\ session[s].admin \in AdminUser
  BY DEF AdminInv, OfAccounts, AdminTypeOK, OpenSessions
<1> QED BY <1>1 DEF AdminInv, PasswordEndsSessions, Doing

\* Some account exists when a session is let in.
LEMMA LetInKnown ==
  ASSUME AdminInv, NEW s \in Session, NEW permission, LetIn(s, permission)
  PROVE  session[s] # NoSession /\ session[s].admin \in AdminUser /\ Known(session[s].admin)
BY DEF LetIn, AdminInv, OfAccounts, AdminTypeOK, OpenSessions

\* A request turns to its next state.
LEMMA CallTurns ==
  ASSUME AdminInv, NEW c \in AdminCall, NEW r \in CallStates, Proceed(c, r)
  PROVE  /\ adminCall' \in [AdminCall -> CallStates] /\ adminCall'[c] = r
         /\ \A d \in AdminCall \ {c} : adminCall'[d] = adminCall[d]
BY DEF Proceed, AdminInv, AdminTypeOK

\* An account as it is added.
LEMMA NewAccount ==
  ASSUME NEW role \in AdminRoles, NEW password \in Nat, NEW must \in BOOLEAN
  PROVE  \E r \in Accounts : /\ r = Account(role, password, must) /\ r # NoAdmin
                             /\ r.role = role /\ r.enabled /\ r.password = password
<1>1. PICK r : r = [role |-> role, enabled |-> TRUE, password |-> password, must |-> must]
  OBVIOUS
<1>2. r \in Accounts /\ r.role = role /\ r.enabled /\ r.password = password
  BY <1>1 DEF Accounts
<1>3. r # NoAdmin
  BY <1>2 DEF NoAdmin, AdminRoles
<1> QED BY <1>1, <1>2, <1>3 DEF Account

\* Each step of a request, or of a session, spares the last administrator.
LEMMA NextAdminInv == AdminInv /\ [AdminNext]_adminVars => AdminInv'
<1> SUFFICES ASSUME AdminInv, [AdminNext]_adminVars PROVE AdminInv'
  OBVIOUS
<1>0. AdminTypeOK /\ OfAccounts /\ LastAdministrator /\ CountedSpared /\ PasswordEndsSessions
  BY DEF AdminInv
<1>k. NoCall \in CallStates /\ NoCall.step = "idle"
  BY DEF NoCall, CallStates
<1>1. CASE BootstrapLogin
  <2>1. PICK r \in Accounts : /\ r = Account("administrator", 1, TRUE) /\ r # NoAdmin
                              /\ r.role = "administrator" /\ r.enabled /\ r.password = 1
    <3>1. "administrator" \in AdminRoles /\ 1 \in Nat /\ TRUE \in BOOLEAN
      BY DEF AdminRoles
    <3> QED BY <3>1, NewAccount, Zenon
  <2>2. adminRow' = [adminRow EXCEPT ![Bootstrap] = r]
    BY <1>1, <2>1 DEF BootstrapLogin
  <2>3. AdminTypeOK'
    BY <1>0, <1>1, <2>2, AdministrationAssumption DEF AdminTypeOK, BootstrapLogin
  <2>4. adminRow'[Bootstrap] = r
    BY <1>0, <2>2, AdministrationAssumption DEF AdminTypeOK
  <2>5. Bootstrap \in Administrators'
    BY <2>1, <2>4, AdministrationAssumption DEF Administrators, Known
  <2>6. (\A s \in Session : session'[s] = NoSession) /\ Administrators = {}
    BY <1>0, <1>1 DEF BootstrapLogin, OfAccounts, AdminTypeOK, OpenSessions, Administrators
  <2> QED BY <1>1, <2>3, <2>5, <2>6, AdminStep DEF BootstrapLogin
<1>2. ASSUME NEW a \in AdminUser, Invite(a) PROVE AdminInv'
  <2>1. AdminTypeOK'
    BY <1>0, <1>2 DEF AdminTypeOK, Invite
  <2>2. \E b \in AdminUser : Known(b)
    BY <1>2, LetInKnown DEF Invite, ByAdministrator
  <2> QED BY <1>2, <2>1, <2>2, RowsStay, SessionsStay, AdminStep DEF Invite
<1>3. ASSUME NEW a \in AdminUser, NEW role \in AdminRoles, AcceptInvitation(a, role) PROVE AdminInv'
  <2>0. PICK p \in Nat : p = passwords
    BY <1>0 DEF AdminTypeOK
  <2>1. PICK r \in Accounts : r = Account(role, p, FALSE) /\ r # NoAdmin
    <3>1. PICK r : r = [role |-> role, enabled |-> TRUE, password |-> p, must |-> FALSE]
      OBVIOUS
    <3>2. r \in Accounts /\ r.role = role
      BY <3>1 DEF Accounts
    <3>3. r # NoAdmin
      BY <3>2 DEF NoAdmin, AdminRoles
    <3> QED BY <3>1, <3>2, <3>3 DEF Account
  <2>2. adminRow' = [adminRow EXCEPT ![a] = r]
    BY <1>3, <2>0, <2>1 DEF AcceptInvitation
  <2>3. AdminTypeOK'
    BY <1>0, <1>3, <2>2 DEF AdminTypeOK, AcceptInvitation
  <2>4. adminRow'[a] = r /\ \A b \in AdminUser \ {a} : adminRow'[b] = adminRow[b]
    BY <1>0, <2>2 DEF AdminTypeOK
  <2>5. Administrators \subseteq Administrators' /\ invited # {} /\ ~ Known(a)
    BY <1>3, <2>4 DEF Administrators, Known, AcceptInvitation
  <2>6. \A b \in AdminUser : Known(b) => adminRow'[b] = adminRow[b]
    BY <2>4, <2>5
  <2> QED BY <1>3, <2>1, <2>3, <2>4, <2>5, <2>6, SessionsStay, AdminStep DEF AcceptInvitation, Known
<1>4. ASSUME NEW s \in Session, CloseSession(s) PROVE AdminInv'
  <2>1. AdminTypeOK' /\ session'[s] = NoSession /\ \A t \in Session \ {s} : session'[t] = session[t]
    BY <1>0, <1>4 DEF AdminTypeOK, CloseSession
  <2> QED BY <1>4, <2>1, RowsStay, SessionsStay, AdminStep DEF CloseSession
<1>5. ASSUME NEW c \in AdminCall, NEW a \in AdminUser, Verify(c, a) PROVE AdminInv'
  <2>1. PICK r : r = [step |-> "verified", admin |-> a, password |-> adminRow[a].password]
    OBVIOUS
  <2>2. r \in CallStates /\ r.admin = a /\ r.step = "verified"
    BY <1>0, <1>5, <2>1 DEF Verify, Known, CallStates, AdminTypeOK, Accounts
  <2>3. Proceed(c, r) /\ adminCall[c] = NoCall /\ Known(a) /\ UNCHANGED <<adminRow, invited, session, passwords, raced>>
    BY <1>5, <2>1 DEF Verify, AdminFree
  <2>4. /\ adminCall' \in [AdminCall -> CallStates] /\ adminCall'[c] = r
        /\ \A d \in AdminCall \ {c} : adminCall'[d] = adminCall[d]
    BY <2>2, <2>3, CallTurns
  <2>5. AdminTypeOK'
    BY <1>0, <2>3, <2>4 DEF AdminTypeOK
  <2>6. \A d \in AdminCall : adminCall[d].step = "revoking" => adminCall'[d] = adminCall[d]
    BY <1>k, <2>3, <2>4
  <2> QED BY <2>2, <2>3, <2>4, <2>5, <2>6, RowsStay, SessionsStay, AdminStep
<1>6. ASSUME NEW c \in AdminCall, NEW s \in Session, OpenSession(c, s) PROVE AdminInv'
  <2>1. adminCall[c] \in [step : {"verified"}, admin : AdminUser, password : Nat] /\ adminCall[c] # NoCall
    BY <1>0, <1>6, <1>k DEF OpenSession, Doing, AdminTypeOK, CallStates
  <2>2. PICK a \in AdminUser, p \in Nat : a = adminCall[c].admin /\ p = adminCall[c].password /\ Known(a)
    BY <1>0, <2>1 DEF OfAccounts
  <2>a. PICK stray \in BOOLEAN : stray = (adminRow[a].password # p)
    <3>1. (adminRow[a].password # p) \in BOOLEAN
      OBVIOUS
    <3> QED BY <3>1, Zenon
  <2>b. PICK r : r = [admin |-> a, password |-> p, stray |-> stray]
    OBVIOUS
  <2>3. r \in OpenSessions /\ r.admin = a /\ r.password = p /\ (adminRow[a].password # p => r.stray)
    BY <2>a, <2>b DEF OpenSessions
  <2>4. session' = [session EXCEPT ![s] = r] /\ Proceed(c, NoCall) /\ UNCHANGED <<adminRow, invited, passwords, raced>>
    BY <1>6, <2>2, <2>a, <2>b DEF OpenSession, AdminEnds
  <2>5. session' \in [Session -> {NoSession} \cup OpenSessions] /\ session'[s] = r
        /\ \A t \in Session \ {s} : session'[t] = session[t]
    BY <1>0, <2>3, <2>4 DEF AdminTypeOK
  <2>6. /\ adminCall' \in [AdminCall -> CallStates] /\ adminCall'[c] = NoCall
        /\ \A d \in AdminCall \ {c} : adminCall'[d] = adminCall[d]
    BY <1>k, <2>4, CallTurns
  <2>7. AdminTypeOK'
    BY <1>0, <2>4, <2>5, <2>6 DEF AdminTypeOK
  <2>8. \A d \in AdminCall : adminCall[d].step = "revoking" => adminCall'[d] = adminCall[d]
    BY <2>1, <2>6
  <2> QED BY <2>2, <2>3, <2>4, <2>5, <2>6, <2>7, <2>8, RowsStay, SessionsStay, AdminStep
<1>7. ASSUME NEW c \in AdminCall, NEW a \in AdminUser, NEW change \in AdminRoles \cup {"disabled"}, RemoveAdmin(c, a, change)
      PROVE  AdminInv'
  <2>1. PICK r : r = [step |-> "counted", admin |-> a, change |-> change]
    OBVIOUS
  <2>2. r \in CallStates /\ r.admin = a /\ r.step = "counted" /\ r.change = change
    BY <2>1 DEF CallStates
  <2>3. Proceed(c, r) /\ adminCall[c] = NoCall /\ Known(a) /\ UNCHANGED <<adminRow, invited, session, passwords, raced>>
    BY <1>7, <2>1 DEF RemoveAdmin, AdminFree
  <2>4. /\ adminCall' \in [AdminCall -> CallStates] /\ adminCall'[c] = r
        /\ \A d \in AdminCall \ {c} : adminCall'[d] = adminCall[d]
    BY <2>2, <2>3, CallTurns
  <2>5. AdminTypeOK'
    BY <1>0, <2>3, <2>4 DEF AdminTypeOK
  <2>6. \A d \in AdminCall : adminCall[d].step = "revoking" => adminCall'[d] = adminCall[d]
    BY <1>k, <2>3, <2>4
  <2>7. ASSUME change # "administrator", ~ raced PROVE Administrators \ {a} # {}
    <3>1. CASE adminRow[a].role # "administrator" \/ ~ adminRow[a].enabled
      <4>1. a \notin Administrators /\ Administrators # {}
        BY <1>0, <2>3, <2>7, <3>1 DEF Administrators, LastAdministrator
      <4> QED BY <4>1
    <3>2. CASE Cardinality(Administrators) > 1
      <4>1. Cardinality({}) = 0 /\ Cardinality({a}) = 1
        BY FS_EmptySet, FS_Singleton, Zenon
      <4>2. Administrators = {} \/ Administrators = {a} \/ Administrators \ {a} # {}
        OBVIOUS
      <4> QED BY <3>2, <4>1, <4>2
    <3> QED BY <1>7, <2>7, <3>1, <3>2 DEF RemoveAdmin
  <2> QED BY <2>2, <2>3, <2>4, <2>5, <2>6, <2>7, RowsStay, SessionsStay, AdminStep
<1>8. ASSUME NEW c \in AdminCall, UpdateAdmin(c) PROVE AdminInv'
  <2>1. adminCall[c] \in [step : {"counted"}, admin : AdminUser, change : AdminRoles \cup {"disabled"}] /\ adminCall[c] # NoCall
    BY <1>0, <1>8, <1>k DEF UpdateAdmin, Doing, AdminTypeOK, CallStates
  <2>2. PICK a \in AdminUser, change \in AdminRoles \cup {"disabled"} :
          a = adminCall[c].admin /\ change = adminCall[c].change /\ Known(a)
    BY <1>0, <2>1 DEF OfAccounts
  <2>3. adminRow[a] \in Accounts
    BY <1>0, <2>2 DEF AdminTypeOK, Known
  <2>4. PICK r \in Accounts :
          /\ adminRow' = [adminRow EXCEPT ![a] = r] /\ r.password = adminRow[a].password
          /\ change = "administrator" /\ adminRow[a].enabled => r.role = "administrator" /\ r.enabled
    <3>1. CASE change = "disabled"
      <4>1. PICK r : r = [adminRow[a] EXCEPT !.enabled = FALSE]
        OBVIOUS
      <4>2. r \in Accounts /\ r.password = adminRow[a].password
        BY <2>3, <4>1 DEF Accounts
      <4>3. adminRow' = [adminRow EXCEPT ![a] = r]
        BY <1>8, <2>2, <3>1, <4>1 DEF UpdateAdmin
      <4> QED BY <3>1, <4>2, <4>3
    <3>2. CASE change # "disabled"
      <4>1. PICK r : r = [adminRow[a] EXCEPT !.role = change]
        OBVIOUS
      <4>2. r \in Accounts /\ r.password = adminRow[a].password /\ r.enabled = adminRow[a].enabled /\ r.role = change
        BY <2>2, <2>3, <3>2, <4>1 DEF Accounts
      <4>3. adminRow' = [adminRow EXCEPT ![a] = r]
        BY <1>8, <2>2, <3>2, <4>1 DEF UpdateAdmin
      <4> QED BY <4>2, <4>3
    <3> QED BY <3>1, <3>2
  <2>5. PICK q : q = [step |-> "revoking", admin |-> a]
    OBVIOUS
  <2>6. q \in CallStates /\ q.step = "revoking" /\ q.admin = a
    BY <2>5 DEF CallStates
  <2>7. /\ Proceed(c, q) /\ UNCHANGED <<invited, session, passwords>>
        /\ raced' \in BOOLEAN /\ (raced => raced')
        /\ ~ raced' => \A d \in AdminCall \ {c} : adminCall[d].step # "counted"
    BY <1>8, <2>2, <2>5 DEF UpdateAdmin, Doing
  <2>8. /\ adminCall' \in [AdminCall -> CallStates] /\ adminCall'[c] = q
        /\ \A d \in AdminCall \ {c} : adminCall'[d] = adminCall[d]
    BY <2>6, <2>7, CallTurns
  <2>9. adminRow'[a] = r /\ \A b \in AdminUser \ {a} : adminRow'[b] = adminRow[b]
    BY <1>0, <2>4 DEF AdminTypeOK
  <2>10. AdminTypeOK'
    BY <1>0, <2>4, <2>7, <2>8 DEF AdminTypeOK
  <2>11. \A d \in AdminCall : adminCall[d].step = "revoking" => adminCall'[d] = adminCall[d]
    BY <2>1, <2>8
  <2>12. r # NoAdmin /\ (\A b \in AdminUser : Known(b) => adminRow'[b] # NoAdmin)
         /\ \A b \in AdminUser : adminRow'[b] # NoAdmin => Known(b)
    BY <2>2, <2>9 DEF Known, Accounts, NoAdmin, AdminRoles
  <2>13. \/ raced' \/ Administrators \subseteq Administrators'
         \/ Administrators' # {} /\ \A d \in AdminCall : adminCall'[d].step # "counted"
    <3>1. ASSUME NEW b \in Administrators, b # a PROVE b \in Administrators'
      BY <2>9, <3>1 DEF Administrators, Known
    <3>2. CASE change = "administrator" /\ a \in Administrators
      <4>1. a \in Administrators'
        BY <2>4, <2>9, <2>12, <3>2 DEF Administrators, Known
      <4> QED BY <3>1, <4>1
    <3>3. CASE a \notin Administrators
      BY <3>1, <3>3
    <3>4. CASE change # "administrator" /\ ~ raced'
      <4>1. Administrators \ {a} # {}
        BY <1>0, <1>8, <2>2, <2>7, <3>4 DEF CountedSpared, UpdateAdmin
      <4>2. Administrators' # {}
        BY <3>1, <4>1
      <4>3. \A d \in AdminCall : adminCall'[d].step # "counted"
        BY <2>6, <2>7, <2>8, <3>4
      <4> QED BY <4>2, <4>3
    <3> QED BY <3>2, <3>3, <3>4
  <2>14. \A b \in AdminUser : adminRow'[b].password = adminRow[b].password
    BY <2>4, <2>9
  <2> QED BY <2>2, <2>6, <2>7, <2>8, <2>10, <2>11, <2>12, <2>13, <2>14, SessionsStay, AdminStep
<1>9. ASSUME NEW c \in AdminCall, NEW a \in AdminUser, ResetCredential(c, a) PROVE AdminInv'
  <2>1. Known(a) /\ adminCall[c] = NoCall /\ passwords' = passwords + 1 /\ UNCHANGED <<invited, session, raced>>
    BY <1>9 DEF ResetCredential, AdminFree
  <2>2. adminRow[a] \in Accounts
    BY <1>0, <2>1 DEF AdminTypeOK, Known
  <2>3. PICK r : r = [adminRow[a] EXCEPT !.password = passwords']
    OBVIOUS
  <2>4. r \in Accounts /\ r.role = adminRow[a].role /\ r.enabled = adminRow[a].enabled
    BY <1>0, <2>1, <2>2, <2>3 DEF Accounts, AdminTypeOK
  <2>5. adminRow' = [adminRow EXCEPT ![a] = r]
    BY <1>9, <2>3 DEF ResetCredential
  <2>6. PICK q : q = [step |-> "revoking", admin |-> a]
    OBVIOUS
  <2>7. q \in CallStates /\ q.step = "revoking" /\ q.admin = a
    BY <2>6 DEF CallStates
  <2>8. Proceed(c, q)
    BY <1>9, <2>6 DEF ResetCredential
  <2>9. /\ adminCall' \in [AdminCall -> CallStates] /\ adminCall'[c] = q
        /\ \A d \in AdminCall \ {c} : adminCall'[d] = adminCall[d]
    BY <2>7, <2>8, CallTurns
  <2>10. adminRow'[a] = r /\ \A b \in AdminUser \ {a} : adminRow'[b] = adminRow[b]
    BY <1>0, <2>5 DEF AdminTypeOK
  <2>11. AdminTypeOK'
    BY <1>0, <2>1, <2>4, <2>5, <2>9 DEF AdminTypeOK
  <2>12. \A d \in AdminCall : adminCall[d].step = "revoking" => adminCall'[d] = adminCall[d]
    BY <1>k, <2>1, <2>9
  <2>13. r # NoAdmin /\ (\A b \in AdminUser : Known(b) <=> adminRow'[b] # NoAdmin) /\ Administrators \subseteq Administrators'
    BY <2>1, <2>4, <2>10 DEF Known, Accounts, NoAdmin, AdminRoles, Administrators
  <2>14. ASSUME NEW s \in Session, session'[s] # NoSession
         PROVE  /\ Known(session'[s].admin)
                /\ session'[s].password # adminRow'[session'[s].admin].password =>
                     \/ session'[s].stray
                     \/ \E d \in AdminCall : adminCall'[d].step = "revoking" /\ adminCall'[d].admin = session'[s].admin
    <3>1. session'[s] = session[s] /\ session[s].admin \in AdminUser /\ Known(session[s].admin)
      BY <1>0, <2>1, <2>14 DEF OfAccounts, AdminTypeOK, OpenSessions
    <3>2. CASE session[s].admin = a
      BY <2>7, <2>9, <3>1, <3>2
    <3>3. CASE session[s].admin # a
      <4>1. adminRow'[session'[s].admin] = adminRow[session[s].admin]
        BY <2>10, <3>1, <3>3
      <4> QED BY <1>0, <2>12, <2>14, <3>1, <4>1 DEF PasswordEndsSessions, Doing
    <3> QED BY <3>2, <3>3
  <2> QED BY <2>1, <2>7, <2>9, <2>11, <2>13, <2>14, AdminStep
<1>10. ASSUME NEW c \in AdminCall, NEW a \in AdminUser, RevokeSessions(c, a) PROVE AdminInv'
  <2>1. Proceed(c, NoCall) /\ session' = Revoked(a, {}) /\ UNCHANGED <<adminRow, invited, passwords, raced>>
    BY <1>10 DEF RevokeSessions, AdminEnds
  <2>2. /\ adminCall' \in [AdminCall -> CallStates] /\ adminCall'[c] = NoCall
        /\ \A d \in AdminCall \ {c} : adminCall'[d] = adminCall[d]
    BY <1>k, <2>1, CallTurns
  <2>3. AdminTypeOK'
    BY <1>0, <2>1, <2>2 DEF AdminTypeOK, Revoked
  <2>4. ASSUME NEW s \in Session, session'[s] # NoSession
         PROVE  /\ Known(session'[s].admin)
                /\ session'[s].password # adminRow'[session'[s].admin].password =>
                     \/ session'[s].stray
                     \/ \E d \in AdminCall : adminCall'[d].step = "revoking" /\ adminCall'[d].admin = session'[s].admin
    <3>1. session'[s] = session[s] /\ session[s].admin # a
      BY <2>1, <2>4 DEF Revoked, SessionsOf
    <3>2. Known(session[s].admin)
      BY <1>0, <2>4, <3>1 DEF OfAccounts
    <3>3. ASSUME NEW d \in AdminCall, adminCall[d].step = "revoking", adminCall[d].admin = session[s].admin
          PROVE  adminCall'[d] = adminCall[d]
      BY <1>10, <1>k, <2>2, <3>1, <3>3 DEF RevokeSessions, Doing, AdminFree
    <3> QED BY <1>0, <2>1, <2>4, <3>1, <3>2, <3>3 DEF PasswordEndsSessions, Doing
  <2> QED BY <2>1, <2>2, <2>3, <2>4, RowsStay, AdminStep
<1>11. ASSUME NEW c \in AdminCall, NEW s \in Session, NEW route, ChangeRead(c, s, route) PROVE AdminInv'
  <2>1. /\ session[s] # NoSession /\ session[s].admin \in AdminUser /\ Known(session[s].admin)
        /\ adminCall[c] = NoCall /\ UNCHANGED <<adminRow, invited, session, passwords, raced>>
    BY <1>11, LetInKnown DEF ChangeRead, Reaches, AdminFree
  <2>2. PICK a \in AdminUser : a = session[s].admin /\ Known(a)
    BY <2>1
  <2>3. PICK r : r = [step |-> "changing", session |-> s, admin |-> a, password |-> adminRow[a].password]
    OBVIOUS
  <2>4. r \in CallStates /\ r.admin = a /\ r.step = "changing"
    BY <1>0, <2>2, <2>3 DEF CallStates, AdminTypeOK, Known, Accounts
  <2>5. Proceed(c, r)
    BY <1>11, <2>2, <2>3 DEF ChangeRead
  <2>6. /\ adminCall' \in [AdminCall -> CallStates] /\ adminCall'[c] = r
        /\ \A d \in AdminCall \ {c} : adminCall'[d] = adminCall[d]
    BY <2>4, <2>5, CallTurns
  <2>7. AdminTypeOK'
    BY <1>0, <2>1, <2>6 DEF AdminTypeOK
  <2>8. \A d \in AdminCall : adminCall[d].step = "revoking" => adminCall'[d] = adminCall[d]
    BY <1>k, <2>1, <2>6
  <2> QED BY <2>1, <2>2, <2>4, <2>6, <2>7, <2>8, RowsStay, SessionsStay, AdminStep
<1>12. ASSUME NEW c \in AdminCall, ChangePassword(c) PROVE AdminInv'
  <2>1. /\ adminCall[c] \in [step : {"changing"}, session : Session, admin : AdminUser, password : Nat]
        /\ adminCall[c] # NoCall
    BY <1>0, <1>12, <1>k DEF ChangePassword, Doing, AdminTypeOK, CallStates
  <2>2. PICK a \in AdminUser, t \in Session : a = adminCall[c].admin /\ t = adminCall[c].session /\ Known(a)
    BY <1>0, <2>1 DEF OfAccounts
  <2>3. adminRow[a] \in Accounts
    BY <1>0, <2>2 DEF AdminTypeOK, Known
  <2>4. PICK own : own = IF session[t].admin = a THEN {t} ELSE {}
    OBVIOUS
  <2>a. /\ passwords' = passwords + 1 /\ Proceed(c, NoCall) /\ UNCHANGED <<invited, raced>>
        /\ passwords \in Nat /\ passwords' \in Nat
    BY <1>0, <1>12 DEF ChangePassword, AdminEnds, AdminTypeOK
  <2>5. /\ adminRow' = [adminRow EXCEPT ![a].password = passwords', ![a].must = FALSE]
        /\ session' = [s \in Session |->
             IF s \in own THEN [admin |-> a, password |-> passwords', stray |-> FALSE] ELSE Revoked(a, own)[s]]
    BY <1>12, <2>2, <2>4 DEF ChangePassword
  <2>b. PICK q : q = [adminRow[a] EXCEPT !.password = passwords']
    OBVIOUS
  <2>c. q \in Accounts /\ q.role = adminRow[a].role /\ q.enabled = adminRow[a].enabled /\ q.password = passwords'
    BY <2>3, <2>a, <2>b DEF Accounts
  <2>6. PICK r : r = [q EXCEPT !.must = FALSE]
    OBVIOUS
  <2>7. r \in Accounts /\ r.role = adminRow[a].role /\ r.enabled = adminRow[a].enabled /\ r.password = passwords'
    BY <2>6, <2>c DEF Accounts
  <2>8. adminRow' \in [AdminUser -> {NoAdmin} \cup Accounts] /\ adminRow'[a] = r
        /\ \A b \in AdminUser \ {a} : adminRow'[b] = adminRow[b]
    BY <1>0, <2>5, <2>6, <2>7, <2>b DEF AdminTypeOK
  <2>9. /\ adminCall' \in [AdminCall -> CallStates] /\ adminCall'[c] = NoCall
        /\ \A d \in AdminCall \ {c} : adminCall'[d] = adminCall[d]
    BY <1>k, <2>a, CallTurns
  <2>10. PICK n : n = [admin |-> a, password |-> passwords', stray |-> FALSE]
    OBVIOUS
  <2>11. n \in OpenSessions /\ n.admin = a /\ n.password = passwords'
    BY <2>a, <2>10 DEF OpenSessions
  <2>12. \A s \in Session : IF s \in own THEN session'[s] = n
                            ELSE session'[s] = NoSession \/ (session'[s] = session[s] /\ session[s].admin # a)
    BY <2>5, <2>10 DEF Revoked, SessionsOf
  <2>13. session' \in [Session -> {NoSession} \cup OpenSessions]
    <3>1. \A s \in Session : session'[s] \in {NoSession} \cup OpenSessions
      BY <1>0, <2>11, <2>12 DEF AdminTypeOK
    <3> QED BY <2>5, <3>1
  <2>14. AdminTypeOK'
    BY <1>0, <2>a, <2>8, <2>9, <2>13 DEF AdminTypeOK
  <2>15. \A d \in AdminCall : adminCall[d].step = "revoking" => adminCall'[d] = adminCall[d]
    BY <2>1, <2>9
  <2>16. r # NoAdmin /\ (\A b \in AdminUser : Known(b) <=> adminRow'[b] # NoAdmin) /\ Administrators \subseteq Administrators'
    BY <2>2, <2>7, <2>8 DEF Known, Accounts, NoAdmin, AdminRoles, Administrators
  <2>17. ASSUME NEW s \in Session, session'[s] # NoSession
         PROVE  /\ Known(session'[s].admin)
                /\ session'[s].password # adminRow'[session'[s].admin].password =>
                     \/ session'[s].stray
                     \/ \E d \in AdminCall : adminCall'[d].step = "revoking" /\ adminCall'[d].admin = session'[s].admin
    <3>1. CASE s \in own
      BY <2>2, <2>7, <2>8, <2>11, <2>12, <3>1
    <3>2. CASE s \notin own
      <4>1. session'[s] = session[s] /\ session[s].admin \in AdminUser \ {a} /\ Known(session[s].admin)
        BY <1>0, <2>12, <2>17, <3>2 DEF OfAccounts, AdminTypeOK, OpenSessions
      <4>2. adminRow'[session'[s].admin] = adminRow[session[s].admin]
        BY <2>8, <4>1
      <4> QED BY <1>0, <2>15, <2>17, <4>1, <4>2 DEF PasswordEndsSessions, Doing
    <3> QED BY <3>1, <3>2
  <2> QED BY <2>a, <2>9, <2>14, <2>16, <2>17, AdminStep
<1>13. ASSUME NEW c \in AdminCall, AdminCallDies(c) PROVE AdminInv'
  <2>1. Proceed(c, NoCall) /\ UNCHANGED <<adminRow, invited, passwords, raced>>
    BY <1>13 DEF AdminCallDies, AdminEnds
  <2>2. /\ adminCall' \in [AdminCall -> CallStates] /\ adminCall'[c] = NoCall
        /\ \A d \in AdminCall \ {c} : adminCall'[d] = adminCall[d]
    BY <1>k, <2>1, CallTurns
  <2>3. ASSUME NEW s \in Session
        PROVE  /\ session'[s] \in {NoSession} \cup OpenSessions
               /\ session'[s] # NoSession =>
                    /\ session[s] # NoSession /\ session'[s].admin = session[s].admin /\ session'[s].password = session[s].password
                    /\ session[s].stray => session'[s].stray
                    /\ adminCall[c].step = "revoking" /\ adminCall[c].admin = session[s].admin => session'[s].stray
    <3>1. CASE adminCall[c].step = "revoking" /\ session[s].admin = adminCall[c].admin
      <4>1. adminCall[c].admin \in AdminUser
        BY <1>0, <1>k, <3>1 DEF AdminTypeOK, CallStates
      <4>2. session[s] \in OpenSessions
        BY <1>0, <3>1, <4>1, AdministrationAssumption DEF AdminTypeOK, NoSession, NoAdmin
      <4>3. PICK r : r = [session[s] EXCEPT !.stray = TRUE]
        OBVIOUS
      <4>4. r \in OpenSessions /\ r.admin = session[s].admin /\ r.password = session[s].password /\ r.stray = TRUE
        BY <4>2, <4>3 DEF OpenSessions
      <4>5. session'[s] = r
        BY <1>13, <3>1, <4>3 DEF AdminCallDies, Doing, SessionsOf
      <4>6. session[s] # NoSession
        BY <3>1, <4>1, AdministrationAssumption DEF NoSession, NoAdmin
      <4> QED BY <4>4, <4>5, <4>6
    <3>2. CASE ~ (adminCall[c].step = "revoking" /\ session[s].admin = adminCall[c].admin)
      <4>1. session'[s] = session[s]
        BY <1>13, <3>2 DEF AdminCallDies, Doing, SessionsOf
      <4> QED BY <1>0, <3>2, <4>1 DEF AdminTypeOK
    <3> QED BY <3>1, <3>2
  <2>4. session' \in [Session -> {NoSession} \cup OpenSessions]
    BY <1>13, <2>3 DEF AdminCallDies
  <2>5. AdminTypeOK'
    BY <1>0, <2>1, <2>2, <2>4 DEF AdminTypeOK
  <2>6. ASSUME NEW s \in Session, session'[s] # NoSession
        PROVE  /\ Known(session'[s].admin)
               /\ session'[s].password # adminRow'[session'[s].admin].password =>
                    \/ session'[s].stray
                    \/ \E d \in AdminCall : adminCall'[d].step = "revoking" /\ adminCall'[d].admin = session'[s].admin
    BY <1>0, <2>1, <2>2, <2>3, <2>6 DEF OfAccounts, PasswordEndsSessions, Doing
  <2> QED BY <2>1, <2>2, <2>5, <2>6, RowsStay, AdminStep
<1>14. CASE UNCHANGED adminVars
  BY <1>0, <1>14
  DEF adminVars, AdminInv, AdminTypeOK, OfAccounts, LastAdministrator, CountedSpared, PasswordEndsSessions,
      Known, Administrators, Doing
<1> QED BY <1>1, <1>2, <1>3, <1>4, <1>5, <1>6, <1>7, <1>8, <1>9, <1>10, <1>11, <1>12, <1>13, <1>14 DEF AdminNext

\* An administrator remains whenever there are accounts, but for removals that
\* raced, and a password that changed ends the sessions opened with another.
THEOREM SpecAdministrationHolds == AdminSpec => []AdministrationHolds
<1>1. AdminInit => AdminInv
  <2> SUFFICES ASSUME AdminInit PROVE AdminInv
    OBVIOUS
  <2>1. PICK r \in Accounts : /\ r = Account("administrator", 1, FALSE) /\ r # NoAdmin
                              /\ r.role = "administrator" /\ r.enabled /\ r.password = 1
    <3>1. "administrator" \in AdminRoles /\ 1 \in Nat /\ FALSE \in BOOLEAN
      BY DEF AdminRoles
    <3> QED BY <3>1, NewAccount, Zenon
  <2>2. adminRow = [a \in AdminUser |-> NoAdmin] \/ adminRow = [a \in AdminUser |-> IF a = Bootstrap THEN r ELSE NoAdmin]
    BY <2>1 DEF AdminInit
  <2>3. adminRow \in [AdminUser -> {NoAdmin} \cup Accounts]
    BY <2>2
  <2>4. LastAdministrator
    BY <2>1, <2>2 DEF LastAdministrator, Known, Administrators
  <2>5. AdminTypeOK
    BY <2>3 DEF AdminInit, AdminTypeOK, CallStates
  <2> QED BY <2>4, <2>5 DEF AdminInit, AdminInv, OfAccounts, CountedSpared, PasswordEndsSessions, Doing, NoCall
<1>2. AdminInv => AdministrationHolds
  BY DEF AdminInv, AdministrationHolds
<1> QED BY <1>1, <1>2, NextAdminInv, PTL DEF AdminSpec

-----------------------------------------------------------------------------
(* The audit trail *)

AuditRow == [hash : Nat, prev : Nat]

AuditTypeOK ==
  /\ rows \in Seq(AuditRow)
  /\ pen \in [Writer -> Nat \cup {NoPen}]
  /\ seals \in Nat
  /\ mixed \in [unsealed : BOOLEAN, raced : BOOLEAN, lagged : BOOLEAN]

\* Hashes are of this log, and each is the hash of one row.
SealsKnown ==
  /\ \A w \in Writer : pen[w] <= seals
  /\ \A i \in 1 .. Len(rows) : rows[i].hash <= seals /\ rows[i].prev <= seals
  /\ \A i, j \in 1 .. Len(rows) : rows[i].hash = rows[j].hash /\ rows[i].hash # 0 => i = j

\* Undisturbed, each row holds the hash of the one before it, and a writer has
\* the hash of a row, or found none.
Chained ==
  mixed = Undisturbed =>
    /\ \A i \in 1 .. Len(rows) : rows[i].hash # 0
    /\ \A i \in 1 .. Len(rows) : i # 1 => rows[i].prev = rows[i - 1].hash
    /\ rows # <<>> => rows[1].prev = 0
    /\ \A w \in Writer : pen[w] \in {NoPen, 0} \/ \E i \in 1 .. Len(rows) : rows[i].hash = pen[w]

AuditInv == AuditTypeOK /\ SealsKnown /\ Chained /\ HeadIsFree

\* What inserting a row does to the others.
LEMMA InsertAtProperties ==
  ASSUME NEW S, NEW s \in Seq(S), NEW i \in 1 .. Len(s) + 1, NEW e \in S
  PROVE  /\ InsertAt(s, i, e) \in Seq(S)
         /\ Len(InsertAt(s, i, e)) = Len(s) + 1
         /\ InsertAt(s, i, e)[i] = e
         /\ \A j \in 1 .. i - 1 : InsertAt(s, i, e)[j] = s[j]
         /\ \A j \in i + 1 .. Len(s) + 1 : InsertAt(s, i, e)[j] = s[j - 1]
<1>0. Len(s) \in Nat /\ \A j \in 1 .. Len(s) : s[j] \in S
  BY LenProperties, ElementOfSeq
<1>1. PICK a : a = SubSeq(s, 1, i - 1)
  OBVIOUS
<1>2. a \in Seq(S) /\ Len(a) = i - 1 /\ \A j \in 1 .. i - 1 : a[j] = s[j]
  BY <1>0, <1>1, SubSeqProperties
<1>3. PICK b : b = SubSeq(s, i, Len(s))
  OBVIOUS
<1>4. b \in Seq(S) /\ Len(b) = Len(s) - i + 1 /\ \A j \in 1 .. Len(s) - i + 1 : b[j] = s[i + j - 1]
  BY <1>0, <1>3, SubSeqProperties
<1>5. PICK c : c = a \o <<e>>
  OBVIOUS
<1>6. <<e>> \in Seq(S) /\ Len(<<e>>) = 1 /\ <<e>>[1] = e
  OBVIOUS
<1>7. /\ c \in Seq(S) /\ Len(c) = i
      /\ \A j \in 1 .. i : c[j] = IF j <= i - 1 THEN a[j] ELSE <<e>>[j - (i - 1)]
  <2>1. /\ c \in Seq(S) /\ Len(c) = Len(a) + Len(<<e>>)
        /\ \A j \in 1 .. Len(a) + Len(<<e>>) : c[j] = IF j <= Len(a) THEN a[j] ELSE <<e>>[j - Len(a)]
    BY <1>2, <1>5, <1>6, ConcatProperties
  <2> QED BY <1>2, <1>6, <2>1
<1>8. PICK t : t = c \o b
  OBVIOUS
<1>9. /\ t \in Seq(S) /\ Len(t) = Len(s) + 1
      /\ \A j \in 1 .. Len(s) + 1 : t[j] = IF j <= i THEN c[j] ELSE b[j - i]
  <2>1. /\ t \in Seq(S) /\ Len(t) = Len(c) + Len(b)
        /\ \A j \in 1 .. Len(c) + Len(b) : t[j] = IF j <= Len(c) THEN c[j] ELSE b[j - Len(c)]
    BY <1>4, <1>7, <1>8, ConcatProperties
  <2> QED BY <1>0, <1>4, <1>7, <2>1
<1>10. InsertAt(s, i, e) = t
  BY <1>1, <1>3, <1>5, <1>8 DEF InsertAt
<1>11. t[i] = e
  BY <1>0, <1>6, <1>7, <1>9
<1>12. ASSUME NEW j \in 1 .. i - 1 PROVE t[j] = s[j]
  <2>1. j \in 1 .. Len(s) + 1 /\ j \in 1 .. i /\ j <= i - 1 /\ j <= i
    BY <1>0
  <2>2. t[j] = c[j] /\ c[j] = a[j]
    BY <1>7, <1>9, <2>1
  <2> QED BY <1>2, <2>2
<1>13. ASSUME NEW j \in i + 1 .. Len(s) + 1 PROVE t[j] = s[j - 1]
  <2>1. t[j] = b[j - i] /\ j - i \in 1 .. Len(s) - i + 1 /\ i + (j - i) - 1 = j - 1
    BY <1>0, <1>9
  <2> QED BY <1>4, <2>1
<1> QED BY <1>9, <1>10, <1>11, <1>12, <1>13

\* A row the writer inserts; what was there moves at most one place.
LEMMA StoreStep ==
  ASSUME AuditInv, NEW w \in Writer, pen[w] # NoPen,
         pen[w] = 0 \/ \A i \in 1 .. Len(rows) : rows[i].prev # pen[w],
         NEW i \in Places(w), seals' = seals + 1, pen' = [pen EXCEPT ![w] = NoPen],
         rows' = InsertAt(rows, i, [hash |-> seals', prev |-> pen[w]]),
         mixed' \in [unsealed : BOOLEAN, raced : BOOLEAN, lagged : BOOLEAN],
         mixed' = Undisturbed => mixed = Undisturbed /\ w \notin Lagging /\ (pen[w] = 0 => rows = <<>>),
         ~ mixed'.lagged => ~ mixed.lagged /\ w \notin Lagging
  PROVE  AuditInv'
<1>0. /\ rows \in Seq(AuditRow) /\ Len(rows) \in Nat /\ seals \in Nat
      /\ pen[w] \in 0 .. seals /\ i \in 1 .. Len(rows) + 1
      /\ w \in Lagging \/ pen[w] = 0 \/ \E j \in 1 .. i - 1 : rows[j].hash = pen[w]
      /\ \A j \in 1 .. Len(rows) : rows[j].hash \in 0 .. seals /\ rows[j].prev \in 0 .. seals
  <2>1. rows \in Seq(AuditRow) /\ Len(rows) \in Nat /\ seals \in Nat /\ pen[w] \in Nat /\ pen[w] <= seals
    BY LenProperties DEF AuditInv, AuditTypeOK, SealsKnown
  <2>2. \A j \in 1 .. Len(rows) : rows[j] \in AuditRow
    BY <2>1, ElementOfSeq
  <2> QED BY <2>1, <2>2 DEF AuditRow, AuditInv, SealsKnown, Places
<1>1. PICK r : r = [hash |-> seals', prev |-> pen[w]]
  OBVIOUS
<1>2. r \in AuditRow /\ r.hash = seals + 1 /\ r.prev = pen[w] /\ rows' = InsertAt(rows, i, r)
  BY <1>0, <1>1 DEF AuditRow
<1>3. /\ rows' \in Seq(AuditRow) /\ Len(rows') = Len(rows) + 1 /\ rows'[i] = r
      /\ \A j \in 1 .. i - 1 : rows'[j] = rows[j]
      /\ \A j \in i + 1 .. Len(rows) + 1 : rows'[j] = rows[j - 1]
  <2>1. rows \in Seq(AuditRow) /\ i \in 1 .. Len(rows) + 1 /\ r \in AuditRow
    BY <1>0, <1>2
  <2>2. /\ InsertAt(rows, i, r) \in Seq(AuditRow)
        /\ Len(InsertAt(rows, i, r)) = Len(rows) + 1
        /\ InsertAt(rows, i, r)[i] = r
        /\ \A j \in 1 .. i - 1 : InsertAt(rows, i, r)[j] = rows[j]
        /\ \A j \in i + 1 .. Len(rows) + 1 : InsertAt(rows, i, r)[j] = rows[j - 1]
    BY <2>1, InsertAtProperties
  <2> QED BY <1>2, <2>2
<1>4. AuditTypeOK'
  BY <1>0, <1>3 DEF AuditInv, AuditTypeOK
<1>5. \A v \in Writer : pen'[v] = NoPen \/ (v # w /\ pen'[v] = pen[v])
  BY DEF AuditInv, AuditTypeOK
<1>6. SealsKnown'
  <2>1. \A v \in Writer : pen'[v] <= seals'
    BY <1>0, <1>5 DEF AuditInv, AuditTypeOK, SealsKnown, NoPen
  <2>2. ASSUME NEW j \in 1 .. Len(rows) + 1 PROVE rows'[j].hash <= seals' /\ rows'[j].prev <= seals'
    <3>1. CASE j = i
      BY <1>0, <1>2, <1>3, <3>1
    <3>2. CASE j < i
      BY <1>0, <1>3, <3>2, SMTT(60)
    <3>3. CASE j > i
      <4>1. rows'[j] = rows[j - 1] /\ j - 1 \in 1 .. Len(rows)
        BY <1>0, <1>3, <3>3
      <4> QED BY <1>0, <4>1
    <3> QED BY <1>0, <3>1, <3>2, <3>3
  <2>3. ASSUME NEW j \in 1 .. Len(rows) + 1, NEW k \in 1 .. Len(rows) + 1,
               rows'[j].hash = rows'[k].hash, rows'[j].hash # 0
        PROVE  j = k
    <3>1. ASSUME NEW l \in 1 .. Len(rows) + 1, l # i
          PROVE  /\ l < i => l \in 1 .. Len(rows) /\ rows'[l] = rows[l]
                 /\ l > i => l - 1 \in 1 .. Len(rows) /\ rows'[l] = rows[l - 1]
                 /\ rows'[l].hash # seals + 1
      <4>1. CASE l < i
        BY <1>0, <1>3, <4>1, SMTT(60)
      <4>2. CASE l > i
        <5>1. rows'[l] = rows[l - 1] /\ l - 1 \in 1 .. Len(rows)
          BY <1>0, <1>3, <4>2
        <5> QED BY <1>0, <4>2, <5>1
      <4> QED BY <1>0, <3>1, <4>1, <4>2
    <3>2. CASE j = i \/ k = i
      BY <1>2, <1>3, <2>3, <3>1, <3>2
    <3>3. CASE j # i /\ k # i
      <4>1. \A a, b \in 1 .. Len(rows) : rows[a].hash = rows[b].hash /\ rows[a].hash # 0 => a = b
        BY DEF AuditInv, SealsKnown
      <4>2. PICK a \in 1 .. Len(rows) : a = (IF j < i THEN j ELSE j - 1) /\ rows'[j] = rows[a]
        BY <1>0, <3>1, <3>3, SMTT(60)
      <4>3. PICK b \in 1 .. Len(rows) : b = (IF k < i THEN k ELSE k - 1) /\ rows'[k] = rows[b]
        BY <1>0, <3>1, <3>3, SMTT(60)
      <4>4. a = b
        BY <2>3, <4>1, <4>2, <4>3
      <4> QED BY <1>0, <3>3, <4>2, <4>3, <4>4
    <3> QED BY <3>2, <3>3
  <2> QED BY <1>3, <2>1, <2>2, <2>3 DEF SealsKnown
<1>7. Chained'
  <2> SUFFICES ASSUME mixed' = Undisturbed
               PROVE  /\ \A j \in 1 .. Len(rows') : rows'[j].hash # 0
                      /\ \A j \in 1 .. Len(rows') : j # 1 => rows'[j].prev = rows'[j - 1].hash
                      /\ rows' # <<>> => rows'[1].prev = 0
                      /\ \A v \in Writer : pen'[v] \in {NoPen, 0} \/ \E j \in 1 .. Len(rows') : rows'[j].hash = pen'[v]
    BY DEF Chained
  <2>1. /\ \A j \in 1 .. Len(rows) : rows[j].hash # 0
        /\ \A j \in 1 .. Len(rows) : j # 1 => rows[j].prev = rows[j - 1].hash
        /\ rows # <<>> => rows[1].prev = 0
        /\ \A v \in Writer : pen[v] \in {NoPen, 0} \/ \E j \in 1 .. Len(rows) : rows[j].hash = pen[v]
    BY DEF AuditInv, Chained
  <2>2. i = Len(rows) + 1 /\ (rows # <<>> => pen[w] = rows[Len(rows)].hash) /\ (rows = <<>> => pen[w] = 0)
    <3>1. CASE rows = <<>>
      <4>1. Len(rows) = 0
        BY <3>1
      <4> QED BY <1>0, <3>1, <4>1
    <3>2. CASE rows # <<>>
      <4>1. PICK j \in 1 .. i - 1 : rows[j].hash = pen[w]
        BY <1>0, <3>2
      <4>2. ASSUME j # Len(rows) PROVE FALSE
        <5>1. j + 1 \in 1 .. Len(rows) /\ j + 1 # 1 /\ (j + 1) - 1 = j
          BY <1>0, <4>2
        <5>2. rows[j + 1].prev = pen[w]
          BY <2>1, <4>1, <5>1
        <5>3. pen[w] # 0
          BY <1>0, <2>1, <4>1
        <5> QED BY <5>1, <5>2, <5>3
      <4> QED BY <1>0, <3>2, <4>1, <4>2
    <3> QED BY <3>1, <3>2
  <2>3. \A j \in 1 .. Len(rows) : rows'[j] = rows[j]
    BY <1>0, <1>3, <2>2
  <2>4. \A j \in 1 .. Len(rows') : rows'[j].hash # 0
    BY <1>0, <1>2, <1>3, <2>1, <2>2, <2>3, SMTT(60)
  <2>5. ASSUME NEW j \in 1 .. Len(rows'), j # 1 PROVE rows'[j].prev = rows'[j - 1].hash
    <3>1. CASE j = i
      <4>1. Len(rows) \in 1 .. Len(rows) /\ rows # <<>> /\ j - 1 = Len(rows)
        BY <1>0, <1>3, <2>2, <2>5, <3>1
      <4> QED BY <1>2, <1>3, <2>2, <2>3, <3>1, <4>1
    <3>2. CASE j # i
      <4>1. j \in 1 .. Len(rows) /\ j - 1 \in 1 .. Len(rows)
        BY <1>0, <1>3, <2>2, <2>5, <3>2
      <4> QED BY <2>1, <2>3, <2>5, <4>1
    <3> QED BY <3>1, <3>2
  <2>6. rows'[1].prev = 0
    <3>1. CASE rows = <<>>
      BY <1>2, <1>3, <2>2, <3>1
    <3>2. CASE rows # <<>>
      <4>1. 1 \in 1 .. Len(rows)
        BY <1>0, <3>2, EmptySeq
      <4> QED BY <2>1, <2>3, <3>2, <4>1
    <3> QED BY <3>1, <3>2
  <2>7. ASSUME NEW v \in Writer, pen'[v] \notin {NoPen, 0} PROVE \E j \in 1 .. Len(rows') : rows'[j].hash = pen'[v]
    <3>1. PICK j \in 1 .. Len(rows) : rows[j].hash = pen'[v]
      BY <1>5, <2>1, <2>7
    <3>2. j \in 1 .. Len(rows') /\ rows'[j] = rows[j]
      BY <1>0, <1>3, <2>3
    <3> QED BY <3>1, <3>2
  <2> QED BY <2>4, <2>5, <2>6, <2>7
<1>8. HeadIsFree'
  <2> SUFFICES ASSUME ~ mixed'.lagged, rows'[Len(rows')].hash # 0, NEW j \in 1 .. Len(rows'),
                      rows'[j].prev = rows'[Len(rows')].hash
               PROVE  FALSE
    BY <1>3 DEF HeadIsFree, LastHash, Last
  <2>1. CASE i = Len(rows) + 1
    <3>1. rows'[Len(rows')].hash = seals + 1
      BY <1>2, <1>3, <2>1
    <3>2. rows'[j].prev <= seals
      BY <1>0, <1>2, <1>3, <2>1
    <3> QED BY <1>0, <3>1, <3>2
  <2>2. CASE i # Len(rows) + 1
    <3>1. /\ Len(rows) \in 1 .. Len(rows) /\ i \in 1 .. Len(rows)
          /\ rows'[Len(rows')] = rows[Len(rows)]
      BY <1>0, <1>3, <2>2
    <3>2. rows # <<>> /\ LastHash = rows[Len(rows)].hash /\ LastHash # 0
      BY <1>0, <3>1 DEF LastHash, Last
    <3>3. \A k \in 1 .. Len(rows) : rows[k].prev # LastHash
      BY <1>0, <3>2 DEF AuditInv, HeadIsFree
    <3>4. CASE j = i
      <4>1. pen[w] = LastHash /\ w \notin Lagging
        BY <1>2, <1>3, <3>1, <3>2, <3>4
      <4>2. PICK k \in 1 .. i - 1 : rows[k].hash = LastHash
        BY <1>0, <3>2, <4>1
      <4>3. k = Len(rows)
        BY <1>0, <3>1, <3>2, <4>2 DEF AuditInv, SealsKnown
      <4> QED BY <1>0, <3>1, <4>3
    <3>5. CASE j < i
      <4>1. rows'[j] = rows[j] /\ j \in 1 .. Len(rows)
        BY <1>0, <1>3, <3>5
      <4> QED BY <3>1, <3>2, <3>3, <4>1
    <3>6. CASE j > i
      <4>1. rows'[j] = rows[j - 1] /\ j - 1 \in 1 .. Len(rows)
        BY <1>0, <1>3, <3>6
      <4> QED BY <3>1, <3>2, <3>3, <4>1
    <3> QED BY <1>0, <3>4, <3>5, <3>6
  <2> QED BY <2>1, <2>2
<1> QED BY <1>4, <1>6, <1>7, <1>8 DEF AuditInv

\* Appending, sealing and the backfill leave the chain as it was.
LEMMA NextAuditInv == AuditInv /\ [AuditNext]_auditVars => AuditInv'
<1> SUFFICES ASSUME AuditInv, [AuditNext]_auditVars PROVE AuditInv'
  OBVIOUS
<1>0. AuditTypeOK /\ SealsKnown /\ Chained /\ HeadIsFree /\ Len(rows) \in Nat
  BY LenProperties DEF AuditInv, AuditTypeOK
<1>1. ASSUME NEW w \in Writer, ReadLast(w) PROVE AuditInv'
  <2>1. rows # <<>> => Len(rows) \in 1 .. Len(rows) /\ rows[Len(rows)] \in AuditRow
    BY <1>0, EmptySeq, ElementOfSeq DEF AuditTypeOK
  <2>2. LastHash \in 0 .. seals /\ (rows # <<>> => LastHash = rows[Len(rows)].hash) /\ (rows = <<>> => LastHash = 0)
    BY <1>0, <2>1 DEF LastHash, Last, AuditTypeOK, AuditRow, SealsKnown
  <2>3. pen' = [pen EXCEPT ![w] = LastHash] /\ UNCHANGED <<ledger, rows, seals, mixed>>
    BY <1>1 DEF ReadLast
  <2>4. pen' \in [Writer -> Nat \cup {NoPen}] /\ pen'[w] = LastHash /\ \A v \in Writer \ {w} : pen'[v] = pen[v]
    BY <1>0, <2>2, <2>3 DEF AuditTypeOK
  <2>5. AuditTypeOK'
    BY <1>0, <2>3, <2>4 DEF AuditTypeOK
  <2>6. SealsKnown'
    BY <1>0, <2>2, <2>3, <2>4 DEF SealsKnown
  <2>7. Chained'
    BY <1>0, <2>1, <2>2, <2>3, <2>4 DEF Chained
  <2> QED BY <1>0, <2>3, <2>5, <2>6, <2>7 DEF AuditInv, HeadIsFree, LastHash
<1>2. ASSUME NEW w \in Writer, pen[w] # NoPen, pen' = [pen EXCEPT ![w] = NoPen], UNCHANGED <<rows, seals, mixed>>
      PROVE  AuditInv'
  <2>1. pen' \in [Writer -> Nat \cup {NoPen}] /\ pen'[w] = NoPen /\ \A v \in Writer \ {w} : pen'[v] = pen[v]
    BY <1>0, <1>2 DEF AuditTypeOK
  <2>2. AuditTypeOK'
    BY <1>0, <1>2, <2>1 DEF AuditTypeOK
  <2>3. SealsKnown'
    BY <1>0, <1>2, <2>1 DEF SealsKnown, NoPen, AuditTypeOK
  <2>4. Chained'
    BY <1>0, <1>2, <2>1 DEF Chained
  <2> QED BY <1>0, <1>2, <2>2, <2>3, <2>4 DEF AuditInv, HeadIsFree, LastHash
<1>3. ASSUME NEW w \in Writer, Store(w) PROVE AuditInv'
  <2>1. CASE pen[w] # 0 /\ \E i \in DOMAIN rows : rows[i].prev = pen[w]
    BY <1>2, <1>3, <2>1 DEF Store
  <2>2. CASE ~ (pen[w] # 0 /\ \E i \in DOMAIN rows : rows[i].prev = pen[w])
    <3>1. PICK i \in Places(w) : rows' = InsertAt(rows, i, [hash |-> seals', prev |-> pen[w]])
      BY <1>3, <2>2 DEF Store
    <3>2. /\ pen[w] # NoPen /\ seals' = seals + 1 /\ pen' = [pen EXCEPT ![w] = NoPen]
          /\ mixed' = [mixed EXCEPT !.raced = @ \/ (pen[w] = 0 /\ rows # <<>>), !.lagged = @ \/ w \in Lagging]
      BY <1>3, <2>2 DEF Store
    <3>3. pen[w] = 0 \/ \A j \in 1 .. Len(rows) : rows[j].prev # pen[w]
      BY <1>0, <2>2, LenProperties DEF AuditTypeOK
    <3>4. PICK racing \in BOOLEAN, lagging \in BOOLEAN :
            /\ racing <=> mixed.raced \/ (pen[w] = 0 /\ rows # <<>>)
            /\ lagging <=> mixed.lagged \/ w \in Lagging
      OBVIOUS
    <3>5. mixed' = [unsealed |-> mixed.unsealed, raced |-> racing, lagged |-> lagging]
      BY <1>0, <3>2, <3>4 DEF AuditTypeOK
    <3>6. mixed' \in [unsealed : BOOLEAN, raced : BOOLEAN, lagged : BOOLEAN]
      BY <1>0, <3>5 DEF AuditTypeOK
    <3>7. mixed' = Undisturbed => mixed = Undisturbed /\ w \notin Lagging /\ (pen[w] = 0 => rows = <<>>)
      BY <1>0, <3>4, <3>5 DEF AuditTypeOK, Undisturbed
    <3>8. ~ mixed'.lagged => ~ mixed.lagged /\ w \notin Lagging
      BY <3>4, <3>5
    <3> QED BY <3>1, <3>2, <3>3, <3>6, <3>7, <3>8, StoreStep
  <2> QED BY <2>1, <2>2
<1>4. CASE CreateUnsealed
  <2>1. PICK r : r = [hash |-> 0, prev |-> 0]
    OBVIOUS
  <2>2. r \in AuditRow /\ r.hash = 0 /\ r.prev = 0 /\ rows' = Append(rows, r)
    BY <1>4, <2>1 DEF CreateUnsealed, AuditRow
  <2>3. /\ rows' \in Seq(AuditRow) /\ Len(rows') = Len(rows) + 1 /\ rows'[Len(rows) + 1] = r
        /\ \A i \in 1 .. Len(rows) : rows'[i] = rows[i]
    BY <1>0, <2>2 DEF AuditTypeOK
  <2>4. /\ UNCHANGED <<pen, seals>> /\ mixed' \in [unsealed : BOOLEAN, raced : BOOLEAN, lagged : BOOLEAN]
        /\ mixed' # Undisturbed
    BY <1>0, <1>4 DEF CreateUnsealed, AuditTypeOK, Undisturbed
  <2>5. AuditTypeOK'
    BY <1>0, <2>3, <2>4 DEF AuditTypeOK
  <2>6. SealsKnown'
    BY <1>0, <2>2, <2>3, <2>4 DEF SealsKnown, AuditTypeOK
  <2>7. HeadIsFree'
    <3>1. rows' # <<>>
      BY <1>0, <2>3, EmptySeq
    <3> QED BY <2>2, <2>3, <3>1 DEF HeadIsFree, LastHash, Last
  <2> QED BY <2>4, <2>5, <2>6, <2>7 DEF AuditInv, Chained
<1>5. CASE UNCHANGED auditVars
  BY <1>0, <1>5 DEF auditVars, AuditInv, AuditTypeOK, SealsKnown, Chained, HeadIsFree, LastHash
<1> QED BY <1>1, <1>2, <1>3, <1>4, <1>5 DEF AuditNext, AppendFails

\* However many writers there are, the log is one chain and goes on, but for the
\* disturbances it names.
THEOREM SpecLogStands == AuditSpec => []LogStands
<1>1. AuditInit => AuditInv
  BY EmptySeq DEF AuditInit, AuditInv, AuditTypeOK, SealsKnown, Chained, HeadIsFree, LastHash, Undisturbed, NoPen
<1>2. AuditInv => LogStands
  <2> SUFFICES ASSUME AuditInv, mixed = Undisturbed
               PROVE  /\ \A i \in 2 .. Len(rows) : rows[i].prev = rows[i - 1].hash
                      /\ ChainErrors = {}
    BY DEF AuditInv, LogStands, LogIsChain
  <2>1. /\ DOMAIN rows = 1 .. Len(rows) /\ Len(rows) \in Nat
        /\ \A i \in 1 .. Len(rows) : rows[i].hash # 0
        /\ \A i \in 1 .. Len(rows) : i # 1 => rows[i].prev = rows[i - 1].hash
        /\ rows # <<>> => rows[1].prev = 0 /\ Len(rows) > 0
    BY LenProperties, EmptySeq DEF AuditInv, AuditTypeOK, Chained
  <2>2. \A i \in 2 .. Len(rows) : rows[i].prev = rows[i - 1].hash /\ i - 1 \in DOMAIN rows
    BY <2>1
  <2>3. \A i \in DOMAIN rows : i = 1 \/ i \in 2 .. Len(rows)
    BY <2>1
  <2>4. IF rows = <<>> THEN Genesis = {} ELSE Genesis = {1}
    <3>1. ASSUME NEW i \in DOMAIN rows, rows[i].prev = 0 PROVE i = 1
      BY <2>1, <2>2, <2>3, <3>1
    <3>2. rows # <<>> => 1 \in DOMAIN rows
      BY <2>1
    <3>3. rows = <<>> => DOMAIN rows = {}
      BY <2>1
    <3> QED BY <2>1, <3>1, <3>2, <3>3 DEF Genesis
  <2>5. Cardinality({}) = 0 /\ Cardinality({1}) = 1
    BY FS_EmptySet, FS_Singleton, Zenon
  <2>6. ~ Cardinality(Genesis) > 1
    BY <2>4, <2>5, SMTT(60)
  <2>7. \A i \in DOMAIN rows : rows[i].prev \in {0} \cup {rows[j].hash : j \in DOMAIN rows}
    <3> SUFFICES ASSUME NEW i \in DOMAIN rows
                 PROVE  rows[i].prev = 0 \/ \E j \in DOMAIN rows : rows[i].prev = rows[j].hash
      OBVIOUS
    <3>1. CASE i = 1
      BY <2>1, <3>1
    <3>2. CASE i \in 2 .. Len(rows)
      BY <2>2, <3>2
    <3> QED BY <2>3, <3>1, <3>2
  <2>8. EventErrors = {}
    <3>1. ~ \E i \in DOMAIN rows : rows[i].prev \notin {0} \cup {rows[j].hash : j \in DOMAIN rows}
      BY <2>7
    <3>2. EventErrors = {} \cup {}
      BY <2>6, <3>1, Zenon DEF EventErrors
    <3> QED BY <3>2
  <2>9. AuditErrors = {}
    BY <2>4, <2>8 DEF AuditErrors
  <2> QED BY <2>2, <2>8, <2>9 DEF ChainErrors
<1> QED BY <1>1, <1>2, NextAuditInv, PTL DEF AuditSpec

-----------------------------------------------------------------------------
(* Telegram *)

\* The chat of an update had the number when it was read, and has it still or
\* has given it up.
Had(u, n) == link[update[u].chat] = n \/ <<update[u].chat, n>> \in left

HandlingStates ==
  [step : {"rest"}] \cup [step : {"received", "linking"}, u : Update]
  \cup [step : {"resolved"}, u : Update, number : Phone]

CommandStates ==
  [step : {"none"}] \cup [step : {"queued", "undeliverable"}, number : Phone]
  \cup [step : {"posting", "accepted", "transient_failure", "permanent_failure", "unknown"},
        number : Phone, tries : Nat, to : Chat]

TelegramTypeOK ==
  /\ link \in [Chat -> Phone \cup {Unlinked}]
  /\ update \in [Update -> {Unsent} \cup [chat : Chat, content : Contents]]
  /\ handling \in [Handling -> HandlingStates]
  /\ command \in [Update -> CommandStates]

LinkedOnce == \A c, d \in Chat : link[c] = link[d] /\ link[c] # Unlinked => c = d

\* A request, and a command, are of an update that was sent; a number they hold
\* is one that the chat of that update had.
HandlingKnows ==
  \A h \in Handling : ~ Handles(h, "rest") =>
    /\ update[handling[h].u] # Unsent
    /\ Handles(h, "linking") => ContentOf(h) \in Phone
    /\ Handles(h, "resolved") => Had(handling[h].u, handling[h].number)
CommandKnows ==
  \A u \in Update : command[u] # NoCommand =>
    /\ update[u] # Unsent
    /\ Had(u, command[u].number)
    /\ "to" \in DOMAIN command[u] /\ command[u].to # update[u].chat => <<update[u].chat, command[u].number>> \in left

TelegramInv == TelegramTypeOK /\ LinkedOnce /\ HandlingKnows /\ CommandKnows

\* What a chat had it keeps having, or has given up.
LEMMA HadStays ==
  ASSUME TelegramInv, NEW u \in Update, NEW n \in Phone, update[u] # Unsent, Had(u, n),
         update'[u] = update[u], left \subseteq left',
         \A c \in Chat : link'[c] = link[c] \/ (link[c] \in Phone => <<c, link[c]>> \in left')
  PROVE  Had(u, n)'
BY DEF TelegramInv, TelegramTypeOK, Had

\* A step that answers requests or brings one of them further, and adds no
\* command.
LEMMA RequestsStep ==
  ASSUME TelegramInv, TelegramTypeOK', LinkedOnce', left \subseteq left', UNCHANGED command,
         \A u \in Update : update[u] # Unsent => update'[u] = update[u],
         \A c \in Chat : link'[c] = link[c] \/ (link[c] \in Phone => <<c, link[c]>> \in left'),
         \A h \in Handling :
           \/ handling'[h] = handling[h]
           \/ handling'[h].step = "rest"
           \/ /\ handling'[h].step \in {"received", "linking"}
              /\ update[handling'[h].u] # Unsent
              /\ handling'[h].step = "linking" => update[handling'[h].u].content \in Phone
           \/ handling'[h].step = "resolved" /\ update[handling'[h].u] # Unsent /\ Had(handling'[h].u, handling'[h].number)
  PROVE  TelegramInv'
<1>1. ASSUME NEW h \in Handling, handling'[h].step # "rest"
      PROVE  /\ update'[handling'[h].u] # Unsent
             /\ handling'[h].step = "linking" => update'[handling'[h].u].content \in Phone
             /\ handling'[h].step = "resolved" => Had(handling[h].u, handling[h].number)'
  <2>1. PICK r \in HandlingStates : r = handling'[h]
    BY DEF TelegramTypeOK
  <2>2. /\ r.u \in Update /\ update[r.u] # Unsent
        /\ r.step = "linking" => update[r.u].content \in Phone
        /\ r.step = "resolved" => r.number \in Phone /\ Had(r.u, r.number)
    BY <1>1, <2>1 DEF TelegramInv, HandlingKnows, Handles, ContentOf, HandlingStates
  <2>3. update'[r.u] = update[r.u]
    BY <2>2
  <2>4. ASSUME r.step = "resolved" PROVE Had(handling[h].u, handling[h].number)'
    <3>1. PICK u \in Update, n \in Phone : u = r.u /\ n = r.number
      BY <2>2, <2>4
    <3>2. Had(u, n)'
      BY <2>2, <2>3, <2>4, <3>1, HadStays
    <3> QED BY <2>1, <3>1, <3>2 DEF Had
  <2> QED BY <2>1, <2>2, <2>3, <2>4
<1>2. HandlingKnows'
  BY <1>1 DEF HandlingKnows, Handles, ContentOf
<1>3. CommandKnows'
  <2>1. ASSUME NEW u \in Update, command'[u] # NoCommand
        PROVE  /\ update'[u] # Unsent
               /\ Had(u, command[u].number)'
               /\ "to" \in DOMAIN command'[u] /\ command'[u].to # update'[u].chat
                    => <<update'[u].chat, command'[u].number>> \in left'
    <3>1. update[u] # Unsent /\ command[u].number \in Phone /\ Had(u, command[u].number) /\ update'[u] = update[u]
      BY <2>1 DEF TelegramInv, CommandKnows, TelegramTypeOK, CommandStates, NoCommand
    <3>2. PICK n \in Phone : n = command[u].number
      BY <3>1
    <3>3. Had(u, n)'
      BY <3>1, <3>2, HadStays
    <3>4. Had(u, command[u].number)'
      BY <3>2, <3>3 DEF Had
    <3> QED BY <2>1, <3>1, <3>4 DEF TelegramInv, CommandKnows
  <2> QED BY <2>1 DEF CommandKnows
<1> QED BY <1>2, <1>3 DEF TelegramInv

\* A step of one command, of an update that was sent.
LEMMA CommandStep ==
  ASSUME TelegramInv, NEW u \in Update, UNCHANGED <<link, update, left>>, handling' \in [Handling -> HandlingStates],
         \A h \in Handling : handling'[h] = handling[h] \/ handling'[h].step = "rest",
         NEW r \in CommandStates \ {NoCommand}, command' = [command EXCEPT ![u] = r],
         update[u] # Unsent, Had(u, r.number),
         "to" \in DOMAIN r /\ r.to # update[u].chat => <<update[u].chat, r.number>> \in left
  PROVE  TelegramInv'
<1>1. /\ command'[u] = r /\ command' \in [Update -> CommandStates]
      /\ \A v \in Update \ {u} : command'[v] = command[v]
  BY DEF TelegramInv, TelegramTypeOK
<1>2. TelegramTypeOK' /\ LinkedOnce'
  BY <1>1 DEF TelegramInv, TelegramTypeOK, LinkedOnce
<1>3. HandlingKnows'
  BY DEF TelegramInv, HandlingKnows, Handles, ContentOf, Had
<1>4. CommandKnows'
  BY <1>1 DEF TelegramInv, CommandKnows, Had
<1> QED BY <1>2, <1>3, <1>4 DEF TelegramInv

\* Links, updates and commands: each step keeps what a chat has had.
LEMMA NextTelegramInv == TelegramInv /\ [TelegramNext]_telegramVars => TelegramInv'
<1> SUFFICES ASSUME TelegramInv, [TelegramNext]_telegramVars PROVE TelegramInv'
  OBVIOUS
<1>0. TelegramTypeOK /\ LinkedOnce /\ HandlingKnows /\ CommandKnows
  BY DEF TelegramInv
<1>a. AtRest \in HandlingStates /\ AtRest.step = "rest"
  BY DEF AtRest, HandlingStates
<1>b. ASSUME NEW h \in Handling, ~ Handles(h, "rest")
      PROVE  handling[h].u \in Update /\ ChatOf(h) \in Chat /\ ContentOf(h) \in Contents
    <2>1. handling[h].u \in Update /\ update[handling[h].u] # Unsent
      BY <1>0, <1>b DEF TelegramTypeOK, HandlingStates, Handles, HandlingKnows
    <2> QED BY <1>0, <2>1 DEF TelegramTypeOK, ChatOf, ContentOf
<1>c. ASSUME NEW h \in Handling, Answer(h)
      PROVE  /\ handling' \in [Handling -> HandlingStates] /\ handling'[h].step = "rest"
             /\ \A g \in Handling \ {h} : handling'[g] = handling[g]
  BY <1>0, <1>a, <1>c DEF Answer, TelegramTypeOK
<1>1. ASSUME NEW u \in Update, NEW c \in Chat, NEW content \in Contents, SendUpdate(u, c, content) PROVE TelegramInv'
  <2>1. PICK r \in [chat : Chat, content : Contents] : r = [chat |-> c, content |-> content]
    OBVIOUS
  <2>2. update' = [update EXCEPT ![u] = r]
    BY <1>1, <2>1 DEF SendUpdate
  <2>3. update' \in [Update -> {Unsent} \cup [chat : Chat, content : Contents]]
        /\ \A v \in Update : update[v] # Unsent => update'[v] = update[v]
    BY <1>0, <1>1, <2>2 DEF TelegramTypeOK, SendUpdate
  <2> QED BY <1>0, <1>1, <2>3, RequestsStep DEF SendUpdate, TelegramTypeOK, LinkedOnce
<1>2. ASSUME NEW h \in Handling, NEW u \in Update, DeliverUpdate(h, u) PROVE TelegramInv'
  <2>1. PICK r : r = [step |-> "received", u |-> u]
    OBVIOUS
  <2>2. r \in HandlingStates /\ r.step = "received" /\ r.u = u
    BY <2>1 DEF HandlingStates
  <2>3. handling' = [handling EXCEPT ![h] = r]
    BY <1>2, <2>1 DEF DeliverUpdate
  <2>4. handling' \in [Handling -> HandlingStates] /\ handling'[h] = r /\ \A g \in Handling \ {h} : handling'[g] = handling[g]
    BY <1>0, <2>2, <2>3 DEF TelegramTypeOK
  <2> QED BY <1>0, <1>2, <2>2, <2>4, RequestsStep DEF DeliverUpdate, TelegramTypeOK, LinkedOnce
<1>3. ASSUME NEW h \in Handling, Answer(h), UNCHANGED <<link, update, command, left>> PROVE TelegramInv'
  BY <1>0, <1>3, <1>c, RequestsStep DEF TelegramTypeOK, LinkedOnce
<1>4. ASSUME NEW h \in Handling, ReadHolder(h) PROVE TelegramInv'
  <2>1. CASE handling' = [handling EXCEPT ![h].step = "linking"]
    <3>1. PICK r \in HandlingStates : r = [step |-> "linking", u |-> handling[h].u]
      BY <1>4, <1>b DEF HandlingStates, ReadHolder, Handles
    <3>2. [handling[h] EXCEPT !.step = "linking"] = r
      BY <1>0, <1>4, <3>1 DEF TelegramTypeOK, HandlingStates, ReadHolder, Handles
    <3>3. handling' = [handling EXCEPT ![h] = r]
      BY <2>1, <3>2
    <3>4. handling' \in [Handling -> HandlingStates] /\ handling'[h] = r /\ \A g \in Handling \ {h} : handling'[g] = handling[g]
      BY <1>0, <3>3 DEF TelegramTypeOK
    <3>5. r.step = "linking" /\ update[r.u] # Unsent /\ update[r.u].content \in Phone
      BY <1>0, <1>4, <3>1 DEF ReadHolder, ContentOf, HandlingKnows, Handles
    <3> QED BY <1>0, <1>4, <3>4, <3>5, RequestsStep DEF ReadHolder, TelegramTypeOK, LinkedOnce
  <2> QED BY <1>3, <1>4, <2>1 DEF ReadHolder
<1>5. ASSUME NEW h \in Handling, UpsertLink(h) PROVE TelegramInv'
  <2>1. CASE Holders(ContentOf(h)) \subseteq {ChatOf(h)}
    <3>1. PICK c \in Chat, p \in Phone : c = ChatOf(h) /\ p = ContentOf(h)
      BY <1>0, <1>5, <1>b DEF UpsertLink, HandlingKnows, Handles
    <3>2. /\ link' = [link EXCEPT ![c] = p] /\ Leaves(c, p) /\ Answer(h) /\ UNCHANGED <<update, command>>
          /\ Holders(p) \subseteq {c}
      BY <1>5, <2>1, <3>1 DEF UpsertLink
    <3>3. left \subseteq left' /\ (link[c] \in Phone /\ link[c] # p => <<c, link[c]>> \in left')
      BY <3>2 DEF Leaves
    <3>4. link' \in [Chat -> Phone \cup {Unlinked}] /\ link'[c] = p /\ \A d \in Chat \ {c} : link'[d] = link[d]
      BY <1>0, <3>2 DEF TelegramTypeOK
    <3>5. LinkedOnce'
      BY <1>0, <3>2, <3>4 DEF LinkedOnce, Holders
    <3>6. TelegramTypeOK'
      BY <1>0, <1>c, <3>2, <3>4 DEF TelegramTypeOK
    <3>7. \A d \in Chat : link'[d] = link[d] \/ (link[d] \in Phone => <<d, link[d]>> \in left')
      BY <3>3, <3>4
    <3> QED BY <1>c, <3>2, <3>3, <3>5, <3>6, <3>7, RequestsStep
  <2> QED BY <1>3, <1>5, <2>1 DEF UpsertLink
<1>6. ASSUME NEW h \in Handling, ResolveNumber(h) PROVE TelegramInv'
  <2>1. CASE link[ChatOf(h)] # Unlinked
    <3>1. PICK n \in Phone : n = link[ChatOf(h)]
      BY <1>0, <1>6, <1>b, <2>1 DEF ResolveNumber, TelegramTypeOK, Handles
    <3>2. PICK u \in Update : u = handling[h].u
      BY <1>6, <1>b DEF ResolveNumber, Handles
    <3>3. PICK r : r = [step |-> "resolved", u |-> u, number |-> n]
      OBVIOUS
    <3>4. r \in HandlingStates /\ r.step = "resolved" /\ r.u = u /\ r.number = n
      BY <3>3 DEF HandlingStates
    <3>5. handling' = [handling EXCEPT ![h] = r] /\ UNCHANGED <<link, update, command, left>>
      BY <1>6, <2>1, <3>1, <3>2, <3>3 DEF ResolveNumber
    <3>6. handling' \in [Handling -> HandlingStates] /\ handling'[h] = r /\ \A g \in Handling \ {h} : handling'[g] = handling[g]
      BY <1>0, <3>4, <3>5 DEF TelegramTypeOK
    <3>7. update[u] # Unsent /\ Had(u, n)
      BY <1>0, <1>6, <3>1, <3>2 DEF ResolveNumber, HandlingKnows, Handles, Had, ChatOf
    <3> QED BY <1>0, <3>4, <3>5, <3>6, <3>7, RequestsStep DEF TelegramTypeOK, LinkedOnce
  <2> QED BY <1>3, <1>6, <2>1 DEF ResolveNumber
<1>7. ASSUME NEW h \in Handling, EnqueueCommand(h) PROVE TelegramInv'
  <2>1. PICK u \in Update, n \in Phone : u = handling[h].u /\ n = handling[h].number /\ update[u] # Unsent /\ Had(u, n)
    <3>1. handling[h] \in [step : {"resolved"}, u : Update, number : Phone]
      BY <1>0, <1>7 DEF EnqueueCommand, Handles, TelegramTypeOK, HandlingStates
    <3> QED BY <1>0, <1>7, <3>1 DEF EnqueueCommand, Handles, HandlingKnows
  <2>2. CASE command[u] = NoCommand
    <3>1. PICK r : r = [step |-> "queued", number |-> n]
      OBVIOUS
    <3>2. r.number = n /\ "to" \notin DOMAIN r /\ r \in CommandStates \ {NoCommand}
      BY <3>1 DEF CommandStates, NoCommand
    <3>3. command' = [command EXCEPT ![u] = r]
      BY <1>7, <2>1, <2>2, <3>1 DEF EnqueueCommand
    <3> QED BY <1>7, <1>c, <2>1, <3>2, <3>3, CommandStep DEF EnqueueCommand
  <2>3. CASE command[u] # NoCommand
    <3>1. UNCHANGED command
      BY <1>0, <1>7, <2>1, <2>3 DEF EnqueueCommand, TelegramTypeOK
    <3> QED BY <1>3, <1>7, <3>1 DEF EnqueueCommand
  <2> QED BY <2>2, <2>3
<1>8. ASSUME NEW u \in Update, FindChat(u) PROVE TelegramInv'
  <2>0. command[u] \in [step : {"queued"}, number : Phone] /\ command[u] # NoCommand
        /\ UNCHANGED <<link, update, handling, left>>
    BY <1>0, <1>8 DEF FindChat, NoCommand, TelegramTypeOK, CommandStates
  <2>1. PICK n \in Phone : n = command[u].number /\ update[u] # Unsent /\ Had(u, n) /\ update[u].chat \in Chat
    BY <1>0, <2>0 DEF TelegramTypeOK, CommandKnows
  <2>2. CASE Holders(n) # {}
    <3>1. PICK c \in Holders(n) : c = CHOOSE d \in Holders(n) : TRUE
      BY <2>2
    <3>2. c = update[u].chat \/ <<update[u].chat, n>> \in left
      BY <1>0, <2>1, <3>1, TelegramAssumption DEF Had, Holders, LinkedOnce, Unlinked
    <3>3. PICK r : r = [step |-> "posting", number |-> n, tries |-> 0, to |-> c]
      OBVIOUS
    <3>4. r.number = n /\ r.to = c /\ r \in CommandStates \ {NoCommand}
      BY <3>1, <3>3 DEF CommandStates, NoCommand, Holders
    <3>5. command' = [command EXCEPT ![u] = r]
      BY <1>8, <2>1, <2>2, <3>1, <3>3 DEF FindChat
    <3> QED BY <1>0, <1>8, <2>1, <3>2, <3>4, <3>5, CommandStep DEF FindChat, TelegramTypeOK
  <2>3. CASE Holders(n) = {}
    <3>1. PICK r : r = [step |-> "undeliverable", number |-> n]
      OBVIOUS
    <3>2. r = [command[u] EXCEPT !.step = "undeliverable"]
      BY <2>0, <2>1, <3>1
    <3>3. command' = [command EXCEPT ![u] = r]
      BY <1>8, <2>1, <2>3, <3>2 DEF FindChat
    <3>4. r.number = n /\ "to" \notin DOMAIN r /\ r \in CommandStates \ {NoCommand}
      BY <3>1 DEF CommandStates, NoCommand
    <3> QED BY <1>0, <2>0, <2>1, <3>3, <3>4, CommandStep DEF TelegramTypeOK
  <2> QED BY <2>2, <2>3
<1>9. ASSUME NEW u \in Update, NEW outcome \in {"accepted", "transient_failure", "permanent_failure", "unknown"},
             PostToChat(u, outcome)
      PROVE  TelegramInv'
  <2>0. command[u] \in [step : {"posting"}, number : Phone, tries : Nat, to : Chat]
        /\ command[u] # NoCommand /\ UNCHANGED <<link, update, handling, left>>
    BY <1>0, <1>9 DEF PostToChat, NoCommand, TelegramTypeOK, CommandStates
  <2>1. PICK n \in Phone, c \in Chat, t \in Nat :
          n = command[u].number /\ c = command[u].to /\ t = command[u].tries /\ update[u] # Unsent /\ Had(u, n)
          /\ (c # update[u].chat => <<update[u].chat, n>> \in left)
    BY <1>0, <2>0 DEF TelegramTypeOK, CommandKnows
  <2>2. PICK r : /\ \/ r = [step |-> outcome, number |-> n, tries |-> t, to |-> c]
                    \/ r = [step |-> "posting", number |-> n, tries |-> t + 1, to |-> c]
                 /\ command' = [command EXCEPT ![u] = r]
    <3>1. [command[u] EXCEPT !.step = outcome] = [step |-> outcome, number |-> n, tries |-> t, to |-> c]
      BY <2>0, <2>1
    <3>2. [command[u] EXCEPT !.tries = @ + 1] = [step |-> "posting", number |-> n, tries |-> t + 1, to |-> c]
      BY <2>0, <2>1
    <3> QED BY <1>9, <3>1, <3>2 DEF PostToChat
  <2>3. r.number = n /\ r.to = c /\ r \in CommandStates \ {NoCommand}
    BY <2>1, <2>2 DEF CommandStates, NoCommand
  <2> QED BY <1>0, <2>0, <2>1, <2>2, <2>3, CommandStep DEF TelegramTypeOK
<1>10. CASE UNCHANGED telegramVars
  BY <1>0, <1>10, RequestsStep DEF telegramVars, TelegramTypeOK, LinkedOnce
<1> QED BY <1>1, <1>2, <1>3, <1>4, <1>5, <1>6, <1>7, <1>8, <1>9, <1>10
  DEF TelegramNext, IgnoreUpdate, RefuseUpdate

\* Two chats never share a number, and the answer to a command is posted to the
\* chat it came from, unless that chat has given the number up.
THEOREM SpecAnswersGoHome == TelegramSpec => []AnswersGoHome
<1>1. TelegramInit => TelegramInv
  BY TelegramAssumption
  DEF TelegramInit, TelegramInv, TelegramTypeOK, LinkedOnce, HandlingKnows, CommandKnows, HandlingStates, AtRest, Handles,
      CommandStates, NoCommand
<1>2. TelegramInv => AnswersGoHome
  <2> SUFFICES ASSUME TelegramInv, NEW u \in Update, "to" \in DOMAIN command[u], command[u].to # update[u].chat
               PROVE  <<update[u].chat, command[u].number>> \in left
    BY DEF TelegramInv, LinkedOnce, AnswersGoHome
  <2>1. command[u] # NoCommand
    BY DEF NoCommand
  <2> QED BY <2>1 DEF TelegramInv, CommandKnows
<1> QED BY <1>1, <1>2, NextTelegramInv, PTL DEF TelegramSpec

-----------------------------------------------------------------------------
(* Phone numbers *)

\* What is known of spellings; the proofs use nothing else of them.
LEMMA Spellings ==
  /\ \A n \in StoredNumbers : /\ Canonical(n) \in StoredNumbers /\ Canonical(Canonical(n)) = Canonical(n)
                              /\ Valid(n) <=> Valid(Canonical(n))
  /\ Absent \in StoredNumbers /\ ~ Valid(Absent) /\ Canonical(Absent) = Absent
  /\ \A p \in Person : /\ Spelled(p, "canonical") \in StoredNumbers /\ Valid(Spelled(p, "canonical"))
                       /\ Canonical(Spelled(p, "canonical")) = Spelled(p, "canonical")
                       /\ Spelled(p, "local") \in StoredNumbers
<1>1. ASSUME NEW p, NEW form PROVE Canonical(Spelled(p, form)) = Spelled(p, "canonical")
  BY DEF Canonical, Spelled
<1>2. ASSUME NEW p \in Person, NEW form \in {"canonical", "local"} PROVE Valid(Spelled(p, form))
  <2>1. Spelled(p, form).person = p /\ Absent.person = "nobody" /\ Garbage.person = "nobody"
    BY DEF Spelled, Absent, Garbage
  <2> QED BY <2>1, MigrationAssumption DEF Valid
<1>3. ASSUME NEW p \in Person, NEW form \in {"canonical", "local"} PROVE Spelled(p, form) \in StoredNumbers
  BY DEF StoredNumbers, Spelled
<1>4. Absent \in StoredNumbers /\ Garbage \in StoredNumbers /\ ~ Valid(Absent) /\ ~ Valid(Garbage)
  BY DEF StoredNumbers, Valid
<1>5. Canonical(Absent) = Absent /\ Canonical(Garbage) = Absent
  BY <1>1 DEF Absent, Garbage
<1>6. ASSUME NEW n \in StoredNumbers
      PROVE  /\ Canonical(n) \in StoredNumbers /\ Canonical(Canonical(n)) = Canonical(n)
             /\ Valid(n) <=> Valid(Canonical(n))
  <2>1. CASE n \in {Absent, Garbage}
    BY <1>4, <1>5, <2>1
  <2>2. CASE n \notin {Absent, Garbage}
    <3>1. PICK p \in Person, form \in {"canonical", "local"} : n = Spelled(p, form)
      BY <2>2 DEF StoredNumbers, Spelled
    <3>2. Canonical(n) = Spelled(p, "canonical") /\ Canonical(Canonical(n)) = Spelled(p, "canonical")
      BY <1>1, <3>1
    <3> QED BY <1>2, <1>3, <3>1, <3>2
  <2> QED BY <2>1, <2>2
<1> QED BY <1>1, <1>2, <1>3, <1>4, <1>5, <1>6

\* A wallet the snapshot does not have, of a user it has.
Later(u) == u \in DOMAIN snapshot.users \ DOMAIN snapshot.wallets

\* A wallet has the number of its user, or the canonical spelling of it.
WalletsKnown ==
  \A u \in Customer :
    /\ walletNo[u] \in {Absent, number[u], Canonical(number[u])}
    /\ walletNo[u] # Absent => Valid(number[u])
    /\ walletNo[u] \notin {Absent, number[u]} => Later(u)

\* So will one that is being opened.
OpeningsKnown ==
  \A u \in Customer : opening[u] # Absent =>
    /\ walletNo[u] = Absent /\ Valid(number[u]) /\ opening[u] = Canonical(number[u])
    /\ opening[u] = number[u] \/ Later(u)

\* A snapshot has the numbers of users as they are or were, and of those of
\* their wallets that would change.
Saved(shot) ==
  /\ DOMAIN shot.users \subseteq Customer /\ DOMAIN shot.wallets \subseteq DOMAIN shot.users
  /\ \A u \in DOMAIN shot.users :
       /\ shot.users[u] \in StoredNumbers /\ Valid(shot.users[u])
       /\ number[u] \in {shot.users[u], Canonical(shot.users[u])}
  /\ \A u \in DOMAIN shot.wallets : walletNo[u] # Absent /\ shot.wallets[u] = shot.users[u]

\* What a script has read and is to write.
UpdatesKnown ==
  migration.step \in {"scanning", "applying"} =>
    /\ DOMAIN migration.updates \subseteq Customer
    /\ \A u \in DOMAIN migration.updates : Valid(number[u]) /\ migration.updates[u] = Canonical(number[u])
    /\ Outdated \subseteq Colliding \cup DOMAIN migration.updates
NotesKnown ==
  Migrating("applying") =>
    /\ migration = [step |-> "applying", updates |-> migration.updates, notes |-> migration.notes]
    /\ migration.notes = OutdatedNotes \ CollidingContacts
TakenKnown ==
  Migrating("moving") =>
    /\ Saved(migration.taken)
    /\ Outdated \subseteq DOMAIN migration.taken.users
    /\ \A u \in DOMAIN migration.taken.users : number[u] = migration.taken.users[u]
    /\ \A u \in DOMAIN migration.taken.users \ DOMAIN migration.taken.wallets :
         walletNo[u] \in {Absent, Canonical(number[u])}

NumbersOK ==
  /\ number \in [Customer -> StoredNumbers] /\ walletNo \in [Customer -> StoredNumbers]
  /\ opening \in [Customer -> StoredNumbers] /\ noteNo \in [Note -> StoredNumbers]

MigrationInv ==
  /\ NumbersOK /\ WalletsKnown /\ OpeningsKnown /\ Saved(snapshot)
  /\ UpdatesKnown /\ NotesKnown /\ TakenKnown /\ DoneIsCanonical /\ ContactsDistinct

\* The rows of the other tables as they are.
LEMMA NotesStand ==
  ASSUME UNCHANGED noteNo
  PROVE  /\ OutdatedNotes' = OutdatedNotes /\ CollidingContacts' = CollidingContacts
         /\ ContactsDistinct <=> ContactsDistinct'
BY DEF OutdatedNotes, CollidingContacts, ContactsDistinct

\* Numbers that are only spelled anew, or registered, make no old spelling and
\* resolve no collision.
LEMMA NumbersRespelled ==
  ASSUME \A u \in Customer : /\ Valid(number[u]) => Valid(number'[u]) /\ Canonical(number'[u]) = Canonical(number[u])
                             /\ number'[u] = number[u] \/ number'[u] = Canonical(number'[u])
  PROVE  Colliding \subseteq Colliding' /\ Outdated' \subseteq Outdated
BY DEF Colliding, Outdated

\* A step of the bot, on one user.
LEMMA BotStep ==
  ASSUME MigrationInv, NEW u \in Customer, UNCHANGED <<noteNo, migration, snapshot>>,
         number' \in [Customer -> StoredNumbers], walletNo' \in [Customer -> StoredNumbers],
         opening' \in [Customer -> StoredNumbers],
         \A v \in Customer \ {u} : number'[v] = number[v] /\ walletNo'[v] = walletNo[v] /\ opening'[v] = opening[v],
         number'[u] = number[u] \/ (~ Valid(number[u]) /\ number'[u] = Canonical(number'[u])),
         walletNo[u] # Absent => walletNo'[u] = walletNo[u],
         walletNo'[u] \in {walletNo[u], Canonical(number[u])},
         walletNo'[u] # Absent => Valid(number'[u]) /\ walletNo'[u] \in {number'[u], Canonical(number'[u])},
         walletNo'[u] \notin {Absent, number'[u]} => Later(u),
         opening'[u] # Absent =>
           /\ walletNo'[u] = Absent /\ Valid(number'[u]) /\ opening'[u] = Canonical(number'[u])
           /\ opening'[u] = number'[u] \/ Later(u)
  PROVE  MigrationInv'
<1>0. NumbersOK /\ WalletsKnown /\ OpeningsKnown /\ Saved(snapshot) /\ UpdatesKnown /\ NotesKnown /\ TakenKnown /\ DoneIsCanonical
    /\ ContactsDistinct
  BY DEF MigrationInv
<1>1. \A v \in Customer : Later(v)' <=> Later(v)
  BY DEF Later
<1>2. NumbersOK' /\ WalletsKnown' /\ OpeningsKnown'
  <2>1. NumbersOK'
    BY <1>0 DEF NumbersOK
  <2>2. WalletsKnown'
    BY <1>0, <1>1 DEF WalletsKnown
  <2>3. OpeningsKnown'
    BY <1>0, <1>1 DEF OpeningsKnown
  <2> QED BY <2>1, <2>2, <2>3
<1>3. Colliding \subseteq Colliding' /\ Outdated' \subseteq Outdated
  BY NumbersRespelled
<1>4. \A v \in Customer : Valid(number[v]) => number'[v] = number[v]
  OBVIOUS
<1>5. ASSUME NEW shot, Saved(shot), shot' = shot PROVE Saved(shot)'
  BY <1>0, <1>5, Spellings DEF Saved, NumbersOK
<1>6. Saved(snapshot)'
  BY <1>0, <1>5
<1>7. UpdatesKnown' /\ NotesKnown' /\ DoneIsCanonical' /\ ContactsDistinct'
  <2>1. UpdatesKnown'
    BY <1>0, <1>3, <1>4 DEF UpdatesKnown
  <2>2. NotesKnown'
    BY <1>0, NotesStand DEF NotesKnown, Migrating
  <2>3. DoneIsCanonical'
    BY <1>0, <1>3, NotesStand DEF DoneIsCanonical, Migrating
  <2> QED BY <1>0, <2>1, <2>2, <2>3, NotesStand
<1>8. TakenKnown'
  BY <1>0, <1>3, <1>4, <1>5, Spellings DEF TakenKnown, Migrating, NumbersOK, Saved
<1> QED BY <1>2, <1>6, <1>7, <1>8 DEF MigrationInv

\* The scripts and the bot, step by step.
LEMMA NextMigrationInv == MigrationInv /\ [MigrationNext]_migrationVars => MigrationInv'
<1> SUFFICES ASSUME MigrationInv, [MigrationNext]_migrationVars PROVE MigrationInv'
  OBVIOUS
<1>0. NumbersOK /\ WalletsKnown /\ OpeningsKnown /\ Saved(snapshot) /\ UpdatesKnown /\ NotesKnown /\ TakenKnown /\ DoneIsCanonical
    /\ ContactsDistinct
  BY DEF MigrationInv
<1>1. ASSUME NEW u \in Customer, NEW p \in Person, RegisterCustomer(u, p) PROVE MigrationInv'
  <2>1. PICK n \in StoredNumbers : n = Spelled(p, "canonical") /\ Valid(n) /\ Canonical(n) = n
    BY Spellings
  <2>2. /\ number' = [number EXCEPT ![u] = n] /\ number[u] = Absent
        /\ UNCHANGED <<walletNo, noteNo, opening, migration, snapshot>>
    BY <1>1, <2>1 DEF RegisterCustomer
  <2>3. number' \in [Customer -> StoredNumbers] /\ number'[u] = n /\ \A v \in Customer \ {u} : number'[v] = number[v]
    BY <1>0, <2>2 DEF NumbersOK
  <2>4. ~ Valid(number[u]) /\ walletNo[u] = Absent /\ opening[u] = Absent
    BY <1>0, <2>2, Spellings DEF WalletsKnown, OpeningsKnown
  <2> QED BY <1>0, <2>1, <2>2, <2>3, <2>4, BotStep DEF NumbersOK
<1>2. ASSUME NEW u \in Customer, ReadOwner(u) PROVE MigrationInv'
  <2>1. /\ opening' \in [Customer -> StoredNumbers] /\ opening'[u] = number[u]
        /\ \A v \in Customer \ {u} : opening'[v] = opening[v]
    BY <1>0, <1>2 DEF ReadOwner, NumbersOK
  <2>2. UNCHANGED <<number, walletNo, noteNo, migration, snapshot>> /\ walletNo[u] = Absent /\ Valid(number[u])
        /\ number[u] = Canonical(number[u])
    BY <1>2 DEF ReadOwner
  <2> QED BY <1>0, <2>1, <2>2, BotStep DEF NumbersOK
<1>3. ASSUME NEW u \in Customer, CopyNumber(u) PROVE MigrationInv'
  <2>1. /\ opening[u] # Absent /\ walletNo[u] = Absent /\ Valid(number[u]) /\ opening[u] = Canonical(number[u])
        /\ opening[u] = number[u] \/ Later(u)
    BY <1>0, <1>3 DEF CopyNumber, OpeningsKnown
  <2>2. /\ walletNo' \in [Customer -> StoredNumbers] /\ walletNo'[u] = opening[u]
        /\ opening' \in [Customer -> StoredNumbers] /\ opening'[u] = Absent
        /\ \A v \in Customer \ {u} : walletNo'[v] = walletNo[v] /\ opening'[v] = opening[v]
    BY <1>0, <1>3, Spellings DEF CopyNumber, NumbersOK
  <2>3. UNCHANGED <<number, noteNo, migration, snapshot>>
    BY <1>3 DEF CopyNumber
  <2> QED BY <1>0, <2>1, <2>2, <2>3, BotStep DEF NumbersOK
<1>4. ASSUME UNCHANGED <<number, walletNo, opening, snapshot>>
      PROVE  /\ (\A u \in Customer : Later(u)' <=> Later(u)) /\ WalletsKnown' /\ OpeningsKnown' /\ Saved(snapshot)'
             /\ Colliding' = Colliding /\ Outdated' = Outdated
             /\ UNCHANGED noteNo => NumbersOK' /\ ContactsDistinct'
  BY <1>0, <1>4, NotesStand DEF Later, WalletsKnown, OpeningsKnown, Saved, Colliding, Outdated, NumbersOK
<1>5. CASE ScanUsers
  <2>1. PICK f : f = [u \in Outdated \ Colliding |-> Canonical(number[u])]
    OBVIOUS
  <2>2. PICK r : r = [step |-> "scanning", updates |-> f]
    OBVIOUS
  <2>3. migration' = r /\ r.step = "scanning" /\ r.updates = f /\ UNCHANGED <<number, walletNo, noteNo, opening, snapshot>>
    BY <1>5, <2>1, <2>2 DEF ScanUsers
  <2>4. DOMAIN f = Outdated \ Colliding /\ \A u \in DOMAIN f : u \in Customer /\ Valid(number[u]) /\ f[u] = Canonical(number[u])
    BY <2>1 DEF Outdated
  <2>5. UpdatesKnown'
    BY <1>4, <2>3, <2>4 DEF UpdatesKnown
  <2> QED BY <1>4, <2>3, <2>5 DEF MigrationInv, NotesKnown, TakenKnown, DoneIsCanonical, Migrating
<1>6. CASE ScanNotes
  <2>1. PICK f, s : f = migration.updates /\ s = OutdatedNotes \ CollidingContacts
    OBVIOUS
  <2>2. PICK r : r = [step |-> "applying", updates |-> f, notes |-> s]
    OBVIOUS
  <2>3. r.step = "applying" /\ r.updates = f /\ r.notes = s
    BY <2>2
  <2>4. migration' = r /\ migration.step = "scanning" /\ UNCHANGED <<number, walletNo, noteNo, opening, snapshot>>
    BY <1>6, <2>1, <2>2 DEF ScanNotes, Migrating
  <2>5. UpdatesKnown'
    BY <1>0, <1>4, <2>1, <2>3, <2>4 DEF UpdatesKnown
  <2>6. NotesKnown'
    BY <2>1, <2>2, <2>3, <2>4, NotesStand DEF NotesKnown
  <2> QED BY <1>4, <2>3, <2>4, <2>5, <2>6 DEF MigrationInv, TakenKnown, DoneIsCanonical, Migrating
<1>7. ASSUME UNCHANGED <<number, walletNo, noteNo, opening, snapshot>>, migration' \in {NoMigration, [step |-> "failed"]}
      PROVE  MigrationInv'
  <2>1. migration'.step \in {"none", "failed"}
    BY <1>7 DEF NoMigration
  <2> QED BY <1>4, <1>7, <2>1 DEF MigrationInv, UpdatesKnown, NotesKnown, TakenKnown, DoneIsCanonical, Migrating
<1>8. ASSUME NEW u \in Customer, ApplyToUser(u) PROVE MigrationInv'
  <2>1. CASE ~ NumberFree(u, migration.updates[u])
    BY <1>7, <1>8, <2>1 DEF ApplyToUser
  <2>2. CASE NumberFree(u, migration.updates[u])
    <3>1. /\ migration.step = "applying" /\ u \in DOMAIN migration.updates
          /\ Valid(number[u]) /\ migration.updates[u] = Canonical(number[u])
          /\ UNCHANGED <<noteNo, opening, snapshot>>
      BY <1>0, <1>8 DEF ApplyToUser, UpdatesKnown, Migrating
    <3>2. PICK n \in StoredNumbers : n = Canonical(number[u]) /\ Canonical(n) = n /\ Valid(n)
      BY <1>0, <3>1, Spellings DEF NumbersOK
    <3>3. PICK w \in {Absent, n} : w = (IF walletNo[u] = Absent THEN walletNo[u] ELSE n)
      OBVIOUS
    <3>4. number' = [number EXCEPT ![u] = n] /\ walletNo' = [walletNo EXCEPT ![u] = w]
      BY <1>8, <2>2, <3>1, <3>2, <3>3 DEF ApplyToUser
    <3>5. /\ number' \in [Customer -> StoredNumbers] /\ number'[u] = n /\ (\A v \in Customer \ {u} : number'[v] = number[v])
          /\ walletNo' \in [Customer -> StoredNumbers] /\ walletNo'[u] = w
          /\ \A v \in Customer \ {u} : walletNo'[v] = walletNo[v]
      BY <1>0, <3>3, <3>4, Spellings DEF NumbersOK
    <3>6. PICK f, s : f = migration.updates /\ s = migration.notes
      OBVIOUS
    <3>7. PICK g : g = [v \in DOMAIN f \ {u} |-> f[v]]
      OBVIOUS
    <3>8. PICK r : r = [step |-> "applying", updates |-> g, notes |-> s]
      OBVIOUS
    <3>9. r.step = "applying" /\ r.updates = g /\ r.notes = s
      BY <3>8
    <3>10. migration' = r
      <4>1. migration = [step |-> "applying", updates |-> f, notes |-> s]
        BY <1>0, <3>1, <3>6 DEF NotesKnown, Migrating
      <4>2. migration' = [migration EXCEPT !.updates = g]
        BY <1>8, <2>2, <3>6, <3>7 DEF ApplyToUser
      <4> QED BY <3>8, <4>1, <4>2
    <3>11. Colliding \subseteq Colliding' /\ Outdated' \subseteq Outdated /\ u \notin Outdated'
      <4>1. Colliding \subseteq Colliding' /\ Outdated' \subseteq Outdated
        BY <3>1, <3>2, <3>5, NumbersRespelled
      <4> QED BY <3>2, <3>5, <4>1 DEF Outdated
    <3>12. UpdatesKnown'
      <4>1. DOMAIN g = DOMAIN f \ {u} /\ \A v \in DOMAIN g : g[v] = f[v]
        BY <3>7
      <4> QED BY <1>0, <3>1, <3>5, <3>6, <3>9, <3>10, <3>11, <4>1 DEF UpdatesKnown
    <3>13. NotesKnown'
      BY <1>0, <3>1, <3>6, <3>8, <3>9, <3>10, NotesStand DEF NotesKnown, Migrating
    <3>14. NumbersOK'
      BY <1>0, <3>1, <3>5 DEF NumbersOK
    <3>15. \A v \in Customer : Later(v)' <=> Later(v)
      BY <3>1 DEF Later
    <3>16. WalletsKnown'
      BY <1>0, <3>2, <3>3, <3>5, <3>15 DEF WalletsKnown
    <3>17. OpeningsKnown'
      BY <1>0, <3>1, <3>2, <3>3, <3>5, <3>15 DEF OpeningsKnown
    <3>18. Saved(snapshot)'
      BY <1>0, <3>1, <3>2, <3>3, <3>5, Spellings DEF Saved
    <3> QED BY <1>0, <3>1, <3>9, <3>10, <3>12, <3>13, <3>14, <3>16, <3>17, <3>18, NotesStand
        DEF MigrationInv, TakenKnown, DoneIsCanonical, Migrating
  <2> QED BY <2>1, <2>2
<1>9. CASE ApplyToNotes
  <2>1. PICK r : r = [step |-> "done"]
    OBVIOUS
  <2>2. /\ migration' = r /\ r.step = "done" /\ migration.step = "applying" /\ DOMAIN migration.updates = {}
        /\ UNCHANGED <<number, walletNo, opening, snapshot>>
    BY <1>9, <2>1 DEF ApplyToNotes, Migrating
  <2>3. \A n \in Note : noteNo'[n] = IF n \in migration.notes THEN Canonical(noteNo[n]) ELSE noteNo[n]
    BY <1>9 DEF ApplyToNotes
  <2>4. ASSUME NEW n \in Note
        PROVE  /\ noteNo'[n] \in StoredNumbers /\ Canonical(noteNo'[n]) = Canonical(noteNo[n])
               /\ Valid(noteNo'[n]) <=> Valid(noteNo[n])
               /\ noteNo'[n] = IF n \in OutdatedNotes \ CollidingContacts THEN Canonical(noteNo[n]) ELSE noteNo[n]
    BY <1>0, <2>2, <2>3, Spellings DEF NotesKnown, NumbersOK, Migrating
  <2>5. NumbersOK'
    BY <1>0, <1>9, <2>2, <2>4 DEF NumbersOK, ApplyToNotes
  <2>6. OutdatedNotes' \subseteq CollidingContacts'
    <3>1. CollidingContacts' = CollidingContacts
      BY <2>4, MigrationAssumption DEF CollidingContacts
    <3> QED BY <2>4, <3>1 DEF OutdatedNotes
  <2>7. DoneIsCanonical'
    BY <1>0, <1>4, <2>2, <2>6 DEF DoneIsCanonical, UpdatesKnown
  <2>8. ContactsDistinct'
    <3> SUFFICES ASSUME NEW c \in Contact, NEW d \in Contact, Valid(noteNo'[c]), noteNo'[c] = noteNo'[d], c # d
                 PROVE  FALSE
      BY DEF ContactsDistinct
    <3>1. /\ c \in Note /\ d \in Note /\ Valid(noteNo[c]) /\ Valid(noteNo[d])
          /\ Canonical(noteNo[c]) = Canonical(noteNo[d])
      BY <2>4, MigrationAssumption
    <3>2. c \in CollidingContacts /\ d \in CollidingContacts
      BY <3>1 DEF CollidingContacts
    <3> QED BY <1>0, <2>4, <3>1, <3>2 DEF ContactsDistinct
  <2> QED BY <1>4, <2>2, <2>5, <2>7, <2>8 DEF MigrationInv, UpdatesKnown, NotesKnown, TakenKnown, Migrating
<1>10. CASE ScanIdentities
  <2>1. PICK us, ws : /\ us = [u \in Outdated |-> number[u]]
                      /\ ws = [u \in {v \in Outdated : walletNo[v] \notin {Absent, Canonical(number[v])}} |-> walletNo[u]]
    OBVIOUS
  <2>2. PICK shot : shot = [users |-> us, wallets |-> ws]
    OBVIOUS
  <2>3. shot.users = us /\ shot.wallets = ws
    BY <2>2
  <2>4. CASE migration' = [step |-> "moving", taken |-> shot]
    <3>1. migration'.step = "moving" /\ migration'.taken = shot
      BY <2>4
    <3>2. UNCHANGED <<number, walletNo, noteNo, opening, snapshot>>
      BY <1>10 DEF ScanIdentities
    <3>3. /\ DOMAIN us = Outdated /\ (\A u \in Outdated : us[u] = number[u])
          /\ DOMAIN ws = {v \in Outdated : walletNo[v] \notin {Absent, Canonical(number[v])}}
          /\ \A u \in DOMAIN ws : ws[u] = walletNo[u]
      BY <2>1
    <3>4. \A u \in DOMAIN ws : ws[u] = number[u] /\ walletNo[u] # Absent
      BY <1>0, <3>3 DEF WalletsKnown, Outdated
    <3>5. \A u \in Outdated : u \in Customer /\ number[u] \in StoredNumbers /\ Valid(number[u])
      BY <1>0 DEF Outdated, NumbersOK
    <3>6. Saved(shot)
      BY <2>3, <3>3, <3>4, <3>5 DEF Saved
    <3>7. \A u \in DOMAIN us \ DOMAIN ws : walletNo[u] \in {Absent, Canonical(number[u])}
      BY <3>3
    <3>8. TakenKnown'
      BY <1>4, <2>3, <3>1, <3>2, <3>3, <3>6, <3>7 DEF TakenKnown, Saved
    <3> QED BY <1>4, <3>1, <3>2, <3>8 DEF MigrationInv, UpdatesKnown, NotesKnown, DoneIsCanonical, Migrating
  <2>5. CASE migration' = [step |-> "failed"]
    BY <1>7, <1>10, <2>5 DEF ScanIdentities
  <2> QED BY <1>10, <2>1, <2>2, <2>4, <2>5 DEF ScanIdentities
<1>11. CASE MoveIdentities
  <2>1. PICK shot : shot = migration.taken
    OBVIOUS
  <2>2. CASE ~ \A u \in DOMAIN shot.users : NumberFree(u, Canonical(shot.users[u]))
    BY <1>7, <1>11, <2>1, <2>2 DEF MoveIdentities
  <2>3. CASE \A u \in DOMAIN shot.users : NumberFree(u, Canonical(shot.users[u]))
    <3>1. /\ migration' = NoMigration /\ snapshot' = shot /\ UNCHANGED <<noteNo, opening>>
          /\ number' = [u \in Customer |-> IF u \in DOMAIN shot.users THEN Canonical(shot.users[u]) ELSE number[u]]
          /\ walletNo' = [u \in Customer |-> IF u \in DOMAIN shot.wallets THEN Canonical(shot.users[u]) ELSE walletNo[u]]
      BY <1>11, <2>1, <2>3 DEF MoveIdentities
    <3>2. /\ Saved(shot) /\ Outdated \subseteq DOMAIN shot.users
          /\ \A u \in DOMAIN shot.users : number[u] = shot.users[u]
          /\ \A u \in DOMAIN shot.users \ DOMAIN shot.wallets : walletNo[u] \in {Absent, Canonical(number[u])}
      BY <1>0, <1>11, <2>1 DEF MoveIdentities, TakenKnown
    <3>3. ASSUME NEW u \in Customer
          PROVE  /\ number'[u] \in StoredNumbers /\ number'[u] = (IF u \in DOMAIN shot.users THEN Canonical(number[u]) ELSE number[u])
                 /\ Valid(number[u]) <=> Valid(number'[u])
                 /\ Canonical(number'[u]) = Canonical(number[u])
                 /\ Valid(number[u]) => number'[u] = Canonical(number[u])
                 /\ walletNo'[u] \in {Absent, number'[u]} /\ (walletNo'[u] = Absent <=> walletNo[u] = Absent)
      <4>1. CASE u \in DOMAIN shot.users
        <5>1. number[u] \in StoredNumbers /\ number[u] = shot.users[u] /\ number'[u] = Canonical(number[u]) /\ Valid(number[u])
          BY <1>0, <3>1, <3>2, <4>1 DEF NumbersOK, Saved
        <5>2. Valid(Canonical(number[u])) /\ Canonical(number[u]) # Absent /\ Canonical(Canonical(number[u])) = Canonical(number[u])
              /\ Canonical(number[u]) \in StoredNumbers
          BY <5>1, Spellings
        <5>3. CASE u \in DOMAIN shot.wallets
          BY <3>1, <3>2, <4>1, <5>1, <5>2, <5>3 DEF Saved
        <5>4. CASE u \notin DOMAIN shot.wallets
          BY <3>1, <3>2, <4>1, <5>1, <5>2, <5>4
        <5> QED BY <4>1, <5>1, <5>2, <5>3, <5>4
      <4>2. CASE u \notin DOMAIN shot.users
        <5>1. number'[u] = number[u] /\ walletNo'[u] = walletNo[u]
          BY <3>1, <3>2, <4>2 DEF Saved
        <5>2. Valid(number[u]) => number[u] = Canonical(number[u])
          BY <3>2, <4>2 DEF Outdated
        <5> QED BY <1>0, <4>2, <5>1, <5>2 DEF NumbersOK, WalletsKnown
      <4> QED BY <4>1, <4>2
    <3>4. NumbersOK'
      <4>1. \A u \in Customer : walletNo'[u] \in StoredNumbers
        BY <3>3, Spellings
      <4> QED BY <1>0, <3>1, <3>3, <4>1 DEF NumbersOK
    <3>5. WalletsKnown'
      BY <1>0, <3>3 DEF WalletsKnown
    <3>6. OpeningsKnown'
      BY <1>0, <3>1, <3>3 DEF OpeningsKnown
    <3>7. Saved(snapshot)'
      <4>1. \A u \in DOMAIN shot.users : u \in Customer /\ number'[u] = Canonical(shot.users[u])
        BY <3>1, <3>2 DEF Saved
      <4>2. \A u \in DOMAIN shot.wallets : walletNo'[u] # Absent
        BY <3>2, <3>3 DEF Saved
      <4> QED BY <3>1, <3>2, <4>1, <4>2 DEF Saved
    <3>8. migration'.step = "none"
      BY <3>1 DEF NoMigration
    <3>9. ContactsDistinct'
      BY <1>0, <3>1, NotesStand
    <3> QED BY <3>4, <3>5, <3>6, <3>7, <3>8, <3>9 DEF MigrationInv, UpdatesKnown, NotesKnown, TakenKnown, DoneIsCanonical, Migrating
  <2> QED BY <2>2, <2>3
<1>12. CASE RollBackIdentities
  <2>1. PICK shot : shot = snapshot
    OBVIOUS
  <2>2. /\ migration' = NoMigration /\ snapshot' = shot /\ UNCHANGED <<noteNo, opening>>
        /\ number' = [u \in Customer |-> IF u \in DOMAIN shot.users THEN shot.users[u] ELSE number[u]]
        /\ walletNo' = [u \in Customer |-> IF u \in DOMAIN shot.wallets THEN shot.wallets[u] ELSE walletNo[u]]
    BY <1>12, <2>1 DEF RollBackIdentities
  <2>3. Saved(shot)
    BY <1>0, <2>1
  <2>4. ASSUME NEW u \in DOMAIN shot.users
        PROVE  /\ u \in Customer /\ number'[u] = shot.users[u] /\ shot.users[u] \in StoredNumbers /\ Valid(shot.users[u])
               /\ Canonical(number[u]) = Canonical(shot.users[u]) /\ number[u] \in {shot.users[u], Canonical(shot.users[u])}
               /\ Canonical(shot.users[u]) # Absent
    <3>1. u \in Customer /\ shot.users[u] \in StoredNumbers /\ Valid(shot.users[u])
          /\ number[u] \in {shot.users[u], Canonical(shot.users[u])}
      BY <2>3 DEF Saved
    <3>2. Canonical(Canonical(shot.users[u])) = Canonical(shot.users[u]) /\ Canonical(shot.users[u]) # Absent
      BY <3>1, Spellings
    <3> QED BY <2>2, <3>1, <3>2
  <2>5. \A u \in DOMAIN shot.wallets : walletNo'[u] = number'[u] /\ u \in DOMAIN shot.users /\ walletNo[u] # Absent
    BY <2>2, <2>3, <2>4 DEF Saved
  <2>6. \A u \in Customer \ DOMAIN shot.wallets : walletNo'[u] = walletNo[u]
    BY <2>2
  <2>7. \A u \in Customer \ DOMAIN shot.users : number'[u] = number[u] /\ walletNo'[u] = walletNo[u]
    BY <2>2, <2>3 DEF Saved
  <2>8. \A u \in Customer : (Later(u) <=> u \in DOMAIN shot.users \ DOMAIN shot.wallets) /\ (Later(u)' <=> Later(u))
    BY <2>1, <2>2 DEF Later
  <2>9. NumbersOK'
    <3>1. \A u \in Customer : number'[u] \in StoredNumbers /\ walletNo'[u] \in StoredNumbers
      BY <1>0, <2>4, <2>5, <2>6, <2>7 DEF NumbersOK
    <3> QED BY <1>0, <2>2, <3>1 DEF NumbersOK
  <2>10. WalletsKnown'
    <3>1. ASSUME NEW u \in Customer
          PROVE  /\ walletNo'[u] \in {Absent, number'[u], Canonical(number'[u])}
                 /\ walletNo'[u] # Absent => Valid(number'[u])
                 /\ walletNo'[u] \notin {Absent, number'[u]} => u \in DOMAIN shot.users \ DOMAIN shot.wallets
      <4>1. CASE u \in DOMAIN shot.wallets
        BY <2>4, <2>5, <4>1
      <4>2. CASE u \in DOMAIN shot.users \ DOMAIN shot.wallets
        BY <1>0, <2>4, <2>6, <4>2 DEF WalletsKnown
      <4>3. CASE u \notin DOMAIN shot.users
        BY <1>0, <2>5, <2>7, <2>8, <4>3 DEF WalletsKnown
      <4> QED BY <4>1, <4>2, <4>3
    <3> QED BY <2>8, <3>1 DEF WalletsKnown
  <2>11. OpeningsKnown'
    <3>1. ASSUME NEW u \in Customer, opening[u] # Absent
          PROVE  /\ walletNo'[u] = Absent /\ Valid(number'[u]) /\ opening[u] = Canonical(number'[u])
                 /\ opening[u] = number'[u] \/ u \in DOMAIN shot.users \ DOMAIN shot.wallets
      <4>1. u \notin DOMAIN shot.wallets /\ walletNo'[u] = Absent
        BY <1>0, <2>5, <2>6, <3>1 DEF OpeningsKnown
      <4>2. CASE u \in DOMAIN shot.users
        BY <1>0, <2>4, <3>1, <4>1, <4>2 DEF OpeningsKnown
      <4>3. CASE u \notin DOMAIN shot.users
        BY <1>0, <2>7, <2>8, <3>1, <4>1, <4>3 DEF OpeningsKnown
      <4> QED BY <4>2, <4>3
    <3> QED BY <2>2, <2>8, <3>1 DEF OpeningsKnown
  <2>12. Saved(snapshot)'
    BY <2>2, <2>3, <2>4, <2>5, Spellings DEF Saved
  <2>13. migration'.step = "none"
    BY <2>2 DEF NoMigration
  <2>14. ContactsDistinct'
    BY <1>0, <2>2, NotesStand
  <2> QED BY <2>9, <2>10, <2>11, <2>12, <2>13, <2>14 DEF MigrationInv, UpdatesKnown, NotesKnown, TakenKnown, DoneIsCanonical, Migrating
<1>13. CASE UNCHANGED migrationVars
  <2>1. UNCHANGED <<number, walletNo, noteNo, opening, snapshot, migration>>
    BY <1>13 DEF migrationVars
  <2> QED BY <1>0, <1>4, <2>1, NotesStand DEF MigrationInv, UpdatesKnown, NotesKnown, TakenKnown, Saved, DoneIsCanonical, Migrating
<1> QED BY <1>1, <1>2, <1>3, <1>5, <1>6, <1>7, <1>8, <1>9, <1>10, <1>11, <1>12, <1>13 DEF MigrationNext, MigrationDies

\* Through any runs of the scripts, killed or rolled back, and with any
\* registrations between, a wallet goes by its owner's number, and a run that
\* reports no failure leaves no old spelling but of those to be reviewed.
THEOREM SpecNumbersMigrated == MigrationSpec => []NumbersMigrated
<1>1. MigrationInit => MigrationInv
  <2> SUFFICES ASSUME MigrationInit PROVE MigrationInv
    OBVIOUS
  <2>1. PICK having \in SUBSET {u \in Customer : Valid(number[u])} :
          walletNo = [u \in Customer |-> IF u \in having THEN number[u] ELSE Absent]
    BY DEF MigrationInit
  <2>2. NumbersOK
    BY <2>1, Spellings DEF MigrationInit, NumbersOK
  <2>3. WalletsKnown /\ OpeningsKnown
    BY <2>1 DEF MigrationInit, WalletsKnown, OpeningsKnown
  <2>4. DOMAIN snapshot.users = {} /\ DOMAIN snapshot.wallets = {} /\ migration.step = "none"
    BY DEF MigrationInit, NoSnapshot, NoMigration
  <2>5. Saved(snapshot)
    BY <2>4 DEF Saved
  <2>6. ContactsDistinct
    BY DEF MigrationInit, ContactsDistinct
  <2> QED BY <2>2, <2>3, <2>4, <2>5, <2>6 DEF MigrationInv, UpdatesKnown, NotesKnown, TakenKnown, DoneIsCanonical, Migrating
<1>2. MigrationInv => NumbersMigrated
  BY DEF MigrationInv, WalletsKnown, Later, NumbersMigrated, WalletFollows
<1> QED BY <1>1, <1>2, NextMigrationInv, PTL DEF MigrationSpec

-----------------------------------------------------------------------------
(* The webhook and the queue: the webhook leaves the queue's own guarantees as
   they are, and a row never says 'queued' of a message that was lost. *)

\* A request that added the job, and a run, know that the job exists.
HandlersKnow == \A h \in Handler : HandlerAt(h, "added") => job[handler[h].m].state # "none"
RunsHaveJob == \A w \in Worker : run[w] # Idle => job[run[w].m].state # "none"

InbInv == IInv /\ TypeOK /\ HandlersKnow /\ RunsHaveJob /\ QueuedHasJob

\* Seen from the queue, a webhook request adds a job or does nothing.
LEMMA NextIsOrdNext == TypeOK /\ [Next]_vars => [OrdNext]_ordVars
<1> SUFFICES ASSUME TypeOK, [Next]_vars PROVE [OrdNext]_ordVars
  OBVIOUS
<1>1. ASSUME NEW h \in Handler, Serve(h) PROVE [OrdNext]_ordVars
  <2>1. CASE Enqueue(h) \/ EnqueueThrows(h)
    <3>1. handler[h].m \in Message
      BY <2>1 DEF TypeOK, Enqueue, EnqueueThrows, HandlerAt, Idle
    <3>2. Arrive(handler[h].m) \/ UNCHANGED ordVars
      BY <2>1 DEF Enqueue, EnqueueThrows, Arrive, ordVars
    <3> QED BY <3>1, <3>2 DEF OrdNext
  <2>2. CASE UNCHANGED ordVars
    BY <2>2
  <2> QED BY <1>1, <2>1, <2>2
    DEF Serve, CreateClaim, ReadClaim, Reclaim, Drop, Break, RecordFailed, MarkQueued
<1>2. ASSUME NEW w \in Worker, Work(w) PROVE OrdNext
  BY <1>2 DEF Work, BeginProcessing, EndProcessing, OrdNext, Advance
<1>3. CASE UNCHANGED ordVars
  BY <1>3
<1> QED BY <1>1, <1>2, <1>3 DEF Next, vars, OrdNext, Deliver, HandlerCrash

LEMMA InitInbInv == Init => InbInv
BY InitIInv
DEF Init, InbInv, TypeOK, IInv, HandlersKnow, RunsHaveJob, QueuedHasJob, OrdInit, Idle,
    ClaimStates, HandlerSteps, HandlerAt

\* A job that exists does not vanish.
LEMMA JobsStay ==
  ASSUME IInv, [OrdNext]_ordVars, NEW m \in Message, job[m].state # "none"
  PROVE  job'[m].state # "none"
<1> USE DEF IInv, OrdTypeOK
<1>1. ASSUME NEW n \in Message, Arrive(n) PROVE job'[m].state # "none"
  BY <1>1 DEF Arrive, AddJob
<1>2. ASSUME NEW w \in Worker, NEW n \in Message, Take(w, n) PROVE job'[m].state # "none"
  BY <1>2 DEF Take
<1>3. ASSUME NEW w \in Worker, SkipStale(w) \/ Requeue(w) \/ Finish(w) PROVE job'[m].state # "none"
  BY <1>3 DEF SkipStale, Requeue, Finish, Report
<1>4. ASSUME NEW w \in Worker, Fail(w) PROVE job'[m].state # "none"
  BY <1>4 DEF Fail
<1>5. ASSUME NEW w \in Worker, Crash(w) \/ Stall(w) PROVE job'[m].state # "none"
  <2>1. run[w].m \in Message
    BY <1>5, RunType DEF Crash, Stall
  <2> QED BY <1>5, <2>1 DEF Crash, Stall, TakeBack
<1>6. CASE UNCHANGED job
  BY <1>6
<1> QED BY <1>1, <1>2, <1>3, <1>4, <1>5, <1>6
  DEF OrdNext, ordVars, Advance, Process, ReadCursor, Acquire, MarkProcessing, HandlerReturns,
      HandlerThrows, MarkCompleted, AdvanceCursor, LockExpires

\* A run works on a job that was in the queue.
LEMMA StepRuns ==
  ASSUME InbInv, [OrdNext]_ordVars
  PROVE  RunsHaveJob'
<1> SUFFICES ASSUME NEW v \in Worker, run'[v] # Idle
             PROVE  job'[run'[v].m].state # "none"
  BY DEF RunsHaveJob
<1> USE DEF InbInv, IInv, OrdTypeOK, Goto, Stop
<1>1. ASSUME NEW n \in Message, Take(v, n) PROVE job'[run'[v].m].state # "none"
  BY <1>1 DEF Take
<1>2. ASSUME run[v] # Idle, run'[v].m = run[v].m PROVE job'[run'[v].m].state # "none"
  BY <1>2, JobsStay, RunType DEF RunsHaveJob
<1>3. ASSUME NEW w \in Worker, NEW n \in Message, Take(w, n)
      PROVE  w = v \/ run'[v] = run[v]
  BY <1>3 DEF Take
<1>4. ASSUME NEW w \in Worker, SkipStale(w) \/ Requeue(w) \/ Finish(w) \/ Fail(w) \/ Crash(w)
      PROVE  w # v /\ run'[v] = run[v]
  BY <1>4 DEF SkipStale, Requeue, Finish, Fail, Crash
<1>5. ASSUME NEW w \in Worker,
             \/ ReadCursor(w) \/ Acquire(w) \/ MarkProcessing(w) \/ HandlerReturns(w)
             \/ HandlerThrows(w) \/ MarkCompleted(w) \/ AdvanceCursor(w)
      PROVE  run[v] # Idle /\ run'[v].m = run[v].m
  <2>1. run[w] # Idle
    BY <1>5 DEF ReadCursor, Acquire, MarkProcessing, HandlerReturns, HandlerThrows,
      MarkCompleted, AdvanceCursor, At, Idle
  <2>2. PICK step \in RunSteps : run' = [run EXCEPT ![w].step = step]
    BY <1>5 DEF ReadCursor, Acquire, MarkProcessing, HandlerReturns, HandlerThrows,
      MarkCompleted, AdvanceCursor, RunSteps
  <2> QED BY <2>1, <2>2, RunType
<1>6. CASE UNCHANGED run
  BY <1>2, <1>6
<1> QED BY <1>1, <1>2, <1>3, <1>4, <1>5, <1>6
  DEF OrdNext, ordVars, Advance, Process, Stall, LockExpires, Arrive

LEMMA NextInbInv == InbInv /\ [Next]_vars => InbInv'
<1> SUFFICES ASSUME InbInv, [Next]_vars PROVE InbInv'
  OBVIOUS
<1>1. [OrdNext]_ordVars /\ IInv'
  BY NextIsOrdNext, NextIInv DEF InbInv
<1>2. OrdTypeOK' /\ RunsHaveJob'
  BY <1>1, StepRuns DEF IInv
<1>3. \A m \in Message : job[m].state # "none" => job'[m].state # "none"
  BY <1>1, JobsStay DEF InbInv
<1> DEFINE Kept == TypeOK' /\ HandlersKnow' /\ QueuedHasJob'
<1> USE DEF TypeOK, ClaimStates, HandlerSteps, HandlersKnow, QueuedHasJob, HandlerAt,
            HandlerGoto, Claim, Acknowledge, Refuse, Idle
<1>4. ASSUME NEW h \in Handler, NEW m \in Message, Deliver(h, m) PROVE Kept
  BY <1>2, <1>3, <1>4 DEF InbInv, Deliver
<1>5. ASSUME NEW h \in Handler, Serve(h) PROVE Kept
  <2> USE <1>2, <1>3 DEF InbInv
  <2>1. CASE CreateClaim(h)
    BY <2>1 DEF CreateClaim
  <2>2. CASE ReadClaim(h)
    BY <2>2 DEF ReadClaim
  <2>3. CASE Reclaim(h)
    BY <2>3 DEF Reclaim
  <2>4. CASE Drop(h)
    BY <2>4 DEF Drop, Release
  <2>5. CASE Break(h)
    BY <2>5 DEF Break
  <2>6. CASE Enqueue(h)
    BY <2>6 DEF Enqueue, AddJob, OrdTypeOK
  <2>7. CASE EnqueueThrows(h)
    BY <2>7 DEF EnqueueThrows
  <2>8. CASE RecordFailed(h)
    BY <2>8 DEF RecordFailed, Release
  <2>9. CASE MarkQueued(h)
    BY <2>9 DEF MarkQueued, Release
  <2> QED BY <1>5, <2>1, <2>2, <2>3, <2>4, <2>5, <2>6, <2>7, <2>8, <2>9 DEF Serve
<1>6. ASSUME NEW h \in Handler, HandlerCrash(h) PROVE Kept
  BY <1>2, <1>3, <1>6 DEF InbInv, HandlerCrash
<1>7. ASSUME NEW w \in Worker, BeginProcessing(w) \/ EndProcessing(w) PROVE Kept
  <2>1. run[w].m \in Message /\ job[run[w].m].state # "none"
    BY <1>7, RunType
    DEF InbInv, RunsHaveJob, BeginProcessing, EndProcessing, MarkProcessing, MarkCompleted, At
  <2> QED BY <1>2, <1>3, <1>7, <2>1 DEF InbInv, BeginProcessing, EndProcessing
<1>8. ASSUME UNCHANGED webVars PROVE Kept
  <2>1. claim' = claim /\ handler' = handler /\ dropped' = dropped
    BY <1>8 DEF webVars
  <2>2. TypeOK'
    BY <1>2, <2>1 DEF InbInv
  <2>3. HandlersKnow' /\ QueuedHasJob'
    BY <1>3, <2>1 DEF InbInv
  <2> QED BY <2>2, <2>3
<1>9. Kept
  <2> HIDE DEF Kept
  <2>1. ASSUME NEW w \in Worker, Work(w) PROVE Kept
    BY <1>7, <1>8, <2>1 DEF Work
  <2>2. CASE UNCHANGED vars
    BY <1>8, <2>2 DEF vars
  <2> QED BY <1>4, <1>5, <1>6, <1>8, <2>1, <2>2 DEF Next
<1> QED BY <1>1, <1>2, <1>9 DEF InbInv

LEMMA InboundInvariant == Spec => []InbInv
BY InitInbInv, NextInbInv, PTL DEF Spec

\* Claims, requests and jobs are what they should be.
THEOREM SpecTypeOK == Spec => []TypeOK
BY InboundInvariant, PTL DEF InbInv

\* A row that says 'queued', or more, has a job or was dropped on purpose,
\* whatever crashes, fails or is delivered again.
THEOREM SpecQueuedHasJob == Spec => []QueuedHasJob
BY InboundInvariant, PTL DEF InbInv

\* The composition implements the queue, and so keeps its guarantees.
THEOREM SpecIsOrdSpec == Spec => OrdSpec
<1>1. Init => OrdInit
  BY DEF Init
<1>2. InbInv => TypeOK
  BY DEF InbInv
<1> QED BY <1>1, <1>2, NextIsOrdNext, InboundInvariant, PTL DEF Spec, OrdSpec
-----------------------------------------------------------------------------
(* The dialogs of the Users page. *)

FormType == [of : Listed \cup {Nobody}, notes : Listed \cup {Nobody}, kept : BOOLEAN]
LookupType == [of : Listed, step : {"asked", "left", "late", "over", "failed"}]

DialogTypeOK ==
  /\ panel \in [of : Listed \cup {Nobody}, data : Listed \cup {Nobody}, loading : BOOLEAN]
  /\ lookups \in Seq(LookupType)
  /\ forms \in [Changes -> FormType]
  /\ order \in {NoOrder} \cup [step : {"sent", "reading"}, change : Changes, form : FormType]

\* What a dialog holds of somebody else came late; a request that was not left
\* is that of the open dialog.
PanelKnows ==
  /\ panel.data \notin {Nobody, panel.of} =>
       \E n \in DOMAIN lookups : lookups[n].step = "late" /\ lookups[n].of = panel.data
  /\ \A n \in DOMAIN lookups : lookups[n].step = "asked" => lookups[n].of = panel.of
  /\ panel.loading => \E n \in DOMAIN lookups : UnderWay(n)

NotesOf(form) == form.notes \in {Nobody, form.of} \/ form.kept

DialogInv ==
  /\ DialogTypeOK /\ PanelKnows
  /\ \A c \in Changes : NotesOf(forms[c])
  /\ order.step = "sent" => NotesOf(order.form)

LEMMA NobodyUnlisted == Nobody \notin Listed /\ EmptyForm \in FormType /\ NotesOf(EmptyForm) /\ NoOrder.step = "none"
BY ListAssumption DEF Nobody, EmptyForm, FormType, NotesOf, NoOrder

\* A request for a status changes its step.
LEMMA LookupSet ==
  ASSUME DialogTypeOK, NEW n \in DOMAIN lookups, NEW s \in {"asked", "left", "late", "over", "failed"},
         lookups' = [lookups EXCEPT ![n].step = s]
  PROVE  /\ lookups' \in Seq(LookupType) /\ DOMAIN lookups' = DOMAIN lookups
         /\ lookups'[n].step = s /\ lookups'[n].of = lookups[n].of
         /\ \A m \in DOMAIN lookups \ {n} : lookups'[m] = lookups[m]
<1>1. lookups \in Seq(LookupType) /\ lookups[n] \in LookupType
  BY DEF DialogTypeOK
<1>2. PICK l : l = [lookups[n] EXCEPT !.step = s]
  OBVIOUS
<1>3. l \in LookupType /\ l.step = s /\ l.of = lookups[n].of
  BY <1>1, <1>2 DEF LookupType
<1>4. lookups' = [lookups EXCEPT ![n] = l]
  BY <1>2
<1> QED BY <1>1, <1>3, <1>4

LEMMA PanelDialogInv ==
  ASSUME DialogInv, UNCHANGED <<forms, order>>, lookups' \in Seq(LookupType),
         panel' \in [of : Listed \cup {Nobody}, data : Listed \cup {Nobody}, loading : BOOLEAN], PanelKnows'
  PROVE  DialogInv'
BY DEF DialogInv, DialogTypeOK

LEMMA ViewDialogInv ==
  ASSUME DialogInv, NEW u \in Listed, ViewOnboarding(u)
  PROVE  DialogInv'
<1> DEFINE asked == [of |-> u, step |-> "asked"]
<1>1. lookups \in Seq(LookupType) /\ asked \in LookupType
  BY DEF DialogInv, DialogTypeOK, LookupType
<1>2. lookups' = Append(lookups, asked)
  BY DEF ViewOnboarding
<1>3. /\ lookups' \in Seq(LookupType) /\ DOMAIN lookups' = 1 .. Len(lookups) + 1
      /\ DOMAIN lookups = 1 .. Len(lookups) /\ Len(lookups) \in Nat
      /\ \A n \in DOMAIN lookups : lookups'[n] = lookups[n]
      /\ lookups'[Len(lookups) + 1] = asked
  BY <1>1, <1>2
<1>4. panel.of = Nobody /\ panel'.of = u /\ panel'.data = panel.data
      /\ panel' \in [of : Listed \cup {Nobody}, data : Listed \cup {Nobody}, loading : BOOLEAN]
  BY DEF ViewOnboarding, Uncovered, DialogInv, DialogTypeOK
<1>5. \A n \in DOMAIN lookups : lookups[n].step # "asked"
  <2>1. \A n \in DOMAIN lookups : lookups[n] \in LookupType
    BY <1>1
  <2> QED BY <2>1, <1>4, NobodyUnlisted DEF DialogInv, PanelKnows, LookupType
<1>6. \A n \in DOMAIN lookups' : lookups'[n].step = "asked" => lookups'[n].of = u
  <2> TAKE n \in DOMAIN lookups'
  <2>1. CASE n \in DOMAIN lookups
    BY <2>1, <1>3, <1>5
  <2>2. CASE n = Len(lookups) + 1
    BY <2>2, <1>3
  <2> QED BY <2>1, <2>2, <1>3
<1>7. \E n \in DOMAIN lookups' : UnderWay(n)'
  <2>1. Len(lookups) + 1 \in DOMAIN lookups' /\ lookups'[Len(lookups) + 1].step = "asked"
    BY <1>3
  <2> QED BY <2>1 DEF UnderWay
<1>8. panel'.data \notin {Nobody, u} =>
        \E n \in DOMAIN lookups' : lookups'[n].step = "late" /\ lookups'[n].of = panel'.data
  <2> HAVE panel'.data \notin {Nobody, u}
  <2>1. PICK n \in DOMAIN lookups : lookups[n].step = "late" /\ lookups[n].of = panel.data
    BY <1>4 DEF DialogInv, PanelKnows
  <2> QED BY <2>1, <1>3, <1>4
<1>9. PanelKnows'
  BY <1>4, <1>6, <1>7, <1>8 DEF PanelKnows
<1> QED BY <1>3, <1>4, <1>9, PanelDialogInv DEF ViewOnboarding

LEMMA CloseDialogInv ==
  ASSUME DialogInv, CloseOnboarding
  PROVE  DialogInv'
<1>1. lookups \in Seq(LookupType)
  BY DEF DialogInv, DialogTypeOK
<1> DEFINE leftOf(n) == IF lookups[n].step = "asked" THEN [lookups[n] EXCEPT !.step = "left"] ELSE lookups[n]
<1>2. \A n \in DOMAIN lookups : /\ leftOf(n) \in LookupType /\ leftOf(n).of = lookups[n].of
                                /\ leftOf(n).step # "asked"
                                /\ lookups[n].step = "late" => leftOf(n).step = "late"
                                /\ lookups[n].step \in {"asked", "left"} => leftOf(n).step = "left"
  <2>1. \A n \in DOMAIN lookups : lookups[n] \in LookupType
    BY <1>1
  <2> QED BY <2>1 DEF LookupType
<1>3. lookups' = [n \in DOMAIN lookups |-> leftOf(n)]
  BY DEF CloseOnboarding
<1>4. DOMAIN lookups' = DOMAIN lookups /\ \A n \in DOMAIN lookups : lookups'[n] = leftOf(n)
  BY <1>3
<1>5. lookups' \in Seq(LookupType)
  <2>1. DOMAIN lookups = 1 .. Len(lookups) /\ Len(lookups) \in Nat
    BY <1>1
  <2>2. lookups' \in [1 .. Len(lookups) -> LookupType]
    BY <1>2, <1>3, <2>1
  <2> HIDE DEF leftOf
  <2> QED BY <2>1, <2>2, SeqDef
<1>6. panel' = [panel EXCEPT !.of = Nobody, !.data = Nobody]
  BY DEF CloseOnboarding
<1>7. /\ panel' \in [of : Listed \cup {Nobody}, data : Listed \cup {Nobody}, loading : BOOLEAN]
      /\ panel'.data = Nobody /\ panel'.loading = panel.loading
  BY <1>6 DEF DialogInv, DialogTypeOK
<1>8. panel.loading => \E n \in DOMAIN lookups' : UnderWay(n)'
  BY <1>2, <1>4 DEF DialogInv, PanelKnows, UnderWay
<1>9. PanelKnows'
  BY <1>2, <1>4, <1>7, <1>8 DEF PanelKnows
<1> QED BY <1>5, <1>7, <1>9, PanelDialogInv DEF CloseOnboarding

LEMMA AnswerDialogInv ==
  ASSUME DialogInv, NEW n, OnboardingComes(n) \/ OnboardingFails(n)
  PROVE  DialogInv'
<1>1. n \in DOMAIN lookups /\ lookups[n].step \in {"asked", "left"} /\ UNCHANGED <<forms, order>>
  BY DEF OnboardingComes, OnboardingFails, UnderWay
<1>2. lookups[n] \in LookupType /\ lookups[n].of \in Listed
  <2>1. lookups[n] \in LookupType
    BY <1>1 DEF DialogInv, DialogTypeOK
  <2> QED BY <2>1 DEF LookupType
<1>3. PICK s \in {"late", "over", "failed"} :
        /\ lookups' = [lookups EXCEPT ![n].step = s]
        /\ OnboardingComes(n) => s = IF lookups[n].step = "left" THEN "late" ELSE "over"
  <2>1. CASE OnboardingComes(n)
    BY <2>1, <1>1 DEF OnboardingComes
  <2>2. CASE OnboardingFails(n) /\ ~ OnboardingComes(n)
    BY <2>2 DEF OnboardingFails
  <2> QED BY <2>1, <2>2
<1>4. /\ lookups' \in Seq(LookupType) /\ DOMAIN lookups' = DOMAIN lookups
      /\ lookups'[n].step = s /\ lookups'[n].of = lookups[n].of
      /\ \A m \in DOMAIN lookups \ {n} : lookups'[m] = lookups[m]
  BY <1>1, <1>3, LookupSet DEF DialogInv
<1>5. /\ panel' \in [of : Listed \cup {Nobody}, data : Listed \cup {Nobody}, loading : BOOLEAN]
      /\ panel'.of = panel.of /\ ~ panel'.loading
      /\ panel'.data = panel.data \/ (OnboardingComes(n) /\ panel'.data = lookups[n].of)
  <2>1. CASE OnboardingComes(n)
    BY <2>1, <1>2 DEF OnboardingComes, DialogInv, DialogTypeOK
  <2>2. CASE OnboardingFails(n)
    BY <2>2, <1>2 DEF OnboardingFails, DialogInv, DialogTypeOK
  <2> QED BY <2>1, <2>2
<1>6. panel'.data \notin {Nobody, panel.of} =>
        \E m \in DOMAIN lookups' : lookups'[m].step = "late" /\ lookups'[m].of = panel'.data
  <2> HAVE panel'.data \notin {Nobody, panel.of}
  <2>1. CASE panel'.data = panel.data
    <3>1. PICK m \in DOMAIN lookups : lookups[m].step = "late" /\ lookups[m].of = panel.data
      BY <2>1 DEF DialogInv, PanelKnows
    <3> QED BY <3>1, <2>1, <1>1, <1>4
  <2>2. CASE OnboardingComes(n) /\ panel'.data = lookups[n].of
    <3>1. lookups[n].step = "left"
      BY <2>2, <1>1 DEF DialogInv, PanelKnows
    <3> QED BY <3>1, <2>2, <1>1, <1>3, <1>4
  <2> QED BY <2>1, <2>2, <1>5
<1>7. PanelKnows'
  BY <1>1, <1>4, <1>5, <1>6 DEF DialogInv, PanelKnows
<1> QED BY <1>1, <1>4, <1>5, <1>7, PanelDialogInv

LEMMA FormDialogInv ==
  ASSUME DialogInv, NEW c \in Changes, NEW form \in FormType, NotesOf(form),
         forms' = [forms EXCEPT ![c] = form], UNCHANGED <<panel, lookups>>,
         \/ order' = order
         \/ order # NoOrder /\ order' = [order EXCEPT !.step = "reading"]
  PROVE  DialogInv'
<1>1. order' \in {NoOrder} \cup [step : {"sent", "reading"}, change : Changes, form : FormType]
      /\ (order'.step = "sent" => order' = order)
  BY DEF DialogInv, DialogTypeOK
<1>2. forms' \in [Changes -> FormType] /\ \A d \in Changes : NotesOf(forms'[d])
  BY DEF DialogInv, DialogTypeOK
<1>3. PanelKnows'
  BY DEF DialogInv, PanelKnows, UnderWay
<1> QED BY <1>1, <1>2, <1>3 DEF DialogInv, DialogTypeOK

LEMMA NextDialogInv == DialogInv /\ [DialogNext]_dialogVars => DialogInv'
<1> SUFFICES ASSUME DialogInv, [DialogNext]_dialogVars PROVE DialogInv'
  OBVIOUS
<1> USE NobodyUnlisted
<1>0. \A c \in Changes : /\ forms[c] \in FormType /\ NotesOf(forms[c])
                         /\ forms[c] = [of |-> forms[c].of, notes |-> forms[c].notes, kept |-> forms[c].kept]
  BY DEF DialogInv, DialogTypeOK, FormType
<1>1. ASSUME NEW u \in Listed, ViewOnboarding(u) PROVE DialogInv'
  BY <1>1, ViewDialogInv
<1>2. ASSUME NEW u \in Listed, NEW c \in Changes, AskChange(c, u) PROVE DialogInv'
  <2>1. PICK form : form = [forms[c] EXCEPT !.of = u]
    OBVIOUS
  <2>2. forms[c].of = Nobody
    BY <1>2 DEF AskChange, Uncovered
  <2>3. form \in FormType /\ NotesOf(form)
    BY <2>1, <2>2, <1>0 DEF NotesOf, FormType
  <2>4. forms' = [forms EXCEPT ![c] = form] /\ UNCHANGED <<panel, lookups>> /\ order' = order
    BY <1>2, <2>1 DEF AskChange
  <2> QED BY <2>3, <2>4, FormDialogInv
<1>3. CASE CloseOnboarding
  BY <1>3, CloseDialogInv
<1>4. ASSUME NEW n \in 1 .. MaxLookups, OnboardingComes(n) \/ OnboardingFails(n) PROVE DialogInv'
  BY <1>4, AnswerDialogInv
<1>5. ASSUME NEW c \in Changes, WriteNotes(c) PROVE DialogInv'
  <2>1. PICK form : form = [forms[c] EXCEPT !.notes = forms[c].of, !.kept = FALSE]
    OBVIOUS
  <2>2. form \in FormType /\ NotesOf(form)
    BY <2>1, <1>0 DEF NotesOf, FormType
  <2>3. forms' = [forms EXCEPT ![c] = form] /\ UNCHANGED <<panel, lookups>> /\ order' = order
    BY <1>5, <2>1 DEF WriteNotes
  <2> QED BY <2>2, <2>3, FormDialogInv
<1>6. ASSUME NEW c \in Changes, CallOff(c) PROVE DialogInv'
  <2>1. PICK form : form = [forms[c] EXCEPT !.of = Nobody, !.kept = forms[c].notes # Nobody]
    OBVIOUS
  <2>2. form \in FormType /\ NotesOf(form)
    BY <2>1, <1>0 DEF NotesOf, FormType
  <2>3. forms' = [forms EXCEPT ![c] = form] /\ UNCHANGED <<panel, lookups>> /\ order' = order
    BY <1>6, <2>1 DEF CallOff
  <2> QED BY <2>2, <2>3, FormDialogInv
<1>7. ASSUME NEW c \in Changes, SendChange(c) PROVE DialogInv'
  BY <1>7, <1>0 DEF SendChange, DialogInv, DialogTypeOK, PanelKnows, UnderWay
<1>8. CASE ChangeSucceeds
  <2>1. order # NoOrder /\ order.change \in Changes
    BY <1>8 DEF ChangeSucceeds, DialogInv, DialogTypeOK
  <2> QED BY <1>8, <2>1, FormDialogInv DEF ChangeSucceeds
<1>9. CASE ChangeRefused \/ ListRead
  BY <1>9 DEF ChangeRefused, ListRead, DialogInv, DialogTypeOK, PanelKnows, UnderWay
<1>10. CASE UNCHANGED dialogVars
  BY <1>10 DEF dialogVars, DialogInv, DialogTypeOK, PanelKnows, UnderWay
<1> QED BY <1>1, <1>2, <1>3, <1>4, <1>5, <1>6, <1>7, <1>8, <1>9, <1>10 DEF DialogNext

LEMMA DialogHolds == DialogSpec => [](DialogTells /\ NotesBelong)
<1>1. DialogInit => DialogInv
  BY NobodyUnlisted DEF DialogInit, DialogInv, DialogTypeOK, PanelKnows
<1>2. DialogInv => DialogTells /\ NotesBelong
  BY DEF DialogInv, PanelKnows, DialogTells, PanelShows, NotesBelong, NotesOf
<1> QED BY <1>1, <1>2, NextDialogInv, PTL DEF DialogSpec
-----------------------------------------------------------------------------
(***************************************************************************)
(* Pages.  Keys are totally ordered; what a query reads are the nearest of *)
(* the keys it is about, and all others are beyond the last of them.       *)
(***************************************************************************)
Keys == Nat \X Ids
Cursors == Keys \cup {NoKey}

LEMMA OlderOrders ==
  ASSUME NEW k \in Cursors, NEW l \in Cursors
  PROVE  /\ ~ Older(k, k)
         /\ k = l \/ Older(k, l) \/ Older(l, k)
         /\ Older(k, l) => ~ Older(l, k)
         /\ k \in Keys => Older(NoKey, k) /\ ~ Older(k, NoKey)
         /\ \A m \in Cursors : Older(k, l) /\ Older(l, m) => Older(k, m)
<1>1. Cursors \subseteq Int \X Int /\ Keys \subseteq Nat \X Nat /\ NoKey \in Int \X Int
  <2>1. Keys \subseteq Nat \X Nat
    BY ListAssumption DEF Keys
  <2>2. Nat \X Nat \subseteq Int \X Int
    OBVIOUS
  <2>3. NoKey \in Int \X Int
    BY DEF NoKey
  <2> QED BY <2>1, <2>2, <2>3 DEF Cursors
<1>2. k[1] \in Int /\ k[2] \in Int /\ l[1] \in Int /\ l[2] \in Int /\ k = <<k[1], k[2]>> /\ l = <<l[1], l[2]>>
  BY <1>1
<1>3. ~ Older(k, k) /\ (k = l \/ Older(k, l) \/ Older(l, k)) /\ (Older(k, l) => ~ Older(l, k))
  BY <1>2 DEF Older
<1>4. k \in Keys => Older(NoKey, k) /\ ~ Older(k, NoKey)
  <2> HAVE k \in Keys
  <2>1. k[1] \in Nat /\ NoKey[1] = -1
    BY <1>1 DEF NoKey
  <2> QED BY <2>1 DEF Older
<1>5. ASSUME NEW m \in Cursors, Older(k, l), Older(l, m) PROVE Older(k, m)
  <2>1. m[1] \in Int /\ m[2] \in Int
    BY <1>1
  <2> QED BY <1>2, <1>5, <2>1 DEF Older
<1> QED BY <1>3, <1>4, <1>5

\* The nearer of two keys, in either direction.
Nearer(back, k, l) == IF back THEN Older(k, l) ELSE Older(l, k)

LEMMA NearerOrders ==
  ASSUME NEW back \in BOOLEAN, NEW k \in Keys, NEW l \in Keys
  PROVE  /\ ~ Nearer(back, k, k)
         /\ k = l \/ Nearer(back, k, l) \/ Nearer(back, l, k)
         /\ Nearer(back, k, l) => ~ Nearer(back, l, k)
         /\ \A m \in Keys : Nearer(back, k, l) /\ Nearer(back, l, m) => Nearer(back, k, m)
BY OlderOrders DEF Nearer, Cursors

\* There is a nearest key: the one than which fewest are nearer.
LEMMA NearestExists ==
  ASSUME NEW back \in BOOLEAN, NEW keys \in SUBSET Keys, IsFiniteSet(keys), keys # {}
  PROVE  \E k \in keys : \A l \in keys : ~ Nearer(back, l, k)
<1> DEFINE nearer(k) == {l \in keys : Nearer(back, l, k)}
           all == {nearer(k) : k \in keys}
<1>1. all \subseteq FiniteSubsetsOf(keys) /\ all # {}
  <2>1. \A k \in keys : nearer(k) \in SUBSET keys /\ IsFiniteSet(nearer(k))
    BY FS_Subset
  <2> QED BY <2>1 DEF FiniteSubsetsOf
<1>2. IsWellFoundedOn(StrictSubsetOrdering(keys), FiniteSubsetsOf(keys))
  BY FS_StrictSubsetOrderingWellFounded
<1>3. PICK least \in all : \A s \in all : <<s, least>> \notin StrictSubsetOrdering(keys)
  <2> HIDE DEF all
  <2> QED BY <1>1, <1>2, WFMin
<1>4. PICK k \in keys : least = nearer(k)
  OBVIOUS
<1>5. ASSUME NEW l \in keys, Nearer(back, l, k) PROVE FALSE
  <2>1. nearer(l) \subseteq nearer(k)
    BY <1>5, NearerOrders
  <2>2. l \in nearer(k) /\ l \notin nearer(l)
    BY <1>5, NearerOrders
  <2>3. <<nearer(l), nearer(k)>> \in StrictSubsetOrdering(keys)
    BY <2>1, <2>2 DEF StrictSubsetOrdering
  <2> QED BY <2>3, <1>3, <1>4
<1> QED BY <1>5

LEMMA EndsOfPage ==
  ASSUME NEW keys \in SUBSET Keys, IsFiniteSet(keys), keys # {}
  PROVE  /\ Newest(keys) \in keys /\ \A k \in keys : ~ Older(Newest(keys), k)
         /\ Oldest(keys) \in keys /\ \A k \in keys : ~ Older(k, Oldest(keys))
<1>1. PICK new \in keys : \A l \in keys : ~ Nearer(FALSE, l, new)
  BY NearestExists
<1>2. PICK first \in keys : \A l \in keys : ~ Nearer(TRUE, l, first)
  BY NearestExists
<1>3. \A l \in keys \ {new} : Older(l, new)
  BY <1>1, NearerOrders DEF Nearer
<1>4. \A l \in keys \ {first} : Older(first, l)
  BY <1>2, NearerOrders DEF Nearer
<1>5. Newest(keys) \in keys /\ \A l \in keys \ {Newest(keys)} : Older(l, Newest(keys))
  BY <1>3 DEF Newest
<1>6. Oldest(keys) \in keys /\ \A l \in keys \ {Oldest(keys)} : Older(Oldest(keys), l)
  BY <1>4 DEF Oldest
<1> QED BY <1>5, <1>6, OlderOrders DEF Cursors

LEMMA PageIsNearest ==
  ASSUME NEW q, NEW keys \in SUBSET Keys, IsFiniteSet(keys)
  PROVE  LET back == q.dir = "before" page == Nearest(q, keys)
         IN /\ page \subseteq keys /\ IsFiniteSet(page)
            /\ keys # {} => page # {}
            /\ \A k \in page, l \in keys \ page : Nearer(back, k, l)
<1> DEFINE back == q.dir = "before"
           page == Nearest(q, keys)
           nearer(k) == {l \in keys : Nearer(back, l, k)}
<1>1. \A k \in keys : k \in page <=> Cardinality(nearer(k)) < PageSize
  BY DEF Nearest, Nearer
<1>2. page \subseteq keys /\ IsFiniteSet(page)
  BY FS_Subset DEF Nearest
<1>3. ASSUME keys # {} PROVE page # {}
  <2>1. PICK k \in keys : \A l \in keys : ~ Nearer(back, l, k)
    BY <1>3, NearestExists
  <2>2. nearer(k) = {}
    BY <2>1
  <2>3. Cardinality(nearer(k)) = 0
    BY <2>2, FS_EmptySet
  <2> QED BY <1>1, <2>3, ListAssumption
<1>4. ASSUME NEW k \in page, NEW l \in keys \ page PROVE Nearer(back, k, l)
  <2>1. k \in keys /\ k # l
    BY <1>2
  <2>2. SUFFICES ASSUME Nearer(back, l, k) PROVE FALSE
    BY <2>1, NearerOrders
  <2>3. nearer(l) \in SUBSET nearer(k) /\ nearer(k) \in SUBSET keys
    BY <2>1, <2>2, NearerOrders
  <2>4. IsFiniteSet(nearer(k))
    BY <2>3, FS_Subset
  <2>5. Cardinality(nearer(l)) <= Cardinality(nearer(k)) /\ Cardinality(nearer(k)) \in Nat
        /\ Cardinality(nearer(l)) \in Nat
    <3>1. IsFiniteSet(nearer(l))
      BY <2>3, <2>4, FS_Subset
    <3> QED BY <2>3, <2>4, <3>1, FS_Subset, FS_CardinalityType
  <2>6. Cardinality(nearer(k)) < PageSize /\ ~ (Cardinality(nearer(l)) < PageSize)
    BY <1>1, <2>1
  <2> QED BY <2>5, <2>6, ListAssumption
<1> QED BY <1>2, <1>3, <1>4

Queries == [filter : {"none", "field", "or"}, dir : {"first", "after", "before"}, cursor : Cursors]
Pages == [items : SUBSET Keys, next : Cursors, prev : Cursors]
RowsTyped == sortedBy \in [Ids -> Nat \cup {NotListed}]

\* A query is about the rows of its filter, and a cursor forgets an OR.
About(q, r) == Matches(q.filter, r) \/ (q.filter = "or" /\ q.dir # "first")

LEMMA KeysOfQuery ==
  ASSUME RowsTyped, NEW q
  PROVE  /\ Where(q) \in SUBSET Keys /\ IsFiniteSet(Where(q))
         /\ \A k \in Where(q) : /\ sortedBy[k[2]] = k[1] /\ About(q, k[2]) /\ Beyond(q, k)
         /\ \A r \in ListedRows : About(q, r) /\ Beyond(q, Key(r)) => Key(r) \in Where(q)
<1> DEFINE of == {x \in ListedRows : Beyond(q, Key(x)) /\ About(q, x)}
<1>1. Where(q) = {Key(r) : r \in of}
  BY DEF Where, About
<1>2. \A r \in ListedRows : r \in Ids /\ sortedBy[r] \in Nat /\ Key(r) = <<sortedBy[r], r>> /\ Key(r) \in Keys
  BY DEF ListedRows, RowsTyped, Key, Keys
<1>3. IsFiniteSet(of)
  <2>1. of \in SUBSET Ids
    BY <1>2
  <2> HIDE DEF of
  <2> QED BY <2>1, FS_Subset, ListAssumption
<1>4. IsFiniteSet(Where(q))
  <2> DEFINE keyOf == [r \in of |-> Key(r)]
  <2>1. keyOf \in [of -> Where(q)] /\ \A k \in Where(q) : \E r \in of : keyOf[r] = k
    BY <1>1
  <2>2. keyOf \in Surjection(of, Where(q))
    <3> HIDE DEF keyOf, of
    <3> QED BY <2>1, Zenon DEF Surjection
  <2> HIDE DEF keyOf, of
  <2> QED BY <2>2, <1>3, FS_Surjection
<1>5. ASSUME NEW k \in Where(q)
      PROVE  k \in Keys /\ sortedBy[k[2]] = k[1] /\ About(q, k[2]) /\ Beyond(q, k)
  <2>1. PICK r \in of : k = Key(r)
    BY <1>1
  <2>2. k[1] = sortedBy[r] /\ k[2] = r
    BY <2>1, <1>2
  <2> QED BY <2>1, <2>2, <1>2
<1>6. \A r \in ListedRows : About(q, r) /\ Beyond(q, Key(r)) => Key(r) \in Where(q)
  BY <1>1
<1> QED BY <1>4, <1>5, <1>6

\* What a query answers: rows of its own, the nearest; and where there may be
\* more, the cursor is the last of them.
LEMMA QueryAnswers ==
  ASSUME RowsTyped, NEW q \in Queries
  PROVE  LET a == CursorQuery(q)
         IN /\ a \in Pages /\ a.items \subseteq Where(q)
            /\ Where(q) # {} => a.items # {}
            /\ a.next \in a.items \cup {NoKey} /\ \A k \in a.items : ~ Older(k, a.next)
            /\ a.prev \in a.items \cup {NoKey} /\ (a.prev # NoKey => \A k \in a.items : ~ Older(a.prev, k))
            /\ q.dir # "before" => \A k \in Where(q) : k \in a.items \/ (a.next # NoKey /\ Older(k, a.next))
            /\ q.dir = "before" /\ a.items # {} => a.next # NoKey
            /\ q.dir = "first" => a.prev = NoKey
            /\ q.dir = "before" /\ a.prev # NoKey => \E k \in Where(q) : Older(a.prev, k)
<1> DEFINE keys == Where(q)
           page == Nearest(q, keys)
           back == q.dir = "before"
           a == CursorQuery(q)
<1>1. keys \in SUBSET Keys /\ IsFiniteSet(keys)
  BY KeysOfQuery
<1>2. /\ page \subseteq keys /\ IsFiniteSet(page) /\ (keys # {} => page # {})
      /\ \A k \in page, l \in keys \ page : Nearer(back, k, l)
  BY <1>1, PageIsNearest
<1>3. NoKey \notin Keys
  BY ListAssumption DEF NoKey, Keys
<1>4. CASE page = {}
  <2>1. a = [items |-> {}, next |-> NoKey, prev |-> NoKey]
    BY <1>4 DEF CursorQuery
  <2>2. keys = {}
    BY <1>2, <1>4
  <2> QED BY <2>1, <2>2 DEF Pages, Cursors
<1>5. CASE page # {}
  <2>1. a = [items |-> page,
             next |-> IF back \/ page # keys THEN Oldest(page) ELSE NoKey,
             prev |-> IF q.dir = "after" \/ (back /\ page # keys) THEN Newest(page) ELSE NoKey]
    BY <1>5 DEF CursorQuery
  <2>2. page \in SUBSET Keys
    BY <1>1, <1>2
  <2>3. /\ Newest(page) \in page /\ \A k \in page : ~ Older(Newest(page), k)
        /\ Oldest(page) \in page /\ \A k \in page : ~ Older(k, Oldest(page))
    BY <1>2, <1>5, <2>2, EndsOfPage
  <2> HIDE DEF page, keys
  <2>4. a.items = page /\ a.next \in page \cup {NoKey} /\ a.prev \in page \cup {NoKey} /\ a \in Pages
    BY <2>1, <2>2, <2>3 DEF Pages, Cursors
  <2>5. a.next \in {NoKey, Oldest(page)} /\ a.prev \in {NoKey, Newest(page)}
    BY <2>1
  <2>6. \A k \in a.items : ~ Older(k, a.next)
    BY <2>2, <2>3, <2>4, <2>5, OlderOrders DEF Cursors
  <2>7. ASSUME ~ back, NEW k \in keys \ page PROVE a.next # NoKey /\ Older(k, a.next)
    <3>1. a.next = Oldest(page) /\ Oldest(page) \in Keys
      BY <2>1, <2>2, <2>3, <2>7
    <3>2. Nearer(back, Oldest(page), k)
      BY <1>2, <2>3, <2>7
    <3> QED BY <3>1, <3>2, <2>7, <1>3 DEF Nearer
  <2>8. ASSUME back, a.prev # NoKey PROVE \E k \in keys : Older(a.prev, k)
    <3>1. a.prev = Newest(page) /\ page # keys
      BY <2>1, <2>8
    <3>2. PICK k \in keys : k \notin page
      BY <3>1, <1>2
    <3>3. Nearer(back, Newest(page), k)
      BY <3>2, <1>2, <2>3
    <3> QED BY <3>1, <3>2, <3>3, <2>8 DEF Nearer
  <2>9. back => a.next # NoKey
    BY <2>1, <2>2, <2>3, <1>3
  <2>10. q.dir = "first" => a.prev = NoKey
    BY <2>1
  <2>11. keys # {} => a.items # {}
    BY <1>5, <2>4
  <2>12. a.items \subseteq keys
    BY <1>2, <2>4
  <2>13. a.prev # NoKey => \A k \in a.items : ~ Older(a.prev, k)
    BY <2>3, <2>4, <2>5
  <2>14. ~ back => \A k \in keys : k \in a.items \/ (a.next # NoKey /\ Older(k, a.next))
    BY <2>4, <2>7
  <2> QED BY <2>4, <2>6, <2>8, <2>9, <2>10, <2>11, <2>12, <2>13, <2>14 DEF keys
<1> QED BY <1>4, <1>5
-----------------------------------------------------------------------------
(***************************************************************************)
(* Lists.  An answer and a table say what they are about for good: rows    *)
(* only move towards the newest.                                           *)
(***************************************************************************)
FetchType ==
  [step : {"asked"}, url : Queries, from : Nat]
  \cup [step : {"served"}, url : Queries, from : Nat, answer : Pages, owed : SUBSET Keys]
  \cup [step : {"over", "failed"}, url : Queries]
TableType == [url : Queries, items : SUBSET Keys, next : Cursors, prev : Cursors, number : Nat]

ListTypeOK ==
  /\ RowsTyped /\ clockNow \in Nat /\ \A r \in Ids : sortedBy[r] <= clockNow
  /\ list \in Lists
  /\ fetches \in Seq(FetchType) /\ fetches # << >>
  /\ shown \in TableType
  /\ walk \in [owed : SUBSET Keys, seen : SUBSET Keys, twice : BOOLEAN, broken : BOOLEAN]

WasRow(k) == k[1] <= sortedBy[k[2]]
Moved(k) == sortedBy[k[2]] # k[1]

\* There is a row of the filter that is newer.
RowAhead(filter, k) == \E r \in ListedRows : (Matches(filter, r) \/ filter = "or") /\ Older(k, Key(r))

\* A page holds rows of its query; its cursors are its last and its first key.
PageOf(q, page) ==
  /\ \A k \in page.items : WasRow(k) /\ About(q, k[2])
  /\ page.next \in page.items \cup {NoKey} /\ page.prev \in page.items \cup {NoKey}
  /\ page.prev # NoKey => \A k \in page.items : ~ Older(page.prev, k)

AnswerStands(f) ==
  /\ PageOf(f.url, f.answer)
  /\ \A k \in f.owed : WasRow(k) /\ Matches(f.url.filter, k[2])
  /\ \A k \in f.answer.items : /\ ~ Older(k, f.answer.next)
                               /\ f.url.dir = "after" => Older(k, f.url.cursor)
                               /\ f.url.dir = "before" => Older(f.url.cursor, k)
  /\ f.url.dir = "first" =>
       /\ f.answer.prev = NoKey
       /\ \A k \in f.owed : k \in f.answer.items \/ (f.answer.next # NoKey /\ Older(k, f.answer.next))
  /\ f.url.dir = "before" =>
       /\ f.answer.items # {} => f.answer.next # NoKey
       /\ f.answer.prev # NoKey => RowAhead(f.url.filter, f.answer.prev)

\* What the answer that the page before leads to adds to the walk.
GoesOn(f) ==
  f.from = shown.number /\ f.url.filter = shown.url.filter =>
    /\ f.url.dir = "after" /\ f.url.cursor = shown.next =>
         \A k \in walk.owed : \/ Moved(k) \/ ~ Older(k, f.url.cursor) \/ k \in f.answer.items
                              \/ f.answer.next # NoKey /\ Older(k, f.answer.next)
    /\ f.url.dir = "before" /\ f.url.cursor = shown.prev => f.answer.items # {}

\* What the walk owes and has not seen is beyond the table; what it has seen is
\* not.
TableStands ==
  /\ ~ walk.twice
  /\ \A k \in walk.owed : /\ WasRow(k) /\ Matches(shown.url.filter, k[2])
                          /\ k \in walk.seen \/ Moved(k) \/ (shown.next # NoKey /\ Older(k, shown.next))
  /\ \A k \in walk.seen : ~ Older(k, shown.next)
  /\ PageOf(shown.url, shown)
  /\ shown.prev # NoKey => RowAhead(shown.url.filter, shown.prev)

\* A request goes on from a table that was shown.
WasShown(n) == n = 0 \/ (n \in DOMAIN fetches /\ fetches[n].step = "over")
FetchStands(f) ==
  /\ f.url.dir = "before" => f.url.cursor # NoKey
  /\ f.step \in {"asked", "served"} => WasShown(f.from)
  /\ f.step = "served" => AnswerStands(f) /\ (walk.broken \/ GoesOn(f))

ListInv ==
  /\ ListTypeOK /\ WasShown(shown.number)
  /\ \A n \in DOMAIN fetches : FetchStands(fetches[n])
  /\ walk.broken \/ TableStands
  /\ AddressIsShown

LEMMA ServedType ==
  ASSUME NEW f \in FetchType
  PROVE  /\ f.url \in Queries
         /\ f.step \in {"asked", "served"} => f.from \in Nat
         /\ f.step = "served" => /\ f.answer \in Pages /\ f.answer.items \in SUBSET Keys
                                 /\ f.answer.next \in Cursors /\ f.answer.prev \in Cursors
                                 /\ f.owed \in SUBSET Keys
                                 /\ f.url.cursor \in Cursors
BY DEF FetchType, Pages, Queries

LEMMA TableTyped ==
  ASSUME ListTypeOK
  PROVE  /\ shown.url \in Queries /\ shown.items \in SUBSET Keys
         /\ shown.next \in Cursors /\ shown.prev \in Cursors /\ shown.number \in Nat
         /\ walk.owed \in SUBSET Keys /\ walk.seen \in SUBSET Keys /\ walk.twice \in BOOLEAN /\ walk.broken \in BOOLEAN
BY DEF ListTypeOK, TableType

LEMMA FetchTyped ==
  ASSUME ListTypeOK
  PROVE  /\ DOMAIN fetches = 1 .. Len(fetches) /\ Len(fetches) \in Nat \ {0}
         /\ \A n \in DOMAIN fetches : fetches[n] \in FetchType
<1>1. fetches \in Seq(FetchType) /\ fetches # << >>
  BY DEF ListTypeOK
<1> QED BY <1>1

\* What is said of rows stays true.
LEMMA RowsMove ==
  ASSUME RowsTyped, RowsTyped', \A r \in Ids : sortedBy[r] <= sortedBy'[r]
  PROVE  /\ \A k \in Keys : WasRow(k) => WasRow(k)' /\ (Moved(k) => Moved(k)')
         /\ \A k \in Cursors : \A filter : RowAhead(filter, k) => RowAhead(filter, k)'
<1>1. \A r \in Ids : sortedBy[r] \in Int /\ sortedBy'[r] \in Int /\ (sortedBy[r] # NotListed => sortedBy[r] \in Nat)
  BY DEF RowsTyped, NotListed
<1>2. ASSUME NEW k \in Keys, WasRow(k) PROVE WasRow(k)' /\ (Moved(k) => Moved(k)')
  <2>1. k[1] \in Nat /\ k[2] \in Ids
    BY DEF Keys
  <2> QED BY <1>1, <1>2, <2>1 DEF WasRow, Moved
<1>3. ASSUME NEW k \in Cursors, NEW filter, RowAhead(filter, k) PROVE RowAhead(filter, k)'
  <2>1. PICK r \in ListedRows : (Matches(filter, r) \/ filter = "or") /\ Older(k, Key(r))
    BY <1>3 DEF RowAhead
  <2>2. r \in Ids /\ sortedBy[r] \in Nat /\ sortedBy'[r] \in Nat /\ sortedBy[r] <= sortedBy'[r]
    BY <2>1, <1>1 DEF ListedRows, RowsTyped, NotListed
  <2>3. r \in ListedRows' /\ Matches(filter, r)' = Matches(filter, r)
    BY <2>2 DEF ListedRows, NotListed, Matches
  <2>4. Key(r) \in Cursors /\ Key(r)' \in Cursors /\ (Key(r) = Key(r)' \/ Older(Key(r), Key(r)'))
    BY <2>2 DEF Key, Cursors, Keys, Older
  <2>5. Older(k, Key(r)')
    BY <2>1, <2>4, OlderOrders
  <2> QED BY <2>1, <2>3, <2>5 DEF RowAhead
<1> QED BY <1>2, <1>3

LEMMA AnswerKept ==
  ASSUME RowsTyped, RowsTyped', \A r \in Ids : sortedBy[r] <= sortedBy'[r],
         NEW f \in FetchType, f.step = "served", AnswerStands(f)
  PROVE  AnswerStands(f)'
<1>1. /\ f.answer.items \in SUBSET Keys /\ f.answer.next \in Cursors /\ f.answer.prev \in Cursors
      /\ f.owed \in SUBSET Keys
  BY ServedType
<1>2. PageOf(f.url, f.answer)'
  BY <1>1, RowsMove DEF AnswerStands, PageOf, About, Matches
<1>3. \A k \in f.owed : WasRow(k)' /\ Matches(f.url.filter, k[2])'
  BY <1>1, RowsMove DEF AnswerStands, Matches
<1>4. f.url.dir = "before" /\ f.answer.prev # NoKey => RowAhead(f.url.filter, f.answer.prev)'
  BY <1>1, RowsMove DEF AnswerStands
<1> QED BY <1>2, <1>3, <1>4 DEF AnswerStands

LEMMA RowsListInv ==
  ASSUME ListInv, RowsTyped', \A r \in Ids : sortedBy[r] <= sortedBy'[r],
         clockNow' \in Nat, \A r \in Ids : sortedBy'[r] <= clockNow',
         UNCHANGED <<list, fetches, loading, shown, walk>>
  PROVE  ListInv'
<1>1. ListTypeOK /\ ListTypeOK'
  BY DEF ListInv, ListTypeOK
<1>2. /\ shown.items \in SUBSET Keys /\ shown.next \in Cursors /\ shown.prev \in Cursors
      /\ walk.owed \in SUBSET Keys
  BY <1>1, TableTyped
<1>3. /\ \A k \in Keys : WasRow(k) => WasRow(k)' /\ (Moved(k) => Moved(k)')
      /\ \A k \in Cursors : \A filter : RowAhead(filter, k) => RowAhead(filter, k)'
  BY <1>1, RowsMove DEF ListTypeOK
<1>4. ASSUME ~ walk.broken PROVE TableStands'
  <2>1. TableStands
    BY <1>4 DEF ListInv
  <2>2. PageOf(shown.url, shown)'
    BY <2>1, <1>2, <1>3 DEF TableStands, PageOf, About, Matches
  <2>3. \A k \in walk.owed : /\ WasRow(k)' /\ Matches(shown.url.filter, k[2])'
                             /\ Moved(k) => Moved(k)'
    BY <2>1, <1>2, <1>3 DEF TableStands, Matches
  <2> QED BY <2>1, <2>2, <2>3, <1>2, <1>3 DEF TableStands
<1>5. ASSUME NEW n \in DOMAIN fetches PROVE FetchStands(fetches[n])'
  <2>1. fetches[n] \in FetchType /\ FetchStands(fetches[n])
    BY <1>1, FetchTyped DEF ListInv
  <2>2. ASSUME fetches[n].step = "served" PROVE AnswerStands(fetches[n])'
    <3>1. PICK f : f = fetches[n]
      OBVIOUS
    <3>2. AnswerStands(f) /\ f \in FetchType /\ f.step = "served"
      BY <2>1, <2>2, <3>1 DEF FetchStands
    <3>3. AnswerStands(f)'
      BY <3>2, <1>1, AnswerKept DEF ListTypeOK
    <3> QED BY <3>1, <3>3
  <2>3. ASSUME fetches[n].step = "served", ~ walk.broken PROVE GoesOn(fetches[n])'
    <3>1. GoesOn(fetches[n]) /\ \A k \in walk.owed : WasRow(k)
      BY <2>1, <2>3 DEF FetchStands, ListInv, TableStands
    <3> QED BY <3>1, <1>2, <1>3 DEF GoesOn
  <2>4. \A m : WasShown(m)' <=> WasShown(m)
    BY DEF WasShown
  <2> QED BY <2>1, <2>2, <2>3, <2>4 DEF FetchStands
<1> QED BY <1>1, <1>4, <1>5 DEF ListInv, WasShown, AddressIsShown, Url

\* A request gets on, a table that was shown remains so.
LEMMA FetchSet ==
  ASSUME ListTypeOK, NEW n \in DOMAIN fetches, NEW f \in FetchType, fetches' = [fetches EXCEPT ![n] = f]
  PROVE  /\ fetches' \in Seq(FetchType) /\ fetches' # << >>
         /\ DOMAIN fetches' = DOMAIN fetches /\ Len(fetches') = Len(fetches)
         /\ fetches'[n] = f /\ \A m \in DOMAIN fetches \ {n} : fetches'[m] = fetches[m]
         /\ fetches[n].step # "over" => \A m : WasShown(m) => WasShown(m)'
<1>1. fetches \in Seq(FetchType)
  BY DEF ListTypeOK
<1>2. /\ fetches' \in Seq(FetchType) /\ DOMAIN fetches' = DOMAIN fetches /\ Len(fetches') = Len(fetches)
      /\ fetches'[n] = f /\ \A m \in DOMAIN fetches \ {n} : fetches'[m] = fetches[m]
  BY <1>1
<1>3. fetches' # << >>
  BY <1>2
<1>4. ASSUME fetches[n].step # "over", NEW m, WasShown(m) PROVE WasShown(m)'
  BY <1>2, <1>4 DEF WasShown
<1> QED BY <1>2, <1>3, <1>4

LEMMA ServeListInv ==
  ASSUME ListInv, NEW n, ServeList(n)
  PROVE  ListInv'
<1>1. ListTypeOK /\ n \in DOMAIN fetches /\ fetches[n].step = "asked" /\ fetches[n] \in FetchType
      /\ UNCHANGED <<sortedBy, clockNow, list, loading, shown, walk>> /\ FetchStands(fetches[n])
  BY FetchTyped DEF ListInv, ServeList
<1>2. PICK q \in Queries : q = fetches[n].url
  BY <1>1, ServedType
<1>3. PICK a : a = CursorQuery(q)
  OBVIOUS
<1>4. PICK owed : owed = {Key(r) : r \in {x \in ListedRows : Matches(q.filter, x)}}
  OBVIOUS
<1>5. /\ a \in Pages /\ a.items \subseteq Where(q) /\ (Where(q) # {} => a.items # {})
      /\ a.next \in a.items \cup {NoKey} /\ \A k \in a.items : ~ Older(k, a.next)
      /\ a.prev \in a.items \cup {NoKey} /\ (a.prev # NoKey => \A k \in a.items : ~ Older(a.prev, k))
      /\ q.dir # "before" => \A k \in Where(q) : k \in a.items \/ (a.next # NoKey /\ Older(k, a.next))
      /\ q.dir = "before" /\ a.items # {} => a.next # NoKey
      /\ q.dir = "first" => a.prev = NoKey
      /\ q.dir = "before" /\ a.prev # NoKey => \E k \in Where(q) : Older(a.prev, k)
  BY <1>1, <1>3, QueryAnswers DEF ListTypeOK
<1>6. /\ Where(q) \in SUBSET Keys
      /\ \A k \in Where(q) : /\ sortedBy[k[2]] = k[1] /\ About(q, k[2]) /\ Beyond(q, k)
      /\ \A r \in ListedRows : About(q, r) /\ Beyond(q, Key(r)) => Key(r) \in Where(q)
  BY <1>1, KeysOfQuery DEF ListTypeOK
<1>7. \A r \in ListedRows : /\ r \in Ids /\ sortedBy[r] \in Nat /\ Key(r) \in Keys
                            /\ Key(r)[1] = sortedBy[r] /\ Key(r)[2] = r
  BY <1>1 DEF ListTypeOK, RowsTyped, ListedRows, Key, Keys
<1>8. PICK f : f = [step |-> "served", url |-> q, from |-> fetches[n].from, answer |-> a, owed |-> owed]
  OBVIOUS
<1>9. f \in FetchType /\ f.step = "served" /\ f.url = q /\ f.from = fetches[n].from /\ f.answer = a /\ f.owed = owed
      /\ f.url = fetches[n].url
  <2>1. owed \in SUBSET Keys
    BY <1>4, <1>7
  <2>2. fetches[n].from \in Nat
    BY <1>1, ServedType
  <2> QED BY <1>2, <1>5, <1>8, <2>1, <2>2 DEF FetchType
<1>10. fetches' = [fetches EXCEPT ![n] = f]
  BY <1>2, <1>3, <1>4, <1>8 DEF ServeList
<1>11. /\ fetches' \in Seq(FetchType) /\ fetches' # << >>
       /\ DOMAIN fetches' = DOMAIN fetches /\ Len(fetches') = Len(fetches)
       /\ fetches'[n] = f /\ \A m \in DOMAIN fetches \ {n} : fetches'[m] = fetches[m]
       /\ \A m : WasShown(m) => WasShown(m)'
  BY <1>1, <1>9, <1>10, FetchSet
<1>12. AnswerStands(f)
  <2>1. \A k \in a.items : sortedBy[k[2]] \in Int /\ WasRow(k) /\ About(q, k[2]) /\ Beyond(q, k)
    <3>1. \A k \in a.items : k \in Keys /\ sortedBy[k[2]] = k[1] /\ About(q, k[2]) /\ Beyond(q, k)
      BY <1>5, <1>6
    <3> QED BY <3>1 DEF WasRow, Keys
  <2>2. PageOf(q, a)
    BY <1>5, <2>1 DEF PageOf
  <2>3. \A k \in owed : WasRow(k) /\ Matches(q.filter, k[2])
    BY <1>4, <1>7 DEF WasRow
  <2>4. \A k \in a.items : /\ ~ Older(k, a.next)
                           /\ q.dir = "after" => Older(k, q.cursor)
                           /\ q.dir = "before" => Older(q.cursor, k)
    BY <1>5, <2>1 DEF Beyond
  <2>5. ASSUME q.dir = "first", NEW k \in owed PROVE k \in a.items \/ (a.next # NoKey /\ Older(k, a.next))
    <3>1. k \in Where(q)
      BY <1>4, <1>6, <2>5 DEF About, Beyond
    <3> QED BY <3>1, <1>5, <2>5
  <2>6. ASSUME q.dir = "before", a.prev # NoKey PROVE RowAhead(q.filter, a.prev)
    <3>1. PICK k \in Where(q) : Older(a.prev, k)
      BY <1>5, <2>6
    <3>2. k \in Keys /\ sortedBy[k[2]] = k[1] /\ About(q, k[2])
      BY <1>6
    <3>3. k[2] \in ListedRows /\ Key(k[2]) = k
      BY <3>2 DEF Keys, ListedRows, Key, NotListed
    <3> QED BY <3>1, <3>2, <3>3 DEF RowAhead, About
  <2> QED BY <1>5, <1>9, <2>2, <2>3, <2>4, <2>5, <2>6 DEF AnswerStands
<1>13. ASSUME ~ walk.broken PROVE GoesOn(f)
  <2>1. TableStands
    BY <1>13 DEF ListInv
  <2> SUFFICES ASSUME f.from = shown.number, q.filter = shown.url.filter
               PROVE  /\ q.dir = "after" /\ q.cursor = shown.next =>
                           \A k \in walk.owed : \/ Moved(k) \/ ~ Older(k, q.cursor) \/ k \in a.items
                                                \/ a.next # NoKey /\ Older(k, a.next)
                      /\ q.dir = "before" /\ q.cursor = shown.prev => a.items # {}
    BY <1>9 DEF GoesOn
  <2>2. ASSUME q.dir = "after", NEW k \in walk.owed, ~ Moved(k), Older(k, q.cursor)
        PROVE  k \in a.items \/ (a.next # NoKey /\ Older(k, a.next))
    <3>1. k \in Keys /\ Matches(q.filter, k[2]) /\ sortedBy[k[2]] = k[1]
      BY <1>1, <2>1, <2>2, TableTyped DEF TableStands, Moved
    <3>2. k[2] \in ListedRows /\ Key(k[2]) = k
      BY <3>1 DEF Keys, ListedRows, Key, NotListed
    <3>3. k \in Where(q)
      BY <1>6, <2>2, <3>1, <3>2 DEF About, Beyond
    <3> QED BY <3>3, <1>5, <2>2
  <2>3. ASSUME q.dir = "before", q.cursor = shown.prev PROVE a.items # {}
    <3>1. shown.prev # NoKey
      BY <1>1, <1>2, <2>3 DEF FetchStands
    <3>2. PICK r \in ListedRows : (Matches(q.filter, r) \/ q.filter = "or") /\ Older(q.cursor, Key(r))
      BY <2>1, <2>3, <3>1 DEF TableStands, RowAhead
    <3>3. Key(r) \in Where(q)
      BY <1>6, <2>3, <3>2 DEF About, Beyond
    <3> QED BY <3>3, <1>5
  <2> QED BY <2>2, <2>3
<1>14. AnswerStands(f)'
  <2>1. RowsTyped /\ \A r \in Ids : sortedBy[r] \in Int
    BY <1>1 DEF ListTypeOK, RowsTyped, NotListed
  <2>2. RowsTyped' /\ \A r \in Ids : sortedBy[r] <= sortedBy'[r]
    BY <1>1, <2>1 DEF RowsTyped
  <2> QED BY <1>9, <1>12, <2>1, <2>2, AnswerKept
<1>15. ASSUME NEW m \in DOMAIN fetches PROVE FetchStands(fetches[m])'
  <2>1. CASE m = n
    <3>1. (walk.broken \/ GoesOn(f))'
      BY <1>1, <1>13 DEF GoesOn, Moved
    <3>2. WasShown(f.from)' /\ (f.url.dir = "before" => f.url.cursor # NoKey)
      BY <1>1, <1>9, <1>11 DEF FetchStands
    <3> QED BY <2>1, <3>1, <3>2, <1>11, <1>14 DEF FetchStands
  <2>2. CASE m # n
    <3>1. PICK g : g = fetches[m]
      OBVIOUS
    <3>2. fetches'[m] = g /\ FetchStands(g) /\ g \in FetchType
      BY <2>2, <3>1, <1>1, <1>11, FetchTyped DEF ListInv
    <3>3. FetchStands(g)'
      BY <3>2, <1>1, <1>11, AnswerKept DEF FetchStands, AnswerStands, GoesOn, PageOf, RowAhead, ListedRows, Key,
         WasRow, Moved, About, Matches
    <3> QED BY <3>2, <3>3
  <2> QED BY <2>1, <2>2
<1>16. walk'.broken \/ TableStands'
  BY <1>1 DEF ListInv, TableStands, PageOf, RowAhead, ListedRows, Key, WasRow, Moved, About, Matches
<1>17. ListTypeOK'
  BY <1>1, <1>11 DEF ListTypeOK, RowsTyped
<1>18. AddressIsShown'
  <2>1. Len(fetches) \in DOMAIN fetches
    BY <1>1, FetchTyped
  <2>2. fetches'[Len(fetches')].url = fetches[Len(fetches)].url
        /\ (fetches'[Len(fetches')].step = "over" => fetches[Len(fetches)].step = "over")
    BY <2>1, <1>9, <1>11
  <2> QED BY <2>2, <1>1 DEF ListInv, AddressIsShown, Url
<1>19. WasShown(shown.number)'
  BY <1>1, <1>11 DEF ListInv
<1> QED BY <1>11, <1>15, <1>16, <1>17, <1>18, <1>19 DEF ListInv

\* While the rows, the table and the walk are left alone.
LEMMA OthersStand ==
  ASSUME UNCHANGED <<sortedBy, shown, walk>>, \A m : WasShown(m) => WasShown(m)'
  PROVE  /\ \A g : FetchStands(g) => FetchStands(g)'
         /\ walk.broken \/ TableStands => walk'.broken \/ TableStands'
<1> USE DEF PageOf, RowAhead, ListedRows, Key, WasRow, Moved, About, Matches
<1>1. ASSUME NEW g, FetchStands(g) PROVE FetchStands(g)'
  BY <1>1 DEF FetchStands, AnswerStands, GoesOn
<1>2. walk.broken \/ TableStands => walk'.broken \/ TableStands'
  BY DEF TableStands
<1> QED BY <1>1, <1>2

LEMMA GoToInv ==
  ASSUME ListInv, NEW q \in Queries, q.dir = "before" => q.cursor # NoKey, GoTo(q)
  PROVE  ListInv'
<1>1. ListTypeOK /\ UNCHANGED <<sortedBy, clockNow, list, shown, walk>>
  BY DEF ListInv, GoTo
<1>2. PICK f : f = Requested(q, shown.number)
  OBVIOUS
<1>3. f \in FetchType /\ f.step = "asked" /\ f.url = q /\ f.from = shown.number
  BY <1>1, <1>2, TableTyped DEF Requested, FetchType
<1>4. fetches' = Append(fetches, f) /\ fetches \in Seq(FetchType)
  BY <1>1, <1>2 DEF GoTo, ListTypeOK
<1>5. /\ fetches' \in Seq(FetchType) /\ fetches' # << >> /\ Len(fetches') = Len(fetches) + 1
      /\ DOMAIN fetches' = 1 .. Len(fetches) + 1 /\ DOMAIN fetches = 1 .. Len(fetches) /\ Len(fetches) \in Nat
      /\ \A m \in DOMAIN fetches : fetches'[m] = fetches[m]
      /\ fetches'[Len(fetches) + 1] = f
  BY <1>3, <1>4
<1>6. \A m : WasShown(m) => WasShown(m)'
  BY <1>5 DEF WasShown
<1>7. ASSUME NEW m \in 1 .. Len(fetches) + 1 PROVE FetchStands(fetches[m])'
  <2>1. CASE m \in DOMAIN fetches
    <3>1. PICK g : g = fetches[m]
      OBVIOUS
    <3>2. fetches'[m] = g /\ FetchStands(g)
      BY <2>1, <3>1, <1>5 DEF ListInv
    <3> QED BY <3>2, <1>1, <1>6, OthersStand
  <2>2. CASE m = Len(fetches) + 1
    BY <2>2, <1>1, <1>3, <1>5, <1>6 DEF FetchStands, ListInv
  <2> QED BY <2>1, <2>2, <1>5
<1>8. walk'.broken \/ TableStands'
  BY <1>1, <1>6, OthersStand DEF ListInv
<1>9. ListTypeOK'
  BY <1>1, <1>5 DEF ListTypeOK, RowsTyped
<1>10. AddressIsShown' /\ WasShown(shown.number)'
  BY <1>1, <1>3, <1>5, <1>6 DEF ListInv, AddressIsShown
<1> QED BY <1>5, <1>7, <1>8, <1>9, <1>10 DEF ListInv

\* A request is over and nobody looks at its answer.
LEMMA DropInv ==
  ASSUME ListInv, NEW n \in DOMAIN fetches, NEW s \in {"over", "failed"},
         fetches[n].step \in {"asked", "served"}, s = "over" => n # Len(fetches),
         fetches' = [fetches EXCEPT ![n] = [step |-> s, url |-> fetches[n].url]],
         UNCHANGED <<sortedBy, clockNow, list, shown, walk>>
  PROVE  ListInv'
<1>1. ListTypeOK /\ fetches[n] \in FetchType /\ FetchStands(fetches[n])
  BY FetchTyped DEF ListInv
<1>2. PICK f : f = [step |-> s, url |-> fetches[n].url]
  OBVIOUS
<1>3. f \in FetchType /\ f.step = s /\ f.url = fetches[n].url
  BY <1>1, <1>2, ServedType DEF FetchType
<1>4. /\ fetches' \in Seq(FetchType) /\ fetches' # << >>
      /\ DOMAIN fetches' = DOMAIN fetches /\ Len(fetches') = Len(fetches)
      /\ fetches'[n] = f /\ \A m \in DOMAIN fetches \ {n} : fetches'[m] = fetches[m]
      /\ \A m : WasShown(m) => WasShown(m)'
  <2>1. fetches[n].step # "over"
    OBVIOUS
  <2> QED BY <1>1, <1>2, <1>3, <2>1, FetchSet
<1>5. ASSUME NEW m \in DOMAIN fetches PROVE FetchStands(fetches[m])'
  <2>1. CASE m = n
    BY <2>1, <1>1, <1>3, <1>4 DEF FetchStands
  <2>2. CASE m # n
    <3>1. PICK g : g = fetches[m]
      OBVIOUS
    <3>2. fetches'[m] = g /\ FetchStands(g)
      BY <2>2, <3>1, <1>4 DEF ListInv
    <3> QED BY <3>2, <1>4, OthersStand
  <2> QED BY <2>1, <2>2
<1>6. walk'.broken \/ TableStands'
  BY <1>4, OthersStand DEF ListInv
<1>7. ListTypeOK'
  BY <1>1, <1>4 DEF ListTypeOK, RowsTyped
<1>8. AddressIsShown'
  <2>1. Len(fetches) \in DOMAIN fetches
    BY <1>1, FetchTyped
  <2>2. fetches'[Len(fetches')].url = fetches[Len(fetches)].url
        /\ (fetches'[Len(fetches')].step = "over" => fetches[Len(fetches)].step = "over")
    BY <2>1, <1>3, <1>4
  <2> QED BY <2>2 DEF ListInv, AddressIsShown, Url
<1> QED BY <1>4, <1>5, <1>6, <1>7, <1>8 DEF ListInv

\* The answer that is shown: its page, and the walk with it.
LEMMA ShowInv ==
  ASSUME ListInv, NEW n \in DOMAIN fetches, fetches[n].step = "served",
         list.guarded => n = Len(fetches),
         Show(n), Over(n), UNCHANGED <<sortedBy, clockNow, list>>
  PROVE  ListInv'
<1>1. ListTypeOK /\ fetches[n] \in FetchType /\ FetchStands(fetches[n])
  BY FetchTyped DEF ListInv
<1>2. PICK f : f = fetches[n]
  OBVIOUS
<1>3. PICK q \in Queries : q = f.url
  BY <1>1, <1>2, ServedType
<1>4. PICK a \in Pages : a = f.answer
  BY <1>1, <1>2, ServedType
<1>5. /\ f \in FetchType /\ f.step = "served" /\ q.cursor \in Cursors /\ f.from \in Nat
      /\ a.items \in SUBSET Keys /\ a.next \in Cursors /\ a.prev \in Cursors /\ f.owed \in SUBSET Keys
  BY <1>1, <1>2, <1>3, <1>4, ServedType
<1>6. AnswerStands(f) /\ (walk.broken \/ GoesOn(f)) /\ WasShown(f.from)
  BY <1>1, <1>2, <1>5 DEF FetchStands
<1>7. shown' = [url |-> q, items |-> a.items, next |-> a.next, prev |-> a.prev, number |-> n] /\ walk' = Walked(f)
  BY <1>2, <1>3, <1>4 DEF Show
<1>8. PICK over : over = [step |-> "over", url |-> q]
  OBVIOUS
<1>9. over \in FetchType /\ over.step = "over" /\ over.url = q
  BY <1>8 DEF FetchType
<1>10. /\ fetches' \in Seq(FetchType) /\ fetches' # << >>
       /\ DOMAIN fetches' = DOMAIN fetches /\ Len(fetches') = Len(fetches)
       /\ fetches'[n] = over /\ \A m \in DOMAIN fetches \ {n} : fetches'[m] = fetches[m]
       /\ \A m : WasShown(m) => WasShown(m)'
  <2>1. fetches' = [fetches EXCEPT ![n] = over] /\ fetches[n].step # "over"
    BY <1>2, <1>3, <1>8 DEF Over
  <2> QED BY <1>1, <1>9, <2>1, FetchSet
<1>11. n \in Nat /\ n # 0
  BY <1>1, FetchTyped
<1>12. /\ shown'.url = q /\ shown'.items = a.items /\ shown'.next = a.next /\ shown'.prev = a.prev
       /\ shown'.number = n /\ shown' \in TableType
  BY <1>5, <1>7, <1>11 DEF TableType
<1>13. /\ walk.owed \in SUBSET Keys /\ walk.seen \in SUBSET Keys /\ walk.twice \in BOOLEAN /\ walk.broken \in BOOLEAN
       /\ walk = [owed |-> walk.owed, seen |-> walk.seen, twice |-> walk.twice, broken |-> walk.broken]
       /\ shown.next \in Cursors /\ shown.prev \in Cursors /\ shown.items \in SUBSET Keys
  BY <1>1, TableTyped DEF ListTypeOK
<1> DEFINE follows == f.from = shown.number /\ q.filter = shown.url.filter
<1>14. \/ q.dir = "first" /\ walk' = [owed |-> f.owed, seen |-> a.items, twice |-> FALSE, broken |-> FALSE]
       \/ /\ q.dir = "after" /\ follows /\ q.cursor = shown.next
          /\ walk' = [owed |-> walk.owed, seen |-> walk.seen \cup a.items,
                      twice |-> walk.twice \/ a.items \cap walk.seen # {}, broken |-> walk.broken]
       \/ /\ q.dir = "before" /\ follows /\ q.cursor = shown.prev
          /\ walk' = [owed |-> walk.owed, seen |-> {k \in walk.seen \cup a.items : ~ Older(k, a.next)},
                      twice |-> walk.twice, broken |-> walk.broken]
       \/ walk' = [owed |-> walk.owed, seen |-> walk.seen, twice |-> walk.twice, broken |-> TRUE]
  <2>1. CASE q.dir = "first"
    BY <2>1, <1>3, <1>4, <1>7 DEF Walked
  <2>2. CASE q.dir = "after" /\ follows /\ q.cursor = shown.next
    BY <2>2, <1>3, <1>4, <1>7, <1>13 DEF Walked
  <2>3. CASE q.dir = "before" /\ follows /\ q.cursor = shown.prev
    BY <2>3, <1>3, <1>4, <1>7, <1>13 DEF Walked
  <2>4. CASE ~ (q.dir = "first") /\ ~ (q.dir = "after" /\ follows /\ q.cursor = shown.next)
             /\ ~ (q.dir = "before" /\ follows /\ q.cursor = shown.prev)
    BY <2>4, <1>3, <1>4, <1>7, <1>13 DEF Walked
  <2> QED BY <2>1, <2>2, <2>3, <2>4
<1>15. walk' \in [owed : SUBSET Keys, seen : SUBSET Keys, twice : BOOLEAN, broken : BOOLEAN]
  <2>1. /\ walk.seen \cup a.items \in SUBSET Keys /\ (walk.twice \/ a.items \cap walk.seen # {}) \in BOOLEAN
        /\ {k \in walk.seen \cup a.items : ~ Older(k, a.next)} \in SUBSET Keys
    BY <1>5, <1>13
  <2>2. PICK owed \in SUBSET Keys, seen \in SUBSET Keys, twice \in BOOLEAN, broken \in BOOLEAN :
          walk' = [owed |-> owed, seen |-> seen, twice |-> twice, broken |-> broken]
    <3>1. f.owed \in SUBSET Keys /\ a.items \in SUBSET Keys
      BY <1>5
    <3>2. CASE walk' = [owed |-> f.owed, seen |-> a.items, twice |-> FALSE, broken |-> FALSE]
      BY <3>1, <3>2, Zenon
    <3>3. CASE walk' = [owed |-> walk.owed, seen |-> walk.seen \cup a.items,
                        twice |-> walk.twice \/ a.items \cap walk.seen # {}, broken |-> walk.broken]
      BY <2>1, <3>3, <1>13, Zenon
    <3>4. CASE walk' = [owed |-> walk.owed, seen |-> {k \in walk.seen \cup a.items : ~ Older(k, a.next)},
                        twice |-> walk.twice, broken |-> walk.broken]
      BY <2>1, <3>4, <1>13, Zenon
    <3>5. CASE walk' = [owed |-> walk.owed, seen |-> walk.seen, twice |-> walk.twice, broken |-> TRUE]
      BY <3>5, <1>13, Zenon
    <3> QED BY <1>14, <3>2, <3>3, <3>4, <3>5
  <2> QED BY <2>2
<1>16. ListTypeOK'
  BY <1>1, <1>10, <1>12, <1>15 DEF ListTypeOK, RowsTyped
<1>17. AddressIsShown' /\ WasShown(shown.number)'
  <2>1. WasShown(n)'
    BY <1>9, <1>10 DEF WasShown
  <2>2. list'.guarded => fetches'[Len(fetches')].url = q
    BY <1>9, <1>10
  <2> QED BY <2>1, <2>2, <1>12 DEF AddressIsShown, Url
\* What is still to come was not asked for from the page that is shown now.
<1>18. ASSUME NEW m \in DOMAIN fetches PROVE FetchStands(fetches[m])'
  <2>1. CASE m = n
    BY <2>1, <1>1, <1>2, <1>3, <1>9, <1>10 DEF FetchStands
  <2>2. CASE m # n
    <3>1. PICK g : g = fetches[m]
      OBVIOUS
    <3>2. fetches'[m] = g /\ FetchStands(g) /\ g \in FetchType
      BY <2>2, <3>1, <1>1, <1>10, FetchTyped DEF ListInv
    <3>3. ASSUME g.step = "served" PROVE AnswerStands(g)'
      BY <3>2, <3>3 DEF FetchStands, AnswerStands, PageOf, RowAhead, ListedRows, Key, WasRow, About, Matches
    <3>4. ASSUME g.step = "served" PROVE GoesOn(g)'
      <4>1. WasShown(g.from)
        BY <3>2, <3>4 DEF FetchStands
      <4>2. g.from # n
        BY <4>1, <1>11 DEF WasShown
      <4> QED BY <4>2, <1>12 DEF GoesOn
    <3>5. FetchStands(g)'
      BY <3>2, <3>3, <3>4, <1>10 DEF FetchStands
    <3> QED BY <3>2, <3>5
  <2> QED BY <2>1, <2>2
<1>19. ASSUME ~ walk'.broken PROVE TableStands'
  <2>1. /\ \A k : (WasRow(k)' <=> WasRow(k)) /\ (Moved(k)' <=> Moved(k))
        /\ \A k, filter : (RowAhead(filter, k)' <=> RowAhead(filter, k)) /\ (Matches(filter, k)' <=> Matches(filter, k))
        /\ \A r : About(q, r)' <=> About(q, r)
    BY DEF RowAhead, ListedRows, Key, WasRow, Moved, About, Matches
  <2>2. PageOf(shown.url, shown)'
    BY <1>3, <1>4, <1>6, <1>12, <2>1 DEF AnswerStands, PageOf
  <2>3. CASE q.dir = "first" /\ walk' = [owed |-> f.owed, seen |-> a.items, twice |-> FALSE, broken |-> FALSE]
    <3>1. walk'.owed = f.owed /\ walk'.seen = a.items /\ ~ walk'.twice
      BY <2>3
    <3>2. \A k \in f.owed : /\ WasRow(k) /\ Matches(q.filter, k[2])
                            /\ k \in a.items \/ (a.next # NoKey /\ Older(k, a.next))
      BY <2>3, <1>3, <1>4, <1>6 DEF AnswerStands
    <3>3. a.prev = NoKey /\ \A k \in a.items : ~ Older(k, a.next)
      BY <2>3, <1>3, <1>4, <1>6 DEF AnswerStands
    <3> QED BY <3>1, <3>2, <3>3, <2>1, <2>2, <1>12 DEF TableStands
  <2>4. CASE /\ q.dir = "after" /\ follows /\ q.cursor = shown.next
             /\ walk' = [owed |-> walk.owed, seen |-> walk.seen \cup a.items,
                         twice |-> walk.twice \/ a.items \cap walk.seen # {}, broken |-> walk.broken]
    <3>1. walk'.owed = walk.owed /\ walk'.seen = walk.seen \cup a.items /\ ~ walk.broken
          /\ (walk'.twice <=> walk.twice \/ a.items \cap walk.seen # {})
      BY <2>4, <1>19
    <3>2. TableStands /\ GoesOn(f)
      BY <3>1, <1>6 DEF ListInv
    <3>3. \A k \in a.items : Older(k, shown.next) /\ ~ Older(k, a.next)
      BY <2>4, <1>3, <1>4, <1>6 DEF AnswerStands
    <3>4. ~ walk'.twice
      BY <3>1, <3>2, <3>3 DEF TableStands
    <3>5. a.next \in a.items \cup {NoKey} /\ a.prev \in a.items \cup {NoKey}
      BY <1>3, <1>4, <1>6 DEF AnswerStands, PageOf
    <3>6. ASSUME NEW k \in walk.seen PROVE ~ Older(k, a.next)
      <4>1. k \in Keys /\ k \in Cursors /\ ~ Older(k, shown.next)
        BY <3>2, <1>13 DEF TableStands, Cursors
      <4>2. CASE a.next = NoKey
        BY <4>1, <4>2, OlderOrders
      <4>3. CASE a.next \in a.items
        BY <4>1, <4>3, <3>3, <1>5, <1>13, OlderOrders
      <4> QED BY <4>2, <4>3, <3>5
    <3>7. ASSUME NEW k \in walk.owed
          PROVE  /\ WasRow(k) /\ Matches(q.filter, k[2])
                 /\ k \in walk.seen \cup a.items \/ Moved(k) \/ (a.next # NoKey /\ Older(k, a.next))
      BY <2>4, <3>2, <1>3, <1>4 DEF TableStands, GoesOn
    <3>8. ASSUME a.prev # NoKey PROVE RowAhead(q.filter, a.prev)
      <4>1. a.prev \in a.items /\ Older(a.prev, shown.next) /\ a.prev \in Keys /\ a.prev \in Cursors
        BY <3>3, <3>5, <3>8, <1>5
      <4>2. shown.next # NoKey
        BY <4>1, OlderOrders
      <4>3. shown.next \in shown.items /\ WasRow(shown.next) /\ About(shown.url, shown.next[2])
        BY <4>2, <3>2 DEF TableStands, PageOf
      <4>4. PICK r \in Ids : r = shown.next[2] /\ shown.next = <<shown.next[1], r>> /\ shown.next[1] \in Nat
        BY <4>3, <1>13 DEF Keys
      <4>5. sortedBy[r] \in Nat \cup {NotListed} /\ shown.next[1] <= sortedBy[r]
        BY <4>3, <4>4, <1>1 DEF WasRow, ListTypeOK, RowsTyped
      <4>6. sortedBy[r] \in Nat /\ r \in ListedRows
        BY <4>4, <4>5 DEF NotListed, ListedRows
      <4>7. Key(r) \in Cursors /\ (Key(r) = shown.next \/ Older(shown.next, Key(r)))
        BY <4>4, <4>5, <4>6, ListAssumption DEF Key, Keys, Cursors, Older
      <4>8. Older(a.prev, Key(r))
        BY <4>1, <4>7, <1>13, OlderOrders
      <4> QED BY <2>4, <4>3, <4>4, <4>6, <4>8 DEF RowAhead, About
    <3> QED BY <3>1, <3>3, <3>4, <3>6, <3>7, <3>8, <2>1, <2>2, <1>12 DEF TableStands
  <2>5. CASE /\ q.dir = "before" /\ follows /\ q.cursor = shown.prev
             /\ walk' = [owed |-> walk.owed, seen |-> {k \in walk.seen \cup a.items : ~ Older(k, a.next)},
                         twice |-> walk.twice, broken |-> walk.broken]
    <3>1. /\ walk'.owed = walk.owed /\ walk'.seen = {k \in walk.seen \cup a.items : ~ Older(k, a.next)}
          /\ ~ walk.broken /\ walk'.twice = walk.twice
      BY <2>5, <1>19
    <3>2. TableStands /\ GoesOn(f)
      BY <3>1, <1>6 DEF ListInv
    <3>3. a.items # {} /\ a.next # NoKey /\ (a.prev # NoKey => RowAhead(q.filter, a.prev))
      BY <2>5, <3>2, <1>3, <1>4, <1>6 DEF GoesOn, AnswerStands
    <3>4. a.next \in a.items /\ Older(shown.prev, a.next)
      BY <2>5, <3>3, <1>3, <1>4, <1>6 DEF AnswerStands, PageOf
    <3>5. shown.prev # NoKey
      BY <2>5, <1>1, <1>2, <1>3 DEF FetchStands
    <3>6. shown.prev \in shown.items /\ \A k \in shown.items : ~ Older(shown.prev, k)
      BY <3>2, <3>5 DEF TableStands, PageOf
    <3>7. shown.next # NoKey => Older(shown.next, a.next)
      <4> HAVE shown.next # NoKey
      <4>1. shown.next \in shown.items
        BY <3>2 DEF TableStands, PageOf
      <4>2. shown.next = shown.prev \/ Older(shown.next, shown.prev)
        BY <4>1, <3>6, <1>13, OlderOrders
      <4> QED BY <4>2, <3>4, <1>5, <1>13, OlderOrders
    <3>8. ASSUME NEW k \in walk.owed
          PROVE  /\ WasRow(k) /\ Matches(q.filter, k[2])
                 /\ k \in walk'.seen \/ Moved(k) \/ (a.next # NoKey /\ Older(k, a.next))
      <4>1. /\ WasRow(k) /\ Matches(q.filter, k[2])
            /\ k \in walk.seen \/ Moved(k) \/ (shown.next # NoKey /\ Older(k, shown.next))
        BY <2>5, <3>2 DEF TableStands
      <4>2. k \in Cursors
        BY <1>13 DEF Cursors
      <4>3. shown.next # NoKey /\ Older(k, shown.next) => Older(k, a.next)
        BY <4>2, <3>7, <1>5, <1>13, OlderOrders
      <4> QED BY <4>1, <4>3, <3>1, <3>3
    <3>9. ~ walk'.twice
      BY <3>1, <3>2 DEF TableStands
    <3> QED BY <3>1, <3>3, <3>8, <3>9, <2>1, <2>2, <1>12 DEF TableStands
  <2>6. CASE walk' = [owed |-> walk.owed, seen |-> walk.seen, twice |-> walk.twice, broken |-> TRUE]
    BY <2>6, <1>19
  <2> QED BY <2>3, <2>4, <2>5, <2>6, <1>14
<1> QED BY <1>10, <1>16, <1>17, <1>18, <1>19 DEF ListInv

LEMMA FirstPageTyped ==
  ASSUME NEW filter \in {"none", "field", "or"}
  PROVE  FirstPage(filter) \in Queries /\ FirstPage(filter).dir = "first" /\ NoKey \in Cursors
BY DEF FirstPage, Queries, Cursors

LEMMA FiltersTyped == \A l \in Lists : l.filters \subseteq {"none", "field", "or"}
BY DEF Lists, UsersList, WalletsList, TransactionsList, AuditLogsList, KycProfilesList

LEMMA InitListInv == ListInit => ListInv
<1> SUFFICES ASSUME ListInit PROVE ListInv
  OBVIOUS
<1>1. PICK filter \in {"none", "field", "or"} : fetches = <<Requested(FirstPage(filter), 0)>>
  BY FiltersTyped DEF ListInit
<1>2. PICK f : f = Requested(FirstPage(filter), 0)
  OBVIOUS
<1>3. f \in FetchType /\ f.step = "asked" /\ f.from = 0 /\ f.url.dir = "first"
  BY <1>2, FirstPageTyped DEF Requested, FetchType
<1>4. fetches \in Seq(FetchType) /\ fetches # << >> /\ DOMAIN fetches = {1} /\ fetches[1] = f /\ Len(fetches) = 1
  BY <1>1, <1>2, <1>3
<1>5. shown \in TableType /\ shown.number = 0
  BY FirstPageTyped DEF ListInit, TableType
<1>6. RowsTyped /\ \A r \in Ids : sortedBy[r] <= 0
  BY DEF ListInit, RowsTyped, NotListed
<1>7. ListTypeOK
  BY <1>4, <1>5, <1>6 DEF ListInit, ListTypeOK
<1>8. AddressIsShown
  BY <1>3, <1>4 DEF AddressIsShown
<1>9. \A n \in DOMAIN fetches : FetchStands(fetches[n])
  BY <1>3, <1>4 DEF FetchStands, WasShown
<1>10. walk.broken /\ WasShown(shown.number)
  BY <1>5 DEF ListInit, WasShown
<1> QED BY <1>7, <1>8, <1>9, <1>10 DEF ListInv

LEMMA TableListInv ==
  ASSUME ListInv, TimeTicks \/ \E r \in Ids : TouchRow(r) \/ \E age \in {0, 1} : InsertRow(r, age)
  PROVE  ListInv'
<1>1. RowsTyped /\ clockNow \in Nat /\ \A r \in Ids : sortedBy[r] \in Int /\ sortedBy[r] <= clockNow
  BY DEF ListInv, ListTypeOK, RowsTyped, NotListed
<1>2. CASE TimeTicks
  <2>1. clockNow' = clockNow + 1 /\ UNCHANGED <<sortedBy, list, fetches, loading, shown, walk>>
    BY <1>2 DEF TimeTicks
  <2>2. RowsTyped' /\ clockNow' \in Nat /\ \A r \in Ids : sortedBy[r] <= sortedBy'[r] /\ sortedBy'[r] <= clockNow'
    BY <1>1, <2>1 DEF RowsTyped
  <2> QED BY <2>1, <2>2, RowsListInv
<1>3. ASSUME NEW r \in Ids, TouchRow(r) PROVE ListInv'
  <2>1. sortedBy' = [sortedBy EXCEPT ![r] = clockNow] /\ UNCHANGED <<clockNow, list, fetches, loading, shown, walk>>
    BY <1>3 DEF TouchRow
  <2>2. RowsTyped' /\ clockNow' \in Nat /\ \A s \in Ids : sortedBy[s] <= sortedBy'[s] /\ sortedBy'[s] <= clockNow'
    BY <1>1, <2>1 DEF RowsTyped
  <2> QED BY <2>1, <2>2, RowsListInv
<1>4. ASSUME NEW r \in Ids, NEW age \in {0, 1}, InsertRow(r, age) PROVE ListInv'
  <2>1. /\ sortedBy[r] = -1 /\ clockNow - age >= 0 /\ sortedBy' = [sortedBy EXCEPT ![r] = clockNow - age]
        /\ UNCHANGED <<clockNow, list, fetches, loading, shown, walk>>
    BY <1>4 DEF InsertRow, NotListed
  <2>2. RowsTyped' /\ clockNow' \in Nat /\ \A s \in Ids : sortedBy[s] <= sortedBy'[s] /\ sortedBy'[s] <= clockNow'
    BY <1>1, <2>1 DEF RowsTyped
  <2> QED BY <2>1, <2>2, RowsListInv
<1> QED BY <1>2, <1>3, <1>4

\* Where the buttons, the filters and the browser's Back lead to.
LEMMA AddressListInv ==
  ASSUME ListInv, \/ \E n \in 1 .. MaxFetches : GoBack(n)
                  \/ \E filter \in list.filters : SetFilter(filter)
                  \/ GoNext \/ GoPrev
  PROVE  ListInv'
<1>1. ListTypeOK /\ \A n \in DOMAIN fetches : fetches[n].url \in Queries /\ FetchStands(fetches[n])
  BY FetchTyped, ServedType DEF ListInv
<1>2. Url \in Queries /\ shown.next \in Cursors /\ shown.prev \in Cursors
  BY <1>1, FetchTyped, TableTyped DEF Url
<1>3. ASSUME NEW n, GoBack(n) PROVE ListInv'
  BY <1>1, <1>3, GoToInv DEF GoBack, FetchStands
<1>4. ASSUME NEW filter \in list.filters, SetFilter(filter) PROVE ListInv'
  <2>1. filter \in {"none", "field", "or"}
    BY <1>1, FiltersTyped DEF ListTypeOK
  <2>2. FirstPage(filter) \in Queries /\ FirstPage(filter).dir = "first" /\ GoTo(FirstPage(filter))
    BY <1>4, <2>1, FirstPageTyped DEF SetFilter
  <2> QED BY <2>2, GoToInv
<1>5. CASE GoNext
  <2>1. PICK q : q = Cursored("after", shown.next)
    OBVIOUS
  <2>2. q \in Queries /\ q.dir = "after" /\ GoTo(q)
    BY <1>2, <1>5, <2>1 DEF GoNext, Cursored, Queries
  <2> QED BY <2>2, GoToInv
<1>6. CASE GoPrev
  <2>1. PICK q : q = Cursored("before", shown.prev)
    OBVIOUS
  <2>2. q \in Queries /\ q.cursor # NoKey /\ GoTo(q)
    BY <1>2, <1>6, <2>1 DEF GoPrev, Cursored, Queries
  <2> QED BY <2>2, GoToInv
<1> QED BY <1>3, <1>4, <1>5, <1>6

LEMMA NextListInv == ListInv /\ [ListNext]_listVars => ListInv'
<1> SUFFICES ASSUME ListInv, [ListNext]_listVars PROVE ListInv'
  OBVIOUS
<1>1. CASE TimeTicks \/ \E r \in Ids : TouchRow(r) \/ \E age \in {0, 1} : InsertRow(r, age)
  BY <1>1, TableListInv
<1>2. ASSUME NEW n \in 1 .. MaxFetches, ServeList(n) PROVE ListInv'
  BY <1>2, ServeListInv
<1>3. ASSUME NEW n \in 1 .. MaxFetches, ShowAnswer(n) PROVE ListInv'
  <2>1. n \in DOMAIN fetches /\ fetches[n].step = "served" /\ Over(n) /\ UNCHANGED <<sortedBy, clockNow, list>>
    BY <1>3 DEF ShowAnswer
  <2>2. CASE list.guarded /\ n # Len(fetches)
    BY <2>1, <2>2, <1>3, DropInv DEF ShowAnswer, Over
  <2>3. CASE ~ (list.guarded /\ n # Len(fetches))
    BY <2>1, <2>3, <1>3, ShowInv DEF ShowAnswer
  <2> QED BY <2>2, <2>3
<1>4. ASSUME NEW n \in 1 .. MaxFetches, FetchFails(n) PROVE ListInv'
  <2>1. /\ n \in DOMAIN fetches /\ fetches[n].step \in {"asked", "served"}
        /\ fetches' = [fetches EXCEPT ![n] = [step |-> "failed", url |-> fetches[n].url]]
        /\ UNCHANGED <<sortedBy, clockNow, list, shown, walk>>
    BY <1>4 DEF FetchFails
  <2> QED BY <2>1, DropInv
<1>5. CASE \/ \E n \in 1 .. MaxFetches : GoBack(n)
           \/ \E filter \in list.filters : SetFilter(filter)
           \/ GoNext \/ GoPrev
  BY <1>5, AddressListInv
<1>6. CASE UNCHANGED listVars
  <2>1. RowsTyped /\ \A r \in Ids : sortedBy[r] \in Int
    BY DEF ListInv, ListTypeOK, RowsTyped, NotListed
  <2>2. RowsTyped' /\ clockNow' \in Nat /\ \A r \in Ids : sortedBy[r] <= sortedBy'[r] /\ sortedBy'[r] <= clockNow'
    BY <1>6, <2>1 DEF ListInv, ListTypeOK, RowsTyped, listVars
  <2> QED BY <1>6, <2>2, RowsListInv DEF listVars
<1> QED BY <1>1, <1>2, <1>3, <1>4, <1>5, <1>6 DEF ListNext

LEMMA ListHolds == ListSpec => [](WalkIsWhole /\ AddressIsShown)
<1>1. ListInv => WalkIsWhole /\ AddressIsShown
  BY DEF ListInv, TableStands, PageOf, About, Moved, WalkIsWhole
<1> QED BY <1>1, InitListInv, NextListInv, PTL DEF ListSpec

\* ListsTell (AdminLists): whatever comes into the table meanwhile and in
\* whatever order requests are answered, a walk through the pages of a list
\* misses no row that was there and shows none twice, a page that drops what
\* it has left shows its address, and a dialog tells of the customer it is
\* about; cursorQuery, useListQuery, Users.
THEOREM SpecListsTell == ListSpec /\ DialogSpec => []ListsTell
<1>1. DialogTells /\ NotesBelong /\ WalkIsWhole /\ AddressIsShown => ListsTell
  BY DEF ListsTell
<1> QED BY <1>1, DialogHolds, ListHolds, PTL
=============================================================================
