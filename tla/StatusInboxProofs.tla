------------------------- MODULE StatusInboxProofs -------------------------
(***************************************************************************)
(* For any number of calls, callbacks and drains, and any bounds: one call *)
(* posts the notification, one drain handles an event, and what was        *)
(* acknowledged is stored.                                                 *)
(***************************************************************************)
EXTENDS StatusInbox, TLAPS

\* What a drain handles is claimed.
HandledIsClaimed ==
  \A d \in Drain, e \in Callback : Handling(d, e) => inbox[e].state = "processing"

IInv == TypeOK /\ OneSender /\ HandledIsClaimed /\ OneHandler /\ AckedIsStored
-----------------------------------------------------------------------------
LEMMA Ranks == DOMAIN Rank = {"sent", "delivered", "read", "failed"}
BY DEF Rank

LEMMA InitIInv == Init => IInv
BY OutboxAssumption, InboxAssumption, Ranks
DEF Init, OutboxInit, IInv, TypeOK, OutboxTypeOK, OneSender, HandledIsClaimed, OneHandler,
    AckedIsStored, NoRow, RowStates, InFlight, Handling, Idle, EventStates, Results, HandlerSteps

\* What a call that is posting or attaching knows.
LEMMA SendType ==
  ASSUME OutboxTypeOK, NEW c \in Call
  PROVE  /\ Sends(c, "posting") => send[c].posts \in 0 .. MaxPosts - 1
         /\ Sends(c, "attaching") => send[c].outcome \in Outcomes /\ send[c].id \in Nat
BY DEF OutboxTypeOK, Sends

\* A call that goes on to a well typed state is a well typed call.
LEMMA SendGoesOn ==
  ASSUME OutboxTypeOK, NEW c \in Call, NEW state,
         \/ state \in [step : {"reserving", "claiming", "over"}]
         \/ state \in [step : {"posting"}, posts : 0 .. MaxPosts - 1]
         \/ state \in [step : {"attaching"}, outcome : Outcomes, id : Nat],
         Continue(c, state)
  PROVE  /\ send' \in [Call -> [step : {"reserving", "claiming", "over"}]
                               \cup [step : {"posting"}, posts : 0 .. MaxPosts - 1]
                               \cup [step : {"attaching"}, outcome : Outcomes, id : Nat]]
         /\ send'[c] = state
         /\ \A d \in Call : d # c => send'[d] = send[d]
BY DEF OutboxTypeOK, Continue

\* Every step of a call, and the sweep, keeps the row and the calls well typed.
LEMMA OutboxStepTypeOK ==
  ASSUME OutboxTypeOK, OutboxNext
  PROVE  OutboxTypeOK'
<1> USE OutboxAssumption, Ranks DEF OutboxTypeOK, RowStates, NoRow
<1>1. ASSUME NEW c \in Call, SendStep(c) PROVE OutboxTypeOK'
  <2> USE SendGoesOn DEF Outcomes
  <2>1. CASE Reserve(c)
    BY <2>1 DEF Reserve, EndCall
  <2>2. CASE ClaimForSend(c)
    BY <2>2 DEF ClaimForSend, EndCall
  <2>3. CASE PostAccepted(c) \/ PostRejected(c) \/ PostUnanswered(c)
    BY <2>3 DEF PostAccepted, PostRejected, PostUnanswered, Attaching
  <2>4. CASE PostUnavailable(c)
    BY <2>4, SendType DEF PostUnavailable, Attaching
  <2>5. CASE MarkSent(c)
    BY <2>5, SendType DEF MarkSent, EndCall
  <2>6. CASE MarkSendFailed(c)
    BY <2>6 DEF MarkSendFailed, EndCall
  <2>7. CASE MarkUnresolved(c)
    BY <2>7 DEF MarkUnresolved, Unresolved, EndCall
  <2> QED BY <1>1, <2>1, <2>2, <2>3, <2>4, <2>5, <2>6, <2>7 DEF SendStep
<1>2. ASSUME NEW c \in Call, CallDies(c) PROVE OutboxTypeOK'
  BY <1>2, SendGoesOn DEF CallDies, EndCall
<1>3. CASE Sweep
  BY <1>3 DEF Sweep, Unresolved
<1> QED BY <1>1, <1>2, <1>3 DEF OutboxNext

\* No step of a call lets a second one in: the row leaves queued with the
\* claim and never returns to it.
LEMMA OutboxStepOneSender ==
  ASSUME OutboxTypeOK, OneSender, OutboxNext
  PROVE  OneSender'
<1> USE Ranks DEF OutboxTypeOK, OneSender, InFlight, Sends
<1>1. ASSUME NEW c \in Call, SendStep(c) PROVE OneSender'
  <2> USE SendGoesOn
  <2>1. CASE Reserve(c)
    BY <2>1 DEF Reserve, EndCall, Continue, NoRow
  <2>2. CASE ClaimForSend(c)
    BY <2>2 DEF ClaimForSend, EndCall, Continue
  <2>3. CASE PostAccepted(c) \/ PostRejected(c) \/ PostUnanswered(c)
    BY <2>3 DEF PostAccepted, PostRejected, PostUnanswered, Attaching, Continue
  <2>4. CASE PostUnavailable(c)
    BY <2>4 DEF PostUnavailable, Attaching, Continue
  <2>5. CASE MarkSent(c)
    BY <2>5 DEF MarkSent, EndCall, Continue
  <2>6. CASE MarkSendFailed(c)
    <3>1. notification'.status = "failed" /\ accepted' = accepted
      BY <2>6 DEF MarkSendFailed
    <3> QED BY <2>6, <3>1 DEF MarkSendFailed, EndCall, Continue
  <2>7. CASE MarkUnresolved(c)
    BY <2>7 DEF MarkUnresolved, Unresolved, EndCall, Continue
  <2> QED BY <1>1, <2>1, <2>2, <2>3, <2>4, <2>5, <2>6, <2>7 DEF SendStep
<1>2. ASSUME NEW c \in Call, CallDies(c) PROVE OneSender'
  BY <1>2 DEF CallDies, EndCall, Continue
<1>3. CASE Sweep
  BY <1>3 DEF Sweep, Unresolved
<1> QED BY <1>1, <1>2, <1>3 DEF OutboxNext
-----------------------------------------------------------------------------
\* What a drain that has listed or claimed something knows.
LEMMA DrainType ==
  ASSUME TypeOK, NEW d \in Drain
  PROVE  /\ Drains(d, "claiming") => drain[d].list \in Lists
         /\ drain[d].step \in HandlerSteps =>
              drain[d] \in [step : HandlerSteps, list : Lists, event : Callback]
BY DEF TypeOK, Drains, Idle, HandlerSteps

\* The drain after one of its steps.
LEMMA GoType ==
  ASSUME TypeOK, NEW d \in Drain, NEW step \in HandlerSteps, Go(d, step),
         drain[d].step \in HandlerSteps
  PROVE  /\ drain' \in [Drain -> {Idle} \cup [step : {"claiming"}, list : Lists]
                                 \cup [step : HandlerSteps, list : Lists, event : Callback]]
         /\ \A c \in Drain, e \in Callback : Handling(c, e)' <=> Handling(c, e)
<1>1. drain[d] \in [step : HandlerSteps, list : Lists, event : Callback]
  BY DrainType
<1>2. /\ [drain[d] EXCEPT !.step = step] \in [step : HandlerSteps, list : Lists, event : Callback]
      /\ drain'[d] = [drain[d] EXCEPT !.step = step]
      /\ \A c \in Drain \ {d} : drain'[c] = drain[c]
  BY <1>1 DEF TypeOK, Go
<1> QED BY <1>1, <1>2 DEF TypeOK, Go, Handling

LEMMA NextEventType ==
  ASSUME TypeOK, NEW d \in Drain, NEW e \in Callback, NextEvent(d, e),
         drain[d].list \in Lists
  PROVE  /\ drain' \in [Drain -> {Idle} \cup [step : {"claiming"}, list : Lists]
                                 \cup [step : HandlerSteps, list : Lists, event : Callback]]
         /\ \A f \in Callback : ~ Handling(d, f)'
         /\ \A c \in Drain \ {d}, f \in Callback : Handling(c, f)' <=> Handling(c, f)
<1> DEFINE rest == [drain[d].list EXCEPT ![e] = -1]
           after == IF rest = Nothing THEN Idle ELSE [step |-> "claiming", list |-> rest]
<1>1. rest \in Lists
  BY DEF Lists
<1>2. after \in {Idle} \cup [step : {"claiming"}, list : Lists]
  BY <1>1
<1>3. /\ drain' = [drain EXCEPT ![d] = after]
      /\ after.step \in {"idle", "claiming"}
  BY DEF NextEvent, Idle
<1> HIDE DEF after
<1> QED BY <1>2, <1>3 DEF TypeOK, Handling, HandlerSteps

\* The verdicts of recordDeliveryStatus.
LEMMA ObjectionType ==
  ASSUME NEW e, NEW row
  PROVE  Objection(e, row) \in Results
BY DEF Objection, Results

\* Every step of the inbox keeps the state well typed.
LEMMA DrainStepTypeOK ==
  ASSUME TypeOK, NEW d \in Drain, DrainStep(d)
  PROVE  TypeOK'
<1> USE OutboxAssumption, InboxAssumption, Ranks
<1>1. ASSUME NEW e \in Callback, ClaimEvent(d, e) PROVE TypeOK'
  <2>1. drain[d].list \in Lists
    BY <1>1, DrainType DEF ClaimEvent
  <2>2. CASE Waiting(e)
    <3>1. [step |-> "inserting", list |-> drain[d].list, event |-> e]
            \in [step : HandlerSteps, list : Lists, event : Callback]
      BY <2>1 DEF HandlerSteps
    <3>2. inbox' \in [Callback -> [state : EventStates, attempts : Nat]]
      <4>1. [state |-> "processing", attempts |-> inbox[e].attempts + 1]
              \in [state : EventStates, attempts : Nat]
        BY DEF TypeOK, EventStates
      <4> QED BY <1>1, <2>2, <4>1 DEF ClaimEvent, TypeOK
    <3>3. drain' \in [Drain -> {Idle} \cup [step : {"claiming"}, list : Lists]
                              \cup [step : HandlerSteps, list : Lists, event : Callback]]
      BY <1>1, <2>2, <3>1 DEF ClaimEvent, TypeOK
    <3>4. UNCHANGED <<outboxVars, recorded, acked, result, lost, faults>>
      BY <1>1 DEF ClaimEvent
    <3> QED BY <3>2, <3>3, <3>4 DEF TypeOK, OutboxTypeOK, outboxVars
  <2>3. CASE ~ Waiting(e)
    BY <1>1, <2>1, <2>3, NextEventType DEF ClaimEvent, TypeOK, OutboxTypeOK, outboxVars
  <2> QED BY <2>2, <2>3
<1>2. CASE InsertStatusEvent(d)
  <2>1. drain[d] \in [step : HandlerSteps, list : Lists, event : Callback]
    BY <1>2, DrainType DEF InsertStatusEvent, Drains, HandlerSteps
  <2> QED BY <1>2, <2>1, GoType
    DEF InsertStatusEvent, Drains, HandlerSteps, Return, Results, TypeOK, OutboxTypeOK, outboxVars
<1>3. CASE FindNotification(d)
  <2>1. drain[d] \in [step : HandlerSteps, list : Lists, event : Callback]
    BY <1>3, DrainType DEF FindNotification, Drains, HandlerSteps
  <2> QED BY <1>3, <2>1, GoType, ObjectionType
    DEF FindNotification, Drains, HandlerSteps, Return, TypeOK, OutboxTypeOK, outboxVars
<1>4. CASE UpdateNotification(d)
  <2>1. drain[d] \in [step : HandlerSteps, list : Lists, event : Callback]
    BY <1>4, DrainType DEF UpdateNotification, Drains, HandlerSteps
  <2>2. drain[d].event.status \in DOMAIN Rank /\ Stamp[drain[d].event.status] \in 0 .. MaxStamp
    BY <2>1
  <2>3. OutboxTypeOK'
    BY <1>4, <2>2 DEF UpdateNotification, TypeOK, OutboxTypeOK, RowStates
  <2> QED BY <1>4, <2>1, <2>3, GoType
    DEF UpdateNotification, Drains, HandlerSteps, Return, Results, TypeOK
<1>5. CASE MarkProcessed(d)
  <2>1. drain[d] \in [step : HandlerSteps, list : Lists, event : Callback]
    BY <1>5, DrainType DEF MarkProcessed, Drains, HandlerSteps
  <2> QED BY <1>5, <2>1, NextEventType
    DEF MarkProcessed, EventStates, TypeOK, OutboxTypeOK, outboxVars
<1>6. CASE MarkFailed(d)
  <2>1. drain[d] \in [step : HandlerSteps, list : Lists, event : Callback]
    BY <1>6, DrainType DEF MarkFailed, Drains, HandlerSteps
  <2> QED BY <1>6, <2>1, NextEventType, SMTT(60)
    DEF MarkFailed, EventStates, TypeOK, OutboxTypeOK, outboxVars
<1> QED BY <1>1, <1>2, <1>3, <1>4, <1>5, <1>6 DEF DrainStep

LEMMA StepTypeOK ==
  ASSUME TypeOK, Next
  PROVE  TypeOK'
<1> USE InboxAssumption
<1>1. CASE OutboxNext /\ UNCHANGED inboxVars
  BY <1>1, OutboxStepTypeOK DEF TypeOK, inboxVars
<1>2. ASSUME NEW batch \in SUBSET Callback, NEW stored \in SUBSET batch, Ingest(batch, stored)
      PROVE  TypeOK'
  BY <1>2, SMTT(60) DEF Ingest, IngestStatusBatch, RecordInboundEvent, TypeOK, OutboxTypeOK, outboxVars, EventStates
<1>3. ASSUME NEW d \in Drain, NEW due \in SUBSET Callback, ListDue(d, due) PROVE TypeOK'
  <2> DEFINE list == [e \in Callback |-> IF e \in due THEN inbox[e].attempts ELSE -1]
  <2>1. [step |-> "claiming", list |-> list] \in [step : {"claiming"}, list : Lists]
    BY DEF TypeOK, Lists
  <2> QED BY <1>3, <2>1 DEF ListDue, TypeOK, OutboxTypeOK, outboxVars
<1>4. ASSUME NEW d \in Drain, DrainStep(d) PROVE TypeOK'
  BY <1>4, DrainStepTypeOK
<1>5. ASSUME NEW d \in Drain, HandlerFails(d) PROVE TypeOK'
  <2>1. drain[d].step \in HandlerSteps
    BY <1>5 DEF HandlerFails
  <2> QED BY <1>5, <2>1, GoType
    DEF HandlerFails, Fault, HandlerSteps, TypeOK, OutboxTypeOK, outboxVars
<1>6. ASSUME NEW d \in Drain, DrainDies(d) PROVE TypeOK'
  BY <1>6 DEF DrainDies, Fault, TypeOK, OutboxTypeOK, outboxVars
<1> QED BY <1>1, <1>2, <1>3, <1>4, <1>5, <1>6 DEF Next
-----------------------------------------------------------------------------
\* The inbox leaves the calls alone, and the statuses it writes to the row are
\* none that a call could claim.
LEMMA StepOneSender ==
  ASSUME IInv, Next
  PROVE  OneSender'
<1> USE DEF OneSender, InFlight
<1>1. CASE OutboxNext /\ UNCHANGED inboxVars
  BY <1>1, OutboxStepOneSender DEF IInv, TypeOK
<1>2. CASE UNCHANGED outboxVars
  BY <1>2 DEF IInv, outboxVars
<1>3. ASSUME NEW d \in Drain, UpdateNotification(d) PROVE OneSender'
  <2>1. drain[d].event \in Callback
    BY <1>3, DrainType DEF IInv, UpdateNotification, Drains, HandlerSteps
  <2>2. notification'.status \notin {"none", "queued"}
    BY <1>3, <2>1, InboxAssumption, Ranks DEF UpdateNotification, IInv, TypeOK, OutboxTypeOK
  <2> QED BY <1>3, <2>2 DEF UpdateNotification, IInv
<1> QED BY <1>1, <1>2, <1>3
  DEF Next, Ingest, IngestStatusBatch, RecordInboundEvent, ListDue, DrainStep, ClaimEvent, InsertStatusEvent, FindNotification,
      MarkProcessed, MarkFailed, HandlerFails, DrainDies

\* Only the drain that claimed an event takes it out of processing.
LEMMA StepOneHandler ==
  ASSUME IInv, Next
  PROVE  HandledIsClaimed' /\ OneHandler' /\ AckedIsStored'
<1> USE DEF HandledIsClaimed, OneHandler, AckedIsStored
<1> DEFINE Goal == HandledIsClaimed' /\ OneHandler' /\ AckedIsStored'
<1>1. CASE OutboxNext /\ UNCHANGED inboxVars
  BY <1>1 DEF IInv, inboxVars, Handling
<1>2. ASSUME NEW batch \in SUBSET Callback, NEW stored \in SUBSET batch, Ingest(batch, stored)
      PROVE  Goal
  BY <1>2 DEF IInv, TypeOK, Ingest, IngestStatusBatch, RecordInboundEvent, Handling
<1>3. ASSUME NEW d \in Drain, NEW due \in SUBSET Callback, ListDue(d, due) PROVE Goal
  BY <1>3, SMTT(60) DEF IInv, TypeOK, ListDue, Drains, Handling, HandlerSteps
<1>4. ASSUME NEW d \in Drain, NEW e \in Callback, ClaimEvent(d, e) PROVE Goal
  <2>1. drain[d].list \in Lists /\ \A f \in Callback : ~ Handling(d, f)
    BY <1>4, DrainType DEF IInv, ClaimEvent, Drains, Handling, HandlerSteps
  <2>2. CASE Waiting(e)
    <3>1. \A c \in Drain : ~ Handling(c, e)
      BY <2>2 DEF IInv, Waiting
    <3>2. /\ \A f \in Callback : Handling(d, f)' <=> f = e
          /\ \A c \in Drain \ {d}, f \in Callback : Handling(c, f)' <=> Handling(c, f)
      BY <1>4, <2>2 DEF ClaimEvent, IInv, TypeOK, Handling, HandlerSteps
    <3>3. inbox'[e].state = "processing" /\ \A f \in Callback \ {e} : inbox'[f] = inbox[f]
      BY <1>4, <2>2 DEF ClaimEvent, IInv, TypeOK
    <3>4. lost' = lost /\ acked' = acked
      BY <1>4 DEF ClaimEvent
    <3>5. HandledIsClaimed'
      BY <2>1, <3>2, <3>3 DEF IInv
    <3>6. AckedIsStored'
      BY <3>3, <3>4 DEF IInv, TypeOK
    <3>7. OneHandler'
      <4>1. ASSUME NEW f \in Callback, NEW c \in Drain, NEW b \in Drain,
                   Handling(c, f)', Handling(b, f)'
            PROVE  c = b
        BY <4>1, <2>1, <3>1, <3>2 DEF IInv
      <4>2. ASSUME NEW f \in Callback, inbox'[f].state = "processing"
            PROVE  f \in lost' \/ \E c \in Drain : Handling(c, f)'
        BY <4>2, <2>1, <3>2, <3>3, <3>4 DEF IInv
      <4> QED BY <4>1, <4>2
    <3> QED BY <3>5, <3>6, <3>7
  <2>3. CASE ~ Waiting(e)
    <3>1. /\ \A f \in Callback : ~ Handling(d, f)'
          /\ \A c \in Drain \ {d}, f \in Callback : Handling(c, f)' <=> Handling(c, f)
      BY <1>4, <2>1, <2>3, NextEventType DEF ClaimEvent, IInv
    <3> QED BY <1>4, <2>1, <2>3, <3>1 DEF ClaimEvent, IInv
  <2> QED BY <2>2, <2>3
<1>5. ASSUME NEW d \in Drain,
             InsertStatusEvent(d) \/ FindNotification(d) \/ UpdateNotification(d) \/ HandlerFails(d)
      PROVE  Goal
  <2>1. \A c \in Drain, f \in Callback : Handling(c, f)' <=> Handling(c, f)
    BY <1>5, GoType
    DEF IInv, InsertStatusEvent, FindNotification, UpdateNotification, HandlerFails, Return,
        Drains, HandlerSteps
  <2> QED BY <1>5, <2>1
    DEF IInv, InsertStatusEvent, FindNotification, UpdateNotification, HandlerFails
<1>6. ASSUME NEW d \in Drain, MarkProcessed(d) \/ MarkFailed(d) PROVE Goal
  <2> DEFINE e == drain[d].event
  <2>1. drain[d].list \in Lists /\ e \in Callback /\ Handling(d, e)
    BY <1>6, DrainType DEF IInv, MarkProcessed, MarkFailed, Drains, HandlerSteps, Handling
  <2>2. NextEvent(d, e)
    BY <1>6 DEF MarkProcessed, MarkFailed
  <2>3. /\ inbox'[e].state \in {"processed", "failed", "dead_letter"}
        /\ \A f \in Callback \ {e} : inbox'[f] = inbox[f]
        /\ lost' = lost /\ acked' = acked
    BY <1>6, <2>1 DEF MarkProcessed, MarkFailed, IInv, TypeOK
  <2>4. /\ \A f \in Callback : ~ Handling(d, f)'
        /\ \A c \in Drain \ {d}, f \in Callback : Handling(c, f)' <=> Handling(c, f)
    BY <2>1, <2>2, NextEventType DEF IInv
  <2>5. \A f \in Callback \ {e} : ~ Handling(d, f)
    BY DEF Handling
  <2> QED BY <2>1, <2>3, <2>4, <2>5, SMTT(60) DEF IInv, TypeOK
<1>7. ASSUME NEW d \in Drain, DrainDies(d) PROVE Goal
  <2>1. /\ \A f \in Callback : ~ Handling(d, f)'
        /\ \A c \in Drain \ {d}, f \in Callback : Handling(c, f)' <=> Handling(c, f)
    BY <1>7 DEF DrainDies, IInv, TypeOK, Handling, Idle, HandlerSteps
  <2> QED BY <1>7, <2>1 DEF DrainDies, IInv
<1> QED BY <1>1, <1>2, <1>3, <1>4, <1>5, <1>6, <1>7 DEF Next, DrainStep

\* The invariant: types, one sender, one drain for what is processing, and
\* nothing acknowledged that is not stored.
THEOREM SpecIInv == Spec => []IInv
<1>1. Init => IInv
  BY InitIInv
<1>2. IInv /\ [Next]_vars => IInv'
  <2> SUFFICES ASSUME IInv, [Next]_vars PROVE IInv'
    OBVIOUS
  <2>1. CASE Next
    BY <2>1, StepTypeOK, StepOneSender, StepOneHandler DEF IInv
  <2>2. CASE UNCHANGED vars
    BY <2>2 DEF IInv, TypeOK, OutboxTypeOK, OneSender, InFlight, HandledIsClaimed, OneHandler,
                AckedIsStored, Handling, vars, outboxVars, inboxVars
  <2> QED BY <2>1, <2>2
<1> QED BY <1>1, <1>2, PTL DEF Spec

\* The rows, calls, events and drains are well typed.
THEOREM SpecTypeOK == Spec => []TypeOK
BY SpecIInv, PTL DEF IInv

\* At most one call with the key posts the message, and a queued row has not
\* been handed to Meta.
THEOREM SpecOneSender == Spec => []OneSender
BY SpecIInv, PTL DEF IInv

\* An event in processing belongs to one drain, or its drain was lost.
THEOREM SpecOneHandler == Spec => []OneHandler
BY SpecIInv, PTL DEF IInv

\* A callback that Meta was told not to send again is in the inbox.
THEOREM SpecAckedIsStored == Spec => []AckedIsStored
BY SpecIInv, PTL DEF IInv
-----------------------------------------------------------------------------
(***************************************************************************)
(* Statuses that were passed over.  The provider id of a row is written    *)
(* once; from then on only drains write the row, each a status of that     *)
(* message which it has recorded.                                          *)
(***************************************************************************)
ProviderIsFinal ==
  notification.provider # 0 =>
    /\ notification.status \in DOMAIN Rank
    /\ \A c \in Call : ~ InFlight(c)

\* A status that is found recorded was recorded by an earlier attempt.
DuplicateIsRetry ==
  /\ \A e \in Callback : /\ e \in recorded => inbox[e].attempts > 0
                         /\ result[e] = "duplicate" => inbox[e].attempts > 1
  /\ \A d \in Drain, e \in Callback : Handling(d, e) =>
       /\ inbox[e].attempts > 0
       /\ Drains(d, "inserting") /\ e \in recorded => inbox[e].attempts > 1

\* A drain about to update has recorded its event and found its message.
UpdaterKnows ==
  \A d \in Drain :
    /\ Drains(d, "finding") \/ Drains(d, "updating") => drain[d].event \in recorded
    /\ Drains(d, "updating") => notification.provider = drain[d].event.id

ProcessedHasResult ==
  /\ \A d \in Drain : Drains(d, "marking") => result[drain[d].event] # "none"
  /\ \A e \in Callback : inbox[e].state = "processed" => result[e] # "none"

\* What was written to the row is there until another status overwrites it.
WrittenUntilNext ==
  \A e \in Callback : result[e] = "recorded" =>
    /\ notification.provider = e.id
    /\ \E f \in recorded : f.id = e.id /\ f.status = notification.status

LossInv ==
  ProviderIsFinal /\ DuplicateIsRetry /\ UpdaterKnows /\ ProcessedHasResult /\ WrittenUntilNext

\* What the calls do to the row and the drains do not: only a call in flight
\* gives the row an id, and then none is left in flight.
LEMMA OutboxKeepsProvider ==
  ASSUME OutboxTypeOK, OneSender, ProviderIsFinal, OutboxNext
  PROVE  /\ ProviderIsFinal'
         /\ notification.provider # 0 => notification' = notification
<1> USE Ranks DEF OutboxTypeOK, OneSender, ProviderIsFinal, InFlight, Sends
<1>1. ASSUME NEW c \in Call, SendStep(c)
      PROVE  ProviderIsFinal' /\ (notification.provider # 0 => notification' = notification)
  <2>1. CASE Reserve(c) \/ ClaimForSend(c)
    BY <2>1 DEF Reserve, ClaimForSend, EndCall, Continue, NoRow
  <2>2. CASE PostAccepted(c) \/ PostRejected(c) \/ PostUnanswered(c) \/ PostUnavailable(c)
    BY <2>2 DEF PostAccepted, PostRejected, PostUnanswered, PostUnavailable
  <2>3. CASE MarkSent(c) \/ MarkSendFailed(c) \/ MarkUnresolved(c)
    <3>1. send'[c].step = "over" /\ \A d \in Call \ {c} : send'[d] = send[d]
      BY <2>3 DEF MarkSent, MarkSendFailed, MarkUnresolved, EndCall, Continue
    <3>2. InFlight(c)
      BY <2>3 DEF MarkSent, MarkSendFailed, MarkUnresolved
    <3>3. \A d \in Call : ~ InFlight(d)'
      BY <3>1, <3>2
    <3>4. notification.provider = 0
      BY <3>2
    <3>5. notification'.status = "sent" \/ notification'.provider = 0
      <4>1. MarkSent(c) => notification'.status = "sent"
        BY DEF MarkSent
      <4>2. MarkSendFailed(c) => notification'.provider = 0
        BY DEF MarkSendFailed
      <4>3. MarkUnresolved(c) => notification'.provider = 0
        BY <3>4 DEF MarkUnresolved, Unresolved
      <4> QED BY <2>3, <4>1, <4>2, <4>3
    <3> QED BY <3>3, <3>4, <3>5
  <2> QED BY <1>1, <2>1, <2>2, <2>3 DEF SendStep
<1>2. ASSUME NEW c \in Call, CallDies(c)
      PROVE  ProviderIsFinal' /\ (notification.provider # 0 => notification' = notification)
  BY <1>2 DEF CallDies, EndCall, Continue
<1>3. CASE Sweep
  BY <1>3 DEF Sweep, Unresolved
<1> QED BY <1>1, <1>2, <1>3 DEF OutboxNext

\* A status is written only to the row of its own message.
LEMMA NoObjection ==
  ASSUME NEW e, NEW row, Objection(e, row) = "none"
  PROVE  row.provider = e.id
BY DEF Objection

LEMMA OutboxKeepsLosses ==
  ASSUME IInv, LossInv, OutboxNext, UNCHANGED inboxVars
  PROVE  LossInv'
<1>1. ProviderIsFinal' /\ (notification.provider # 0 => notification' = notification)
  BY OutboxKeepsProvider DEF IInv, TypeOK, LossInv
<1>2. \A e \in Callback : e.id # 0
  BY InboxAssumption
<1>3. \A d \in Drain : Drains(d, "updating") => drain[d].event \in Callback
  BY DrainType DEF IInv, Drains, HandlerSteps
<1>4. DuplicateIsRetry' /\ ProcessedHasResult'
  BY DEF LossInv, DuplicateIsRetry, ProcessedHasResult, inboxVars, Handling, Drains
<1>5. UpdaterKnows' /\ WrittenUntilNext'
  BY <1>1, <1>2, <1>3 DEF LossInv, UpdaterKnows, WrittenUntilNext, inboxVars, Drains
<1> QED BY <1>1, <1>4, <1>5 DEF LossInv

\* The steps of a drain that holds an event.
LEMMA HandlerKeepsLosses ==
  ASSUME IInv, LossInv, NEW d \in Drain,
         \/ InsertStatusEvent(d) \/ FindNotification(d) \/ UpdateNotification(d)
         \/ HandlerFails(d)
  PROVE  LossInv'
<1> DEFINE e == drain[d].event
<1>1. drain[d] \in [step : HandlerSteps, list : Lists, event : Callback] /\ Handling(d, e)
  BY DrainType DEF IInv, InsertStatusEvent, FindNotification, UpdateNotification, HandlerFails,
    Drains, HandlerSteps, Handling
<1>2. e \in Callback /\ e.id # 0 /\ e.status \in DOMAIN Rank
  BY <1>1, InboxAssumption
<1>3. PICK step \in HandlerSteps : Go(d, step)
  BY DEF InsertStatusEvent, FindNotification, UpdateNotification, HandlerFails, Return, HandlerSteps
<1>4. /\ drain'[d].step = step /\ drain'[d].event = e
      /\ \A c \in Drain \ {d} : drain'[c] = drain[c]
      /\ \A c \in Drain, f \in Callback : Handling(c, f)' <=> Handling(c, f)
  <2>1. drain'[d] = [drain[d] EXCEPT !.step = step] /\ \A c \in Drain \ {d} : drain'[c] = drain[c]
    BY <1>3 DEF Go, IInv, TypeOK
  <2> QED BY <1>1, <1>3, <2>1, GoType DEF IInv
<1>5. \A c \in Drain \ {d} : ~ Handling(c, e)
  BY <1>1, <1>2 DEF IInv, OneHandler
<1>6. inbox' = inbox
  BY DEF InsertStatusEvent, FindNotification, UpdateNotification, HandlerFails
<1>11. \A c \in Drain : Drains(c, "marking") \/ Drains(c, "updating") => drain[c].event \in Callback
  BY DrainType DEF IInv, Drains, HandlerSteps
<1> HIDE DEF e
<1> USE DEF LossInv, IInv, TypeOK
<1>7. CASE InsertStatusEvent(d)
  <2>1. \/ /\ e \in recorded /\ step = "marking" /\ recorded' = recorded
           /\ result' = [result EXCEPT ![e] = "duplicate"]
        \/ e \notin recorded /\ step = "finding" /\ recorded' = recorded \cup {e} /\ result' = result
    BY <1>1, <1>2, <1>3, <1>4, <1>7 DEF InsertStatusEvent, Return, Go, e
  <2>2. drain[d].step = "inserting" /\ UNCHANGED outboxVars
    BY <1>7 DEF InsertStatusEvent, Drains
  <2>3. ProviderIsFinal'
    BY <2>2 DEF ProviderIsFinal, outboxVars, InFlight
  <2>4. DuplicateIsRetry'
    BY <1>1, <1>2, <1>4, <1>5, <1>6, <2>1, <2>2 DEF DuplicateIsRetry, Drains, Handling, HandlerSteps
  <2>5. UpdaterKnows'
    BY <1>4, <2>1, <2>2 DEF UpdaterKnows, Drains, outboxVars
  <2>6. ProcessedHasResult'
    BY <1>2, <1>4, <1>6, <1>11, <2>1, <2>2 DEF ProcessedHasResult, Drains, Results
  <2>7. WrittenUntilNext'
    BY <1>2, <2>1, <2>2 DEF WrittenUntilNext, outboxVars
  <2> QED BY <2>3, <2>4, <2>5, <2>6, <2>7
<1>8. CASE FindNotification(d)
  <2>1. \/ step = "updating" /\ notification.provider = e.id /\ result' = result
        \/ step = "marking" /\ result'[e] \notin {"none", "recorded", "duplicate"}
           /\ \A f \in Callback \ {e} : result'[f] = result[f]
    <3>1. CASE Objection(e, notification) = "none"
      BY <1>1, <1>3, <1>4, <1>8, <3>1, NoObjection DEF FindNotification, Go, e
    <3>2. CASE Objection(e, notification) # "none"
      <4>1. result' = [result EXCEPT ![e] = Objection(e, notification)] /\ step = "marking"
        BY <1>1, <1>4, <1>8, <3>2 DEF FindNotification, Return, Go, e
      <4>2. Objection(e, notification) \notin {"none", "recorded", "duplicate"}
        BY <3>2 DEF Objection
      <4> QED BY <1>2, <4>1, <4>2
    <3> QED BY <3>1, <3>2
  <2>2. drain[d].step = "finding" /\ e \in recorded /\ UNCHANGED <<outboxVars, recorded>>
    BY <1>8 DEF FindNotification, Drains, UpdaterKnows, e
  <2>3. ProviderIsFinal'
    BY <2>2 DEF ProviderIsFinal, outboxVars, InFlight
  <2>4. DuplicateIsRetry'
    BY <1>2, <1>4, <1>5, <1>6, <2>1, <2>2 DEF DuplicateIsRetry, Drains
  <2>5. UpdaterKnows'
    BY <1>4, <2>1, <2>2 DEF UpdaterKnows, Drains, outboxVars
  <2>6. ProcessedHasResult'
    BY <1>2, <1>4, <1>6, <1>11, <2>1, <2>2 DEF ProcessedHasResult, Drains
  <2>7. WrittenUntilNext'
    BY <1>2, <2>1, <2>2 DEF WrittenUntilNext, outboxVars
  <2> QED BY <2>3, <2>4, <2>5, <2>6, <2>7
<1>9. CASE UpdateNotification(d)
  <2>1. /\ step = "marking"
        /\ result' = [result EXCEPT ![e] = "recorded"]
        /\ notification'.status = e.status /\ notification'.provider = notification.provider
        /\ recorded' = recorded /\ send' = send
    BY <1>1, <1>2, <1>3, <1>4, <1>9 DEF UpdateNotification, Return, Go, OutboxTypeOK, e
  <2>2. drain[d].step = "updating" /\ e \in recorded /\ notification.provider = e.id
    BY <1>9 DEF UpdateNotification, Drains, UpdaterKnows, e
  <2>3. ProviderIsFinal'
    BY <1>2, <2>1 DEF ProviderIsFinal, InFlight
  <2>4. DuplicateIsRetry'
    BY <1>2, <1>4, <1>5, <1>6, <2>1, <2>2 DEF DuplicateIsRetry, Drains
  <2>5. UpdaterKnows'
    BY <1>4, <2>1, <2>2 DEF UpdaterKnows, Drains
  <2>6. ProcessedHasResult'
    BY <1>2, <1>4, <1>6, <1>11, <2>1, <2>2 DEF ProcessedHasResult, Drains
  <2>7. WrittenUntilNext'
    BY <1>2, <2>1, <2>2 DEF WrittenUntilNext
  <2> QED BY <2>3, <2>4, <2>5, <2>6, <2>7
<1>10. CASE HandlerFails(d)
  <2>1. step = "failing" /\ UNCHANGED <<outboxVars, recorded, result>>
    BY <1>1, <1>4, <1>10 DEF HandlerFails, Go, e
  <2> QED BY <1>4, <1>6, <2>1 DEF ProviderIsFinal, outboxVars, InFlight, DuplicateIsRetry,
    UpdaterKnows, ProcessedHasResult, WrittenUntilNext, Drains
<1> QED BY <1>7, <1>8, <1>9, <1>10

\* Claims, outcomes and deaths of drains, and what the webhook stores.
LEMMA InboxKeepsLosses ==
  ASSUME IInv, LossInv, Next, UNCHANGED <<outboxVars, recorded, result>>,
         ~ \E d \in Drain : HandlerFails(d)
  PROVE  LossInv'
<1> USE DEF LossInv
<1>1. ProviderIsFinal' /\ WrittenUntilNext'
  BY DEF ProviderIsFinal, WrittenUntilNext, outboxVars, InFlight
<1> DEFINE Kept == /\ \A e \in Callback : inbox'[e].attempts >= inbox[e].attempts
                   /\ \A e \in Callback : inbox'[e].state = "processed" => result[e] # "none"
           Held == \A c \in Drain, f \in Callback : Handling(c, f)' =>
                     Handling(c, f) /\ drain'[c] = drain[c]
<1>2. ASSUME Kept, Held PROVE LossInv'
  <2>1. \A f \in Callback : inbox[f].attempts \in Nat /\ inbox'[f].attempts \in Nat
    BY StepTypeOK DEF IInv, TypeOK
  <2>2. DuplicateIsRetry'
    BY <1>2, <2>1 DEF DuplicateIsRetry, Drains
  <2>3. \A c \in Drain : drain'[c].step \in HandlerSteps =>
          drain'[c] = drain[c] /\ drain[c].event \in Callback
    <3>1. \A c \in Drain : drain'[c].step \in HandlerSteps => drain'[c].event \in Callback
      BY StepTypeOK DEF IInv, TypeOK, Idle, HandlerSteps
    <3> QED BY <1>2, <3>1 DEF Handling
  <2>4. UpdaterKnows' /\ ProcessedHasResult'
    BY <1>2, <2>3 DEF UpdaterKnows, ProcessedHasResult, Drains, HandlerSteps, outboxVars
  <2> QED BY <1>1, <2>2, <2>4
<1>3. CASE UNCHANGED inboxVars
  BY <1>3, <1>2 DEF inboxVars, Handling, IInv, TypeOK, ProcessedHasResult
<1>4. ASSUME NEW batch \in SUBSET Callback, NEW stored \in SUBSET batch, Ingest(batch, stored)
      PROVE  LossInv'
  <2>1. \A e \in Callback : /\ inbox'[e].attempts = inbox[e].attempts
                            /\ inbox'[e].state = "processed" => inbox[e].state = "processed"
    BY <1>4 DEF Ingest, IngestStatusBatch, RecordInboundEvent, IInv, TypeOK
  <2>2. Kept
    BY <2>1 DEF IInv, TypeOK, ProcessedHasResult
  <2>3. Held
    BY <1>4 DEF Ingest, Handling
  <2> QED BY <1>2, <2>2, <2>3
<1>5. ASSUME NEW d \in Drain, NEW due \in SUBSET Callback, ListDue(d, due) PROVE LossInv'
  <2>1. Kept
    BY <1>5 DEF ListDue, IInv, TypeOK, ProcessedHasResult
  <2>2. Held
    BY <1>5 DEF ListDue, IInv, TypeOK, Handling, HandlerSteps
  <2> QED BY <1>2, <2>1, <2>2
<1>6. ASSUME NEW d \in Drain, NEW e \in Callback, ClaimEvent(d, e) PROVE LossInv'
  <2>1. drain[d].list \in Lists
    BY <1>6, DrainType DEF IInv, ClaimEvent
  <2>2. CASE ~ Waiting(e)
    <3>1. /\ \A f \in Callback : ~ Handling(d, f)'
          /\ \A c \in Drain \ {d} : drain'[c] = drain[c]
      BY <1>6, <2>1, <2>2, NextEventType DEF ClaimEvent, NextEvent, IInv, TypeOK
    <3>2. Kept /\ Held
      BY <1>6, <2>2, <3>1 DEF ClaimEvent, Handling, IInv, TypeOK, ProcessedHasResult
    <3> QED BY <1>2, <3>2
  <2>3. CASE Waiting(e)
    <3>1. /\ inbox'[e].state = "processing" /\ inbox'[e].attempts = inbox[e].attempts + 1
          /\ \A f \in Callback \ {e} : inbox'[f] = inbox[f]
      BY <1>6, <2>3 DEF ClaimEvent, IInv, TypeOK
    <3>2. /\ drain'[d].step = "inserting" /\ drain'[d].event = e
          /\ \A c \in Drain \ {d} : drain'[c] = drain[c]
      BY <1>6, <2>3 DEF ClaimEvent, IInv, TypeOK
    <3>3. \A f \in Callback : inbox[f].attempts \in Nat
      BY DEF IInv, TypeOK
    <3>4. \A c \in Drain : ~ Handling(c, e)
      BY <2>3 DEF IInv, HandledIsClaimed, Waiting
    <3>5. DuplicateIsRetry'
      BY <3>1, <3>2, <3>3, <3>4 DEF DuplicateIsRetry, Drains, Handling
    <3>6. UpdaterKnows' /\ ProcessedHasResult'
      BY <3>1, <3>2 DEF UpdaterKnows, ProcessedHasResult, Drains, outboxVars
    <3> QED BY <1>1, <3>5, <3>6
  <2> QED BY <2>2, <2>3
<1>7. ASSUME NEW d \in Drain, MarkProcessed(d) \/ MarkFailed(d) PROVE LossInv'
  <2> DEFINE e == drain[d].event
  <2>1. drain[d].list \in Lists /\ e \in Callback
    BY <1>7, DrainType DEF IInv, MarkProcessed, MarkFailed, Drains, HandlerSteps
  <2>2. /\ \A f \in Callback : ~ Handling(d, f)'
        /\ \A c \in Drain \ {d} : drain'[c] = drain[c]
    <3>1. NextEvent(d, e)
      BY <1>7 DEF MarkProcessed, MarkFailed
    <3> QED BY <2>1, <3>1, NextEventType DEF NextEvent, IInv, TypeOK
  <2>3. Held
    BY <2>2 DEF Handling
  <2>4. /\ \A f \in Callback : inbox'[f].attempts = inbox[f].attempts
        /\ \A f \in Callback \ {e} : inbox'[f] = inbox[f]
        /\ inbox'[e].state = "processed" => Drains(d, "marking")
    BY <1>7, <2>1 DEF MarkProcessed, MarkFailed, IInv, TypeOK
  <2>5. Kept
    BY <2>1, <2>4 DEF IInv, TypeOK, ProcessedHasResult
  <2> QED BY <1>2, <2>3, <2>5
<1>8. ASSUME NEW d \in Drain, DrainDies(d) PROVE LossInv'
  <2>1. Kept
    BY <1>8 DEF DrainDies, IInv, TypeOK, ProcessedHasResult
  <2>2. Held
    BY <1>8 DEF DrainDies, IInv, TypeOK, Handling, Idle, HandlerSteps
  <2> QED BY <1>2, <2>1, <2>2
<1>9. ASSUME NEW d \in Drain, InsertStatusEvent(d) \/ FindNotification(d) \/ UpdateNotification(d)
      PROVE  LossInv'
  BY <1>9, HandlerKeepsLosses
<1> QED BY <1>3, <1>4, <1>5, <1>6, <1>7, <1>8, <1>9 DEF Next, DrainStep

LEMMA StepKeepsLosses ==
  ASSUME IInv, LossInv, Next
  PROVE  LossInv'
<1>1. CASE OutboxNext /\ UNCHANGED inboxVars
  BY <1>1, OutboxKeepsLosses
<1>2. CASE UNCHANGED <<outboxVars, recorded, result>> /\ ~ \E d \in Drain : HandlerFails(d)
  BY <1>2, InboxKeepsLosses
<1>3. ASSUME NEW d \in Drain,
             \/ InsertStatusEvent(d) \/ FindNotification(d) \/ UpdateNotification(d)
             \/ HandlerFails(d)
      PROVE  LossInv'
  BY <1>3, HandlerKeepsLosses
<1> QED BY <1>1, <1>2, <1>3
  DEF Next, DrainStep, Ingest, ListDue, ClaimEvent, MarkProcessed, MarkFailed, DrainDies

LEMMA SpecLossInv == Spec => []LossInv
<1>1. Init => LossInv
  BY DEF Init, OutboxInit, NoRow, LossInv, ProviderIsFinal, DuplicateIsRetry, UpdaterKnows,
    ProcessedHasResult, WrittenUntilNext, Handling, Drains, Idle, HandlerSteps
<1>2. IInv /\ LossInv /\ [Next]_vars => LossInv'
  <2>1. ASSUME LossInv, UNCHANGED vars PROVE LossInv'
    BY <2>1 DEF vars, outboxVars, inboxVars, LossInv, ProviderIsFinal, DuplicateIsRetry,
      UpdaterKnows, ProcessedHasResult, WrittenUntilNext, Handling, Drains, InFlight
  <2> QED BY <2>1, StepKeepsLosses
<1> QED BY <1>1, <1>2, SpecIInv, PTL DEF Spec

\* A callback is accounted for on its whole way: stored if it was acknowledged,
\* in the hands of one drain at a time, and passed over only for a reason that
\* LossesKnown names, whatever order callbacks, drains and the send come in.
THEOREM SpecCallbacksAccounted == Spec => []CallbacksAccounted
<1>1. IInv /\ LossInv => LossesKnown
  <2> SUFFICES ASSUME IInv, LossInv, NEW e \in Callback, inbox[e].state = "processed",
                      notification.provider = e.id,
                      RankOf(notification.status) < Rank[e.status]
               PROVE  \/ result[e] \in {"unmatched", "terminal_ignored", "out_of_order"}
                      \/ result[e] = "duplicate" /\ inbox[e].attempts > 1
                      \/ \E f \in recorded \ {e} : f.id = e.id /\ f.status = notification.status
    BY DEF LossesKnown
  <2>1. result[e] \in Results \ {"none"}
    BY DEF IInv, TypeOK, LossInv, ProcessedHasResult
  <2>2. CASE result[e] = "duplicate"
    BY <2>2 DEF LossInv, DuplicateIsRetry
  <2>3. CASE result[e] = "recorded"
    <3>1. PICK f \in recorded : f.id = e.id /\ f.status = notification.status
      BY <2>3 DEF LossInv, WrittenUntilNext
    <3>2. e.status \in DOMAIN Rank /\ Rank[e.status] \in Nat
      BY InboxAssumption, Ranks DEF Rank
    <3>3. f # e
      BY <3>1, <3>2 DEF RankOf
    <3> QED BY <3>1, <3>3
  <2> QED BY <2>1, <2>2, <2>3 DEF Results
<1> QED BY <1>1, SpecIInv, SpecLossInv, PTL DEF CallbacksAccounted, IInv
=============================================================================
