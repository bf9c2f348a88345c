---------------------------- MODULE HorizonPool ----------------------------
(***************************************************************************)
(* Requests to several Horizon endpoints (config/horizon.js): two          *)
(* interceptors send each to the first endpoint whose circuit is not open, *)
(* walk the others when a read fails and send a write once.                *)
(*                                                                         *)
(* An answer is "ok"; "error", an HTTP error that is an answer (404); a    *)
(* "gateway" error, an HTTP error of which nobody knows whether the write  *)
(* arrived; or "lost", no answer. The limit on a whole operation, 30 s     *)
(* against 10 s for each request, is not reached by three endpoints.       *)
(***************************************************************************)
EXTENDS Integers, Sequences, FiniteSets, SequencesExt

CONSTANTS Endpoints,  \* the configured endpoints, in order
          Request,    \* requests that may be under way at once
          Threshold,  \* failures after which a circuit opens
          CoolDown    \* how long it stays open

ASSUME PoolAssumption == /\ Endpoints \in Seq(STRING) /\ Threshold \in Nat \ {0}
                         /\ CoolDown \in Nat \ {0}

VARIABLES failures,  \* consecutive failures of each endpoint, up to Threshold
          cooling,   \* time until it may be used again
          request    \* what each request is doing

poolVars == <<failures, cooling, request>>

Hosts == Range(Endpoints)
NotSent == [step |-> "idle"]

PoolInit ==
  /\ failures = [h \in Hosts |-> 0]
  /\ cooling = [h \in Hosts |-> 0]
  /\ request = [q \in Request |-> NotSent]

IsOpen(h) == cooling[h] > 0
Available == SelectSeq(Endpoints, LAMBDA h : ~ IsOpen(h))

RecordSuccess(h) ==
  /\ failures' = [failures EXCEPT ![h] = 0]
  /\ cooling' = [cooling EXCEPT ![h] = 0]

\* A circuit whose time has passed opens again at the first failure.
RecordFault(h) ==
  /\ failures' = [failures EXCEPT ![h] = IF @ < Threshold THEN @ + 1 ELSE @]
  /\ cooling' = [cooling EXCEPT ![h] = IF failures'[h] = Threshold THEN CoolDown ELSE @]

\* The request interceptor.
Dispatch(q, method) ==
  /\ request[q] = NotSent
  /\ request' = [request EXCEPT ![q] =
       [step |-> IF Available = <<>> THEN "ended" ELSE "sent",
        method |-> method, candidates |-> Available, at |-> 1, answers |-> {}, copies |-> 0,
        result |-> IF Available = <<>> THEN "outage" ELSE "none"]]
  /\ UNCHANGED <<failures, cooling>>

Waits(q) == request[q].step = "sent"
Host(q) == request[q].candidates[request[q].at]
Write(q) == request[q].method = "post"

Ok(q) ==
  /\ Waits(q)
  /\ RecordSuccess(Host(q))
  /\ request' = [request EXCEPT ![q].step = "ended", ![q].result = "ok", ![q].copies = @ + 1]

\* What is left to say after the last candidate: that the circuits are open,
\* or the error that was remembered, which the first request's never is.
LastWord(q, answer) ==
  IF request[q].at = 1 \/ \A h \in Hosts : cooling'[h] > 0 THEN "outage" ELSE answer

\* The response interceptor, for a read: on to the next candidate.
ReadFails(q, answer) ==
  /\ Waits(q) /\ ~ Write(q)
  /\ RecordFault(Host(q))
  /\ LET known == [request EXCEPT ![q].answers = @ \cup {answer}]
     IN request' = IF request[q].at = Len(request[q].candidates)
                   THEN [known EXCEPT ![q].step = "ended", ![q].result = LastWord(q, answer)]
                   ELSE [known EXCEPT ![q].at = @ + 1]

\* defaultRouteLimits: a write may not send too much, which is known before it is
\* sent, and a read may not bring too much.
RouteLimit == [post |-> "body", get |-> "answer"]

Oversized(q) ==
  request' = [request EXCEPT ![q].step = "ended", ![q].result = "large",
                             ![q].answers = @ \cup {RouteLimit[request[q].method]}]

\* Either ends the request. It counts against an endpoint unless it is the first.
TooLarge(q) ==
  /\ Waits(q) /\ request[q].at = 1
  /\ Oversized(q)
  /\ UNCHANGED <<failures, cooling>>

TooLargeLater(q) ==
  /\ Waits(q) /\ request[q].at > 1
  /\ Oversized(q)
  /\ RecordFault(Host(q))

\* (Mutant: a write that got no answer is sent to the next endpoint.)
WriteFailsOver(q, answer) ==
  /\ Waits(q) /\ Write(q)
  /\ \E taken \in {0, 1} :
       request' = [request EXCEPT ![q].copies = @ + taken,
                     ![q].at = IF @ < Len(request[q].candidates) THEN @ + 1 ELSE @,
                     ![q].step = IF request[q].at < Len(request[q].candidates) THEN "sent" ELSE "ended",
                     ![q].result = "uncertain"]
  /\ UNCHANGED <<failures, cooling>>

IsAmbiguous(answer) == answer = "lost"

\* For a write: never again. Without an answer its fate is uncertain. Neither
\* counts against the endpoint.
WriteFails(q, answer) ==
  /\ Waits(q) /\ Write(q)
  /\ \E taken \in (IF answer = "error" THEN {0} ELSE {0, 1}) :
       request' = [request EXCEPT ![q].step = "ended", ![q].answers = {answer}, ![q].copies = @ + taken,
                                  ![q].result = IF IsAmbiguous(answer) THEN "uncertain" ELSE answer]
  /\ UNCHANGED <<failures, cooling>>

Close(q) ==
  /\ request[q].step = "ended"
  /\ request' = [request EXCEPT ![q] = NotSent]
  /\ UNCHANGED <<failures, cooling>>

TimeGoesOn ==
  /\ \E h \in Hosts : IsOpen(h)
  /\ cooling' = [h \in Hosts |-> IF IsOpen(h) THEN cooling[h] - 1 ELSE 0]
  /\ UNCHANGED <<failures, request>>

PoolNext ==
  \/ TimeGoesOn
  \/ \E q \in Request :
       \/ \E method \in {"get", "post"} : Dispatch(q, method)
       \/ Ok(q) \/ TooLarge(q) \/ TooLargeLater(q) \/ Close(q)
       \/ \E answer \in {"error", "gateway", "lost"} : ReadFails(q, answer) \/ WriteFails(q, answer)

PoolSpec == PoolInit /\ [][PoolNext]_poolVars
-----------------------------------------------------------------------------
Ended(q) == request[q].step = "ended"

\* A write reaches the network once, and one that did is never reported as
\* refused or as not sent: it is done, its fate uncertain, or the answer was a
\* gateway's, which horizon.js surfaces as if it were definitive
\* (horizon.js:281-294).
WriteOnce ==
  \A q \in Request :
    request[q].step # "idle" /\ Write(q) =>
      /\ request[q].copies <= 1
      /\ Ended(q) /\ request[q].copies = 1 => request[q].result \in {"ok", "uncertain", "gateway"}
=============================================================================
