---------------------------- MODULE Conversation ----------------------------
(***************************************************************************)
(* The payment a customer asks for, confirms and authorizes by chat        *)
(* (conversation/assistant.service.js, pendingClaim.js), on top of the     *)
(* queue of the customer's messages (module Ordering).  What was asked for *)
(* is kept in one JSON column, User.pendingSend, that every handler reads  *)
(* and later writes without a condition; only the claim is conditional.    *)
(*                                                                         *)
(* Text messages only: the handler of a voice message keeps its errors     *)
(* from the queue, and then goes through the same steps.                   *)
(***************************************************************************)
EXTENDS Ordering, Sequences, FiniteSets

CONSTANTS Text,      \* what each message says
          MaxAsked,  \* bound on the payments asked for
          MaxSent    \* bound on the messages the customer sends

Texts == {"send", "yes", "no", "pin", "other"}

ASSUME ConversationAssumption ==
  /\ Text \in [Message -> Texts]
  /\ MaxAsked \in Nat \ {0}
  /\ MaxSent \in Nat

VARIABLES pending,    \* User.pendingSend
          chat,       \* what the handler of each run is doing
          asked,      \* when each payment was asked for, and if with a warning
          confirmed,  \* the high-risk payments the customer said yes to
          cancelled,  \* the payments the customer said no to
          paid        \* the executions of executePayment: payment and message

chatVars == <<pending, chat, asked, confirmed, cancelled, paid>>
vars == <<ordVars, chatVars>>

NoPending == [id |-> 0, step |-> "none"]
Pending(id, step) == [id |-> id, step |-> step]
Pendings == {NoPending} \cup [id : 1 .. MaxAsked, step : {"highRisk", "pin"}]

ChatSteps == {"arriving", "resolving", "deciding", "claiming", "paying", "replying", "throwing"}
\* A payment to an address the customer neither paid before nor saved starts
\* with a warning.
Request(id, risky) == Pending(id, IF risky THEN "highRisk" ELSE "pin")

NoChat == [at |-> "none", copy |-> NoPending]

TypeOK ==
  /\ OrdTypeOK
  /\ pending \in Pendings
  /\ chat \in [Worker -> {NoChat} \cup [at : ChatSteps, copy : Pendings]]
  /\ asked \in Seq([at : Nat, risky : BOOLEAN])
  /\ Len(asked) <= MaxAsked
  /\ confirmed \cup cancelled \subseteq DOMAIN asked
  /\ paid \in Seq([id : DOMAIN asked, by : Message])

\* A payment may already have been asked for.
Init ==
  /\ OrdInit
  /\ \/ asked = << >> /\ pending = NoPending
     \/ \E risky \in BOOLEAN :
          asked = <<[at |-> 0, risky |-> risky]>> /\ pending = Request(1, risky)
  /\ chat = [w \in Worker |-> NoChat]
  /\ confirmed = {}
  /\ cancelled = {}
  /\ paid = << >>

ChatAt(w, step) == chat[w].at = step
ChatGoto(w, step) == chat' = [chat EXCEPT ![w].at = step]
Says(w, texts) == Text[run[w].m] \in texts
Copy(w) == chat[w].copy
-----------------------------------------------------------------------------
(***************************************************************************)
(* processMessage of the assistant.                                        *)
(***************************************************************************)
BeginHandling(w) ==
  /\ MarkProcessing(w)
  /\ IF run'[w].step = "handling" THEN ChatGoto(w, "arriving") ELSE UNCHANGED chat
  /\ UNCHANGED <<pending, asked, confirmed, cancelled, paid>>

\* resolveUser reads the user ...
ReadUser(w) ==
  /\ ChatAt(w, "arriving")
  /\ chat' = [chat EXCEPT ![w] = [at |-> "resolving", copy |-> pending]]
  /\ UNCHANGED <<ordVars, pending, asked, confirmed, cancelled, paid>>

\* ... and updates other columns, which returns the row again; a pending
\* payment that is gone by then is put back in the handler's copy.
ResolveUser(w) ==
  /\ ChatAt(w, "resolving")
  /\ chat' = [chat EXCEPT ![w] = [at |-> "deciding",
                copy |-> IF pending = NoPending THEN Copy(w) ELSE pending]]
  /\ UNCHANGED <<ordVars, pending, asked, confirmed, cancelled, paid>>

\* No payment is pending.  The answer to "send" is a confirmation request; any
\* other text gets a menu.
Ask(w) ==
  /\ ChatAt(w, "deciding")
  /\ Copy(w) = NoPending
  /\ Says(w, {"send"})
  /\ Len(asked) < MaxAsked
  /\ \E risky \in BOOLEAN :
       /\ asked' = Append(asked, [at |-> Timestamp[run[w].m], risky |-> risky])
       /\ pending' = Request(Len(asked'), risky)
  /\ ChatGoto(w, "replying")
  /\ UNCHANGED <<ordVars, confirmed, cancelled, paid>>

\* (Mutant: the customer is told it is cancelled, and the row is kept.)
CancelInWords(w) ==
  /\ ChatAt(w, "deciding")
  /\ Copy(w) # NoPending
  /\ Says(w, {"no"})
  /\ cancelled' = cancelled \cup {Copy(w).id}
  /\ ChatGoto(w, "replying")
  /\ UNCHANGED <<ordVars, pending, asked, confirmed, paid>>

\* handlePendingPin.
Cancel(w) ==
  /\ ChatAt(w, "deciding")
  /\ Copy(w) # NoPending
  /\ Says(w, {"no"})
  /\ pending' = NoPending
  /\ cancelled' = cancelled \cup {Copy(w).id}
  /\ ChatGoto(w, "replying")
  /\ UNCHANGED <<ordVars, asked, confirmed, paid>>

\* The ten minutes are over.
Expire(w) ==
  /\ ChatAt(w, "deciding")
  /\ Copy(w) # NoPending
  /\ ~ Says(w, {"no"})
  /\ pending' = NoPending
  /\ ChatGoto(w, "replying")
  /\ UNCHANGED <<ordVars, asked, confirmed, cancelled, paid>>

ConfirmHighRisk(w) ==
  /\ ChatAt(w, "deciding")
  /\ Copy(w).step = "highRisk"
  /\ Says(w, {"yes"})
  /\ pending' = Pending(Copy(w).id, "pin")
  /\ confirmed' = confirmed \cup {Copy(w).id}
  /\ ChatGoto(w, "replying")
  /\ UNCHANGED <<ordVars, asked, cancelled, paid>>

\* verifyPinAttempt accepts the PIN.
AcceptPin(w) ==
  /\ ChatAt(w, "deciding")
  /\ Copy(w).step = "pin"
  /\ Says(w, {"pin"})
  /\ ChatGoto(w, "claiming")
  /\ UNCHANGED <<ordVars, pending, asked, confirmed, cancelled, paid>>

\* A reply that changes nothing: the menu, an unclear answer to the warning, a
\* wrong PIN, or the right one of a locked account.
Reply(w) ==
  /\ ChatAt(w, "deciding")
  /\ CASE Copy(w).step = "none"     -> ~ Says(w, {"send"})
       [] Copy(w).step = "highRisk" -> ~ Says(w, {"no", "yes"})
       [] Copy(w).step = "pin"      -> ~ Says(w, {"no"})
  /\ ChatGoto(w, "replying")
  /\ UNCHANGED <<ordVars, pending, asked, confirmed, cancelled, paid>>

\* (Mutant: the claim only checks, and the row is cleared by nobody.)
CheckPending(w) ==
  /\ ChatAt(w, "claiming")
  /\ ChatGoto(w, IF pending = NoPending THEN "replying" ELSE "paying")
  /\ UNCHANGED <<ordVars, pending, asked, confirmed, cancelled, paid>>

\* claimPendingSend clears whatever is pending, and succeeds if anything was.
ClaimPending(w) ==
  /\ ChatAt(w, "claiming")
  /\ pending' = NoPending
  /\ ChatGoto(w, IF pending = NoPending THEN "replying" ELSE "paying")
  /\ UNCHANGED <<ordVars, asked, confirmed, cancelled, paid>>

\* executePayment, with what the handler read.  It throws, or returns without a
\* receipt, of which the handler then takes the number: a TypeError.
Pay(w) ==
  /\ ChatAt(w, "paying")
  /\ paid' = Append(paid, [id |-> Copy(w).id, by |-> run[w].m]) \/ UNCHANGED paid
  /\ ChatGoto(w, "throwing")
  /\ UNCHANGED <<ordVars, pending, asked, confirmed, cancelled>>

\* The reply is sent, and the handler returns, or sending it throws.  A query
\* may throw before that.
Return(w) ==
  /\ ChatAt(w, "replying")
  /\ HandlerReturns(w)
  /\ chat' = [chat EXCEPT ![w] = NoChat]
  /\ UNCHANGED <<pending, asked, confirmed, cancelled, paid>>

Throw(w) ==
  /\ chat[w].at \in ChatSteps \ {"paying"}
  /\ HandlerThrows(w)
  /\ chat' = [chat EXCEPT ![w] = NoChat]
  /\ UNCHANGED <<pending, asked, confirmed, cancelled, paid>>

Handle(w) ==
  \/ BeginHandling(w) \/ ReadUser(w) \/ ResolveUser(w)
  \/ Ask(w) \/ Cancel(w) \/ Expire(w) \/ ConfirmHighRisk(w) \/ AcceptPin(w) \/ Reply(w)
  \/ ClaimPending(w) \/ Pay(w) \/ Return(w) \/ Throw(w)

CrashRun(w) ==
  /\ Crash(w)
  /\ chat' = [chat EXCEPT ![w] = NoChat]
  /\ UNCHANGED <<pending, asked, confirmed, cancelled, paid>>

CustomerSends(m) ==
  /\ Cardinality({n \in Message : job[n].state # "none"}) < MaxSent
  /\ Arrive(m)
  /\ UNCHANGED chatVars

Next ==
  \/ \E m \in Message : CustomerSends(m)
  \/ \E w \in Worker :
       \/ (Process(w) \/ MarkCompleted(w) \/ Stall(w)) /\ UNCHANGED chatVars
       \/ Handle(w) \/ CrashRun(w)
  \/ LockExpires /\ UNCHANGED chatVars

Spec == Init /\ [][Next]_vars
-----------------------------------------------------------------------------
(***************************************************************************)
(* What must hold.                                                         *)
(***************************************************************************)

\* pendingClaim.js: of two messages with a valid PIN "exactly one caller sees
\* count === 1", so that a payment that was asked for once is executed once.
PaidOnce == \A i, j \in DOMAIN paid : paid[i].id = paid[j].id => i = j

\* The same as long as the messages are handled one at a time: through crashes,
\* retries of a PIN whose payment went through, and a second PIN.
PaidOnceInOrder == LockTrusted => PaidOnce

\* A payment to an unknown address is executed only after the customer said yes
\* to the warning about it.
PaidAfterWarning ==
  \A i \in DOMAIN paid : asked[paid[i].id].risky => paid[i].id \in confirmed

\* A payment the customer cancelled is never executed afterwards.
CancelledStaysUnpaid ==
  [][LockTrusted => \A i \in DOMAIN paid' \ DOMAIN paid : paid'[i].id \notin cancelled]_vars

\* A payment is executed once, and as it was confirmed.
PaidAsConfirmed == PaidOnceInOrder /\ PaidAfterWarning
=============================================================================
