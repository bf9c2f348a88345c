--------------------------- MODULE MCConversation ---------------------------
(***************************************************************************)
(* What a customer may pay and pays. The conversation: any MaxSent of five *)
(* messages, sent in this order and delivered in any. Quotes, the limits   *)
(* of a day, refunds and the identity profile share no state with it, so a *)
(* behaviour is one of one of the five, chosen at the start.               *)
(***************************************************************************)
EXTENDS Conversation, Quotes, Refunds, SpendingLimits, KycProfile, TLC

CONSTANTS yes, pin, no, send, pinAgain

VARIABLE part  \* the component that moves

Sent == <<yes, pin, no, send, pinAgain>>
Text5 == <<"yes", "pin", "no", "send", "pin">>

Times == [m \in Message |-> CHOOSE i \in DOMAIN Sent : Sent[i] = m]
Words == [m \in Message |-> Text5[Times[m]]]
\* The workers and the operators, which are the same two values in parts that
\* never move together.
Workers == Permutations(Worker)

Amounts == [s \in Send |-> 2]
AskedAmounts == [f \in Refund |-> 2]
Approved == [tier |-> 1, risk |-> 0, trusted |-> TRUE, active |-> TRUE,
             status |-> "approved", custody |-> "approved", sanctions |-> "cleared"]
Profiles ==
  {Approved, [Approved EXCEPT !.risk = 60], [Approved EXCEPT !.trusted = FALSE, !.custody = "review", !.risk = 30]}

Overrides == {[status |-> "approved", tier |-> 2], [sanctions |-> "review"]}

\* The parts that rest start in one state only.
MCInit ==
  /\ part \in {"conversation", "quotes", "refunds", "limits", "identity"}
  /\ Init /\ (part # "conversation" => asked = << >>)
  /\ QuoteInit /\ RefundInit
  /\ LimitInit /\ (part # "limits" => customer = Approved)
  /\ KycInit /\ user.tier = 0

Only(name) ==
  /\ part = name /\ UNCHANGED part
  /\ IF name = "conversation" THEN TRUE ELSE UNCHANGED vars
  /\ IF name = "quotes" THEN TRUE ELSE UNCHANGED quoteVars
  /\ IF name = "refunds" THEN TRUE ELSE UNCHANGED refundVars
  /\ IF name = "limits" THEN TRUE ELSE UNCHANGED limitVars
  /\ IF name = "identity" THEN TRUE ELSE UNCHANGED kycVars

MCNext ==
  \/ Only("conversation") /\ Next
  \/ Only("quotes") /\ QuoteNext
  \/ Only("refunds") /\ RefundNext
  \/ Only("limits") /\ LimitNext
  \/ Only("identity") /\ KycNext

MCSpec == MCInit /\ [][MCNext]_<<part, vars, quoteVars, refundVars, limitVars, kycVars>>
=============================================================================
