------------------------------- MODULE Quotes -------------------------------
(***************************************************************************)
(* Quotes (pricing/pricing.service.js): created for a customer or by a     *)
(* payment of its own, replaced by a newer one, expired by the sweep, and  *)
(* consumed by a payment that names one (executePayment). The payment      *)
(* validates the quote it read and consumes it by id; requote does guard   *)
(* its update of the old quote, but hands out the new one all the same.    *)
(*                                                                         *)
(* Only a quote from an asset to itself can be paid with: its rate is 1,   *)
(* and the check of the rate never refuses it. The second pass of          *)
(* reconcileQuotes, for active quotes of an hour's age, finds none: they   *)
(* live five minutes, and the first pass has expired them.                 *)
(***************************************************************************)
EXTENDS Naturals, FiniteSets

CONSTANTS Quote,   \* ids for rows of the table
          Payer    \* payments

VARIABLES quote,    \* the Quote rows
          paying,   \* what each payment is doing
          requote,  \* requests to replace a quote: what each has read
          accident  \* requests for which a known accident has happened

quoteVars == <<quote, paying, requote, accident>>

NoQuote == [status |-> "none"]
QuoteStatuses == {"active", "consumed", "expired", "replaced", "orphaned"}
Row(status, lapsed, root, next) ==
  [status |-> status, lapsed |-> lapsed, root |-> root, next |-> next]
Rows == [status : QuoteStatuses, lapsed : BOOLEAN, root : Quote, next : Quote \cup {NoQuote}]

QuoteTypeOK ==
  /\ quote \in [Quote -> Rows \cup {NoQuote}]
  /\ paying \in [Payer -> [step : {"idle", "validated", "paid"}, quote : Quote \cup {NoQuote}]]
  /\ requote \in [Payer -> [step : {"idle", "read", "created", "done"},
                            old : Quote \cup {NoQuote}, new : Quote \cup {NoQuote}]]
  /\ accident \subseteq Quote

QuoteInit ==
  /\ quote = [q \in Quote |-> NoQuote]
  /\ paying = [p \in Payer |-> [step |-> "idle", quote |-> NoQuote]]
  /\ requote = [p \in Payer |-> [step |-> "idle", old |-> NoQuote, new |-> NoQuote]]
  /\ accident = {}

Exists(q) == quote[q] # NoQuote
\* A new id; which one it is makes no difference.
Fresh(q) == ~ Exists(q) /\ q = CHOOSE r \in Quote : ~ Exists(r)

\* Every quote belongs to a request: that of the first quote it goes back to.
Root(q) == quote[q].root

\* createQuote, for the assistant, the API or requote.
CreateQuote(q) ==
  /\ Fresh(q)
  /\ quote' = [quote EXCEPT ![q] = Row("active", FALSE, q, NoQuote)]
  /\ UNCHANGED <<paying, requote, accident>>

\* The five minutes of the quote are over.
Lapse(q) ==
  /\ Exists(q) /\ ~ quote[q].lapsed
  /\ quote' = [quote EXCEPT ![q].lapsed = TRUE]
  /\ UNCHANGED <<paying, requote, accident>>

\* reconcileQuotes: one statement for all active quotes past their time.
ReconcileQuotes ==
  /\ \E q \in Quote : Exists(q) /\ quote[q].status = "active" /\ quote[q].lapsed
  /\ quote' = [q \in Quote |->
       IF Exists(q) /\ quote[q].status = "active" /\ quote[q].lapsed
       THEN Row("expired", TRUE, Root(q), quote[q].next) ELSE quote[q]]
  /\ UNCHANGED <<paying, requote, accident>>
-----------------------------------------------------------------------------
\* validateQuoteForExecution, of a quote of this customer, asset and amount.
ValidQuote(q) ==
  /\ quote[q].status \notin {"consumed", "replaced", "orphaned"}
  /\ ~ quote[q].lapsed

Validate(p, q) ==
  /\ paying[p].step = "idle"
  /\ Exists(q) /\ ValidQuote(q)
  /\ paying' = [paying EXCEPT ![p] = [step |-> "validated", quote |-> q]]
  /\ UNCHANGED <<quote, requote, accident>>

\* The quote is updated by id, and the row with it when the transaction
\* commits. An accident: another payment or a requote came in between.
Consume(p) ==
  /\ paying[p].step = "validated"
  /\ LET q == paying[p].quote
     IN /\ quote' = [quote EXCEPT ![q].status = "consumed"]
        /\ accident' = IF quote[q].status \in {"consumed", "replaced"}
                       THEN accident \cup {Root(q)} ELSE accident
  /\ paying' = [paying EXCEPT ![p].step = "paid"]
  /\ UNCHANGED requote

\* The transaction rolls back: compliance, the row or the commit failed.
RollBack(p) ==
  /\ paying[p].step = "validated"
  /\ paying' = [paying EXCEPT ![p] = [step |-> "idle", quote |-> NoQuote]]
  /\ UNCHANGED <<quote, requote, accident>>

\* A payment that names no quote makes one, which nobody ever consumes: a
\* later payment may name it.
PayWithOwn(p, q) ==
  /\ paying[p].step = "idle"
  /\ Fresh(q)
  /\ quote' = [quote EXCEPT ![q] = Row("active", FALSE, q, NoQuote)]
  /\ paying' = [paying EXCEPT ![p] = [step |-> "paid", quote |-> q]]
  /\ accident' = accident \cup {q}
  /\ UNCHANGED requote
-----------------------------------------------------------------------------
\* requote reads the old quote; a used one is refused, a replaced one answered
\* with its replacement.
RequoteRead(p, q) ==
  /\ requote[p].step = "idle"
  /\ Exists(q)
  /\ requote' = [requote EXCEPT ![p] =
       [step |-> IF quote[q].status = "consumed" \/ quote[q].next # NoQuote THEN "done" ELSE "read",
        old |-> q, new |-> NoQuote]]
  /\ UNCHANGED <<quote, paying, accident>>

RequoteCreate(p, q) ==
  /\ requote[p].step = "read"
  /\ Fresh(q)
  /\ quote' = [quote EXCEPT ![q] = Row("active", FALSE, Root(requote[p].old), NoQuote)]
  /\ requote' = [requote EXCEPT ![p].step = "created", ![p].new = q]
  /\ UNCHANGED <<paying, accident>>

\* (Mutant: the old quote is left as it is.)
RequoteKeepsOld(p) ==
  /\ requote[p].step = "created"
  /\ requote' = [requote EXCEPT ![p].step = "done"]
  /\ UNCHANGED <<quote, paying, accident>>

\* The guarded update. An accident: it does not match, because the old quote
\* was paid with or replaced meanwhile, and the new one stands nevertheless.
RequoteMark(p) ==
  /\ requote[p].step = "created"
  /\ LET old == requote[p].old
     IN IF quote[old].status \in {"active", "expired"}
        THEN /\ quote' = [quote EXCEPT ![old].status = "replaced", ![old].next = requote[p].new]
             /\ UNCHANGED accident
        ELSE /\ accident' = accident \cup {Root(old)}
             /\ UNCHANGED quote
  /\ requote' = [requote EXCEPT ![p].step = "done"]
  /\ UNCHANGED paying

\* Outside a transaction, the process may end between the two.
RequoteDies(p) ==
  /\ requote[p].step = "created"
  /\ accident' = accident \cup {Root(requote[p].old)}
  /\ requote' = [requote EXCEPT ![p].step = "done"]
  /\ UNCHANGED <<quote, paying>>

QuoteNext ==
  \/ \E q \in Quote : CreateQuote(q) \/ Lapse(q)
  \/ ReconcileQuotes
  \/ \E p \in Payer :
       \/ Consume(p) \/ RollBack(p) \/ RequoteMark(p) \/ RequoteDies(p)
       \/ \E q \in Quote : \/ Validate(p, q) \/ PayWithOwn(p, q)
                           \/ RequoteRead(p, q) \/ RequoteCreate(p, q)

QuoteSpec == QuoteInit /\ [][QuoteNext]_quoteVars
-----------------------------------------------------------------------------
\* A request for a price is paid with once, through whatever replacements
\* (pricing.service.js "claim the quote so a retry with the same id is
\* rejected"), unless two payments validated before either consumed, a
\* requote overlapped a payment or another requote or died, or the quote was
\* made by a payment itself.
RequestPaidOnce ==
  \A p, r \in Payer :
    /\ p # r
    /\ paying[p].step = "paid"
    /\ paying[r].step = "paid"
    /\ Root(paying[p].quote) = Root(paying[r].quote)
    => \/ Root(paying[p].quote) \in accident
       \/ \E x \in Payer : /\ requote[x].step = "created"
                          /\ Root(requote[x].old) = Root(paying[p].quote)
=============================================================================
