------------------------------- MODULE Money -------------------------------
(***************************************************************************)
(* Exact decimal arithmetic (utils/money.js). A decimal string of digits n *)
(* with k of them after the point is the pair <<n, k>>; an amount is a     *)
(* whole number of the smallest units of its asset, 10^-precision each.    *)
(***************************************************************************)
EXTENDS Integers, FiniteSets, Sequences, SequencesExt

\* ASSET_RULES: the digits after the point.
Precision == [XLM |-> 7, USDC |-> 7, NGN |-> 2, USD |-> 2, EUR |-> 2, GBP |-> 2]

\* (Mutant: a remainder of half a unit or more is dropped.)
RoundDown(numerator, denominator) == numerator \div denominator

\* multiplyRatio: the remainder is rounded half up.
RoundHalfUp(numerator, denominator) ==
  LET quotient == numerator \div denominator
      remainder == numerator % denominator
  IN IF remainder * 2 >= denominator THEN quotient + 1 ELSE quotient

\* decimalToRatio of <<n, k>>: the fraction n / 10^k, of a positive rate.
Numerator(rate) == rate[1]
Denominator(rate) == 10 ^ rate[2]

\* parseUnits: missing digits are zeros; digits in excess are refused, or
\* dropped for amounts of the configuration.
Parseable(decimal, precision) == decimal[2] <= precision
ParseUnits(decimal, precision) ==
  IF decimal[2] <= precision THEN decimal[1] * 10 ^ (precision - decimal[2])
  ELSE decimal[1] \div 10 ^ (decimal[2] - precision)

\* formatUnits writes all the digits of the precision.
FormatUnits(units, precision) == <<units, precision>>

\* A fee of so many basis points.
Percentage(units, basisPoints) == RoundHalfUp(units * basisPoints, 10000)

Convert(units, source, target, rate) ==
  RoundHalfUp(units * 10 ^ target * Numerator(rate), Denominator(rate) * 10 ^ source)

\* multiplyDecimalRates and ratioToDecimal (pricing/policyRate.js): the product
\* of two rates, rounded to so many digits.
MultiplyRates(a, b, digits) ==
  <<RoundHalfUp(Numerator(a) * Numerator(b) * 10 ^ digits, Denominator(a) * Denominator(b)), digits>>
\* expandExponentialDecimal of n * 10^exponent, n with k digits after the point.
WithoutExponent(n, k, exponent) ==
  IF k <= exponent THEN <<n * 10 ^ (exponent - k), 0>> ELSE <<n, k - exponent>>

\* add and subtract refuse a decimal of too many digits; compare tells the order.
Addable(left, right, precision) == Parseable(left, precision) /\ Parseable(right, precision)
Add(left, right, precision) ==
  FormatUnits(ParseUnits(left, precision) + ParseUnits(right, precision), precision)
Subtract(left, right, precision) ==
  FormatUnits(ParseUnits(left, precision) - ParseUnits(right, precision), precision)
Compare(left, right, precision) ==
  LET a == ParseUnits(left, precision) b == ParseUnits(right, precision)
  IN IF a = b THEN 0 ELSE IF a > b THEN 1 ELSE -1
-----------------------------------------------------------------------------
(* The journal (payment/ledger.service.js): an entry is what it posts to   *)
(* each account, in smallest units with a sign.                            *)

\* sumPostingsByAsset: what an entry makes of nothing.
SumPostings(entry) == FoldFunction(+, 0, entry)

\* createJournalEntry writes an entry that assertBalancedPostings lets pass.
NoEntry == << >>
CreateJournalEntry(entry) == IF SumPostings(entry) = 0 THEN entry ELSE NoEntry

\* listLedgerDiscrepancies: what is not balanced, or settles a payment of which
\* the row does not say so.
Discrepancy(entry, event, status) ==
  SumPostings(entry) # 0 \/ (event = "payment.settled" /\ status # "success")

\* totalCharge: the amount and the fee.
TotalCharge(amount, fee) == amount + fee

PaymentReserved(amount, fee) == CreateJournalEntry(
  [customer_money |-> -TotalCharge(amount, fee), stellar_pending |-> amount, fee_revenue |-> fee])

PaymentSettled(amount) == CreateJournalEntry([stellar_pending |-> -amount, stellar_settled |-> amount])

PaymentFailed(amount, fee) == CreateJournalEntry(
  [customer_money |-> TotalCharge(amount, fee), stellar_pending |-> -amount, fee_revenue |-> -fee])

RefundPosted(amount) == CreateJournalEntry([stellar_settled |-> -amount, customer_money |-> amount])

\* What the entries leave on an account.
Balance(entries, account) ==
  FoldLeft(LAMBDA sofar, entry : sofar + (IF account \in DOMAIN entry THEN entry[account] ELSE 0),
           0, entries)
-----------------------------------------------------------------------------
(* The repair of the amounts of quotes and payments (reconcileMonetary-    *)
(* Values, payment/payment.reconciler.js).                                 *)

\* canonicalizeMonetaryAmount of a decimal that is not 0.
CanonicalAmount(decimal, precision) ==
  <<(decimal[1] * 10 ^ precision + 10 ^ decimal[2] \div 2) \div 10 ^ decimal[2], precision>>

\* The amounts and the fee of a quote are rewritten together; that one of them
\* is 0 makes decimalToRatio throw, and leaves the row as it is.
Throws(quote) == \E field \in {"source", "target", "fee"} : quote[field][1] = 0
RepairQuote(quote, source, target) ==
  IF Throws(quote) THEN quote
  ELSE [source |-> CanonicalAmount(quote.source, source), target |-> CanonicalAmount(quote.target, target),
        fee |-> CanonicalAmount(quote.fee, source)]

RepairPayment(amount, precision) ==
  IF amount[1] = 0 THEN amount ELSE CanonicalAmount(amount, precision)
-----------------------------------------------------------------------------
(* The totals of an account statement (wallet/statement.service.js). Each  *)
(* starts as a zero of seven digits, and what cannot be added to it is     *)
(* left out without a word.                                                *)

AddTo(total, amount, precision) ==
  IF Addable(total, amount, precision) THEN Add(total, amount, precision) ELSE total

\* buildStatementData goes once over the rows of the days.
Counts(row, days, types) == row.day \in days /\ row.type \in types
TotalOf(rows, days, types, field, precision) ==
  FoldLeft(LAMBDA total, row : IF Counts(row, days, types) THEN AddTo(total, row[field], precision) ELSE total,
           <<0, 7>>, rows)

\* Sends count whatever their status, refunds not at all; the fee of a row of
\* any type and asset counts as one in XLM.
Statement(rows, days, precision) ==
  [sent |-> TotalOf(rows, days, {"send"}, "amount", precision),
   sentCount |-> Cardinality({i \in DOMAIN rows : Counts(rows[i], days, {"send"})}),
   received |-> TotalOf(rows, days, {"receive", "deposit"}, "amount", precision),
   fees |-> TotalOf(rows, days, {rows[i].type : i \in DOMAIN rows}, "fee", Precision.XLM)]
-----------------------------------------------------------------------------
CONSTANTS Amounts,     \* amounts to try, in smallest units
          Rates,       \* rates to try
          Precisions   \* precisions to try

ASSUME MoneyAssumption ==
  /\ Amounts \subseteq Nat
  /\ Rates \subseteq (Nat \ {0}) \X Nat
  /\ Precisions \subseteq Nat

VARIABLE sum  \* two amounts, a rate and the precisions of two assets

NoSum == <<>>
MoneyInit == sum = NoSum
TrySum == sum = NoSum /\ sum' \in Amounts \X Amounts \X Rates \X Precisions \X Precisions
-----------------------------------------------------------------------------
Abs(n) == IF n < 0 THEN -n ELSE n

\* A converted amount is off by half a smallest unit at most ...
WithinHalfAUnit(a, rate, s, t) ==
  LET exact == a * 10 ^ t * Numerator(rate)
      scale == Denominator(rate) * 10 ^ s
  IN 2 * Abs(Convert(a, s, t, rate) * scale - exact) <= scale

\* ... so that the parts of an amount convert to the whole but for one unit,
WholeOfParts(a, b, rate, s, t) ==
  Abs(Convert(a, s, t, rate) + Convert(b, s, t, rate) - Convert(a + b, s, t, rate)) <= 1

\* and never to more for less.
Monotone(a, b, rate, s, t) == a <= b => Convert(a, s, t, rate) <= Convert(b, s, t, rate)

\* The fee of one percent that createQuote takes off leaves a rest.
FeeIsPart(a) == Percentage(a, 100) <= a

RoundTrip(a, precision) == ParseUnits(FormatUnits(a, precision), precision) = a

\* The rest and the part make the whole again, and are in order.
PartsOrdered(a, b, s, t) ==
  LET left == <<a, s>> right == <<b, s>>
  IN Addable(left, right, t) =>
       /\ Subtract(Add(left, right, t), right, t) = FormatUnits(ParseUnits(left, t), t)
       /\ Compare(left, right, t) = -Compare(right, left, t)
       /\ Compare(Add(left, right, t), left, t) = (IF b = 0 THEN 0 ELSE 1)

\* Every entry is written; the reversal of a failed payment takes back what its
\* reservation posted, a settled payment leaves nothing pending, and a refund
\* leaves the rest of it settled.
BooksBalance(a, b) ==
  LET reserved == PaymentReserved(a, b)
  IN /\ \A entry \in {reserved, PaymentSettled(a), PaymentFailed(a, b), RefundPosted(a)} :
          DOMAIN entry # {} /\ ~ Discrepancy(entry, "payment.settled", "success")
     /\ \A account \in DOMAIN reserved : Balance(<<reserved, PaymentFailed(a, b)>>, account) = 0
     /\ Balance(<<reserved, PaymentSettled(a)>>, "stellar_pending") = 0
     /\ b <= a => Balance(<<reserved, PaymentSettled(a), RefundPosted(b)>>, "stellar_settled") = a - b

\* A repaired row is off by half a unit at most, and another repair finds nothing
\* to do, be it because an amount has become 0; a row written by the program is
\* left alone.
RepairedOnce(a, b, s, t) ==
  LET quote == [source |-> <<a, s>>, target |-> <<b, s>>, fee |-> <<a, s + 1>>]
      repaired == RepairQuote(quote, t, 2)
      payment == RepairPayment(<<a, s>>, t)
  IN /\ RepairQuote(repaired, t, 2) = repaired
     /\ RepairPayment(payment, t) = payment
     /\ \/ Throws(quote)
        \/ 2 * Abs(repaired.source[1] * 10 ^ s - a * 10 ^ t) <= 10 ^ s
     /\ LET written == [source |-> FormatUnits(a, t), target |-> FormatUnits(b, 2), fee |-> FormatUnits(a, t)]
        IN RepairQuote(written, t, 2) = written

\* Amounts in lumens add up to the smallest unit, also over two periods that do not
\* meet. Of an asset of fewer digits than the zero a total starts with, none is
\* ever added.
StatementAddsUp(a, b, s) ==
  LET rows == <<[day |-> 1, type |-> "send", amount |-> <<a, 7>>, fee |-> <<b, 7>>],
                [day |-> 2, type |-> "refund", amount |-> <<b, 7>>, fee |-> <<a, 8>>],
                [day |-> 3, type |-> "send", amount |-> <<b, 7>>, fee |-> <<a, 7>>],
                [day |-> 3, type |-> "deposit", amount |-> <<b, s>>, fee |-> <<0, 0>>]>>
      lumens == Statement(rows, 1 .. 3, Precision.XLM)
      early == Statement(rows, 1 .. 2, Precision.XLM)
      late == Statement(rows, 3 .. 4, Precision.XLM)
  IN /\ lumens.sent = <<a + b, 7>> /\ lumens.sentCount = 2
     /\ lumens.received = IF s <= 7 THEN <<ParseUnits(<<b, s>>, 7), 7>> ELSE <<0, 7>>
     /\ lumens.fees = <<a + b, 7>>
     /\ Compare(Add(early.sent, late.sent, 7), lumens.sent, 7) = 0
     /\ Compare(Add(early.fees, late.fees, 7), lumens.fees, 7) = 0
     /\ Statement(rows, 1 .. 3, Precision.NGN).received = <<0, 7>>

\* Amounts survive formatting, and are converted and charged exactly but for
\* the rounding of the last digit (utils/money.js); the journal's entries balance
\* and cancel each other (ledger.service.js), a repair of stored amounts is done
\* once (reconcileMonetaryValues), and a statement adds up (statement.service.js).
MoneyExact ==
  sum # NoSum =>
    LET a == sum[1] b == sum[2] rate == sum[3] s == sum[4] t == sum[5]
    IN /\ WithinHalfAUnit(a, rate, s, t)
       /\ WholeOfParts(a, b, rate, s, t)
       /\ Monotone(a, b, rate, s, t)
       /\ FeeIsPart(a)
       /\ RoundTrip(a, s)
       /\ LET product == MultiplyRates(rate, <<a, s>>, 3)
          IN 2 * Abs(product[1] * 10 ^ (rate[2] + s) - rate[1] * a * 10 ^ 3) <= 10 ^ (rate[2] + s)
       /\ PartsOrdered(a, b, s, t)
       /\ BooksBalance(a, b)
       /\ RepairedOnce(a, b, s, t)
       /\ StatementAddsUp(a, b, s)
       /\ LET plain == WithoutExponent(a, s, t)
          IN plain[1] * 10 ^ s = a * 10 ^ (t + plain[2])
=============================================================================
