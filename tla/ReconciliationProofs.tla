------------------------ MODULE ReconciliationProofs ------------------------
(***************************************************************************)
(* For any payments, reconciler passes and terms: the state is well typed, *)
(* a row says 'success' only of a transaction that the network applied     *)
(* under the row's terms, no journal holds both a settlement and its       *)
(* reversal, and decisions are overwritten by no other step than the two   *)
(* that are known. For any amounts, rates and precisions: the arithmetic,  *)
(* the journal and the repair of amounts are exact.                        *)
(***************************************************************************)
EXTENDS Reconciliation, Money, FiniteSetTheorems, TLAPS

\* Nothing was sent before the request reaches Submit, so that Submit never
\* overwrites the fate of an envelope: what is applied stays applied.
SentOnce == \A p \in Payment : pc[p] \in {"idle", "reserved"} => chain[p] = "unsent"

\* A recorded hash, whether on the row or in the copy a pass has read of it,
\* belongs to a payment of the same terms.
HashTerms ==
  /\ \A p \in Payment : hash[p] # NoHash => Terms[hash[p]] = Terms[p]
  /\ \A r \in Reconciler :
       rec[r].step = "picked" /\ rec[r].txHash # NoHash => Terms[rec[r].txHash] = Terms[rec[r].p]

\* A pass decides 'success' only on a transaction that was applied.
VerdictIsOnChain ==
  \A r \in Reconciler :
    rec[r].step \in {"decided", "validated"} /\ rec[r].to = "success" =>
      /\ rec[r].txHash \in Payment
      /\ chain[rec[r].txHash] = "applied"
      /\ Terms[rec[r].txHash] = Terms[rec[r].p]

\* The step of the request tells what it may have posted, and whether it has a
\* row yet.
RequestTells ==
  \A p \in Payment :
    /\ "payment.settled" \in journal[p] => pc[p] = "returned"
    /\ "payment.failed_reversal" \in journal[p] => pc[p] = "thrown"
    /\ pc[p] = "idle" => row[p] = "none"

IInv ==
  TypeOK /\ SentOnce /\ HashTerms /\ VerdictIsOnChain /\ SuccessIsOnChain /\ RequestTells
-----------------------------------------------------------------------------
LEMMA InitIInv == Init => IInv
BY PaymentAssumption
DEF Init, PayInit, IInv, TypeOK, PayTypeOK, Idle, ChainStates, JournalEntries, Steps,
    SentOnce, HashTerms, VerdictIsOnChain, SuccessIsOnChain, RequestTells

\* A verdict keeps its meaning as long as what was applied stays applied.
LEMMA AppliedIsStable ==
  ASSUME IInv, [Next]_vars
  PROVE  \A p \in Payment : chain[p] = "applied" => chain'[p] = "applied"
<1> USE DEF IInv, TypeOK, PayTypeOK, SentOnce
<1>1. CASE Next
  <2>1. CASE PayNext /\ UNCHANGED rec
    BY <2>1 DEF PayNext, PayRequest, Reserve, Submit, NeverSent, SubmitReturns, SubmitThrows,
      MarkPending, MarkPendingThrows, PostSettled, PostSettledThrows, MarkTransactionFailed,
      PostFailed, Crash, Close, Tick
  <2>2. CASE Reconcile
    BY <2>2 DEF Reconcile
  <2>3. CASE \E p \in Payment, action \in DOMAIN OperatorAction : OperatorResolve(p, action)
    BY <2>3 DEF OperatorResolve
  <2> QED BY <1>1, <2>1, <2>2, <2>3 DEF Next
<1>2. CASE UNCHANGED vars
  BY <1>2 DEF vars
<1> QED BY <1>1, <1>2

\* The steps of a request, the network and the clock.
LEMMA PayPreserves ==
  ASSUME IInv, PayNext, UNCHANGED rec
  PROVE  IInv'
<1> USE DEF IInv, TypeOK, PayTypeOK, ChainStates, JournalEntries, Steps, PaymentStatuses
<1>1. \A p \in Payment : chain[p] = "applied" => chain'[p] = "applied"
  BY AppliedIsStable DEF Next
<1>2. ASSUME NEW p \in Payment, PayRequest(p)
      PROVE  PayTypeOK' /\ SentOnce'
  BY <1>2 DEF PayRequest, SentOnce, Goto, Reserve, Submit, NeverSent, SubmitReturns, SubmitThrows,
      MarkPending, MarkPendingThrows, PostSettled, PostSettledThrows, MarkTransactionFailed,
      PostFailed, Crash
<1>3. ASSUME NEW p \in Payment, NEW o \in ChainStates, Close(p, o)
      PROVE  PayTypeOK' /\ SentOnce'
  BY <1>3 DEF Close, SentOnce
<1>4. Tick => PayTypeOK' /\ SentOnce'
  BY DEF Tick, SentOnce
<1>5. PayTypeOK' /\ SentOnce'
  BY <1>2, <1>3, <1>4 DEF PayNext
<1>6. HashTerms'
  <2>1. \A p \in Payment : hash'[p] # hash[p] => hash'[p] = p
    BY DEF PayNext, PayRequest, Reserve, Submit, NeverSent, SubmitReturns, SubmitThrows,
      MarkPending, MarkPendingThrows, PostSettled, PostSettledThrows, MarkTransactionFailed,
      PostFailed, Crash, Close, Tick
  <2> QED BY <2>1 DEF HashTerms
<1>7. VerdictIsOnChain'
  BY <1>1 DEF VerdictIsOnChain
<1>8. SuccessIsOnChain'
  <2>1. \A p \in Payment : row'[p] = "success" => row[p] = "success" /\ hash'[p] = hash[p]
    BY DEF PayNext, PayRequest, Reserve, Submit, NeverSent, SubmitReturns, SubmitThrows,
      MarkPending, MarkPendingThrows, PostSettled, PostSettledThrows, MarkTransactionFailed,
      PostFailed, Crash, Close, Tick, TransitionAccepted
  <2> QED BY <1>1, <2>1 DEF SuccessIsOnChain
<1>9. RequestTells'
  BY DEF RequestTells, Goto, PayNext, PayRequest, Reserve, Submit, NeverSent, SubmitReturns,
    SubmitThrows, MarkPending, MarkPendingThrows, PostSettled, PostSettledThrows,
    MarkTransactionFailed, PostFailed, Crash, Running, Close, Tick
<1> QED BY <1>5, <1>6, <1>7, <1>8, <1>9

\* The steps of a pass up to its write.
LEMMA PassPreserves ==
  ASSUME IInv, NEW r \in Reconciler, ReconcileStep(r),
         UNCHANGED <<createdAt, pc, journal, chain, now>>
  PROVE  IInv'
<1> USE PaymentAssumption
    DEF IInv, TypeOK, PayTypeOK, SentOnce, Idle, Picked, NoEvidence, Decided, Leave, Decide,
        HashTerms, VerdictIsOnChain, SuccessIsOnChain, RequestTells
<1>1. ASSUME NEW p \in Payment, Pick(r, p), UNCHANGED <<row, hash>> PROVE IInv'
  BY <1>1 DEF Pick
<1>2. CASE LookupHash(r) /\ UNCHANGED <<row, hash>>
  BY <1>2 DEF LookupHash, Included
<1>3. CASE LookupFails(r) /\ UNCHANGED <<row, hash>>
  BY <1>3 DEF LookupFails
<1>4. CASE MatchHistory(r) /\ UNCHANGED <<row, hash>>
  BY <1>4 DEF MatchHistory
<1>5. CASE NoMatch(r) /\ UNCHANGED <<row, hash>>
  BY <1>5 DEF NoMatch
<1>6. CASE ValidateVerdict(r) /\ UNCHANGED <<row, hash>>
  BY <1>6 DEF ValidateVerdict
<1>7. CASE PassCrash(r) /\ UNCHANGED <<row, hash>>
  BY <1>7 DEF PassCrash
<1>8. CASE WriteVerdict(r)
  <2> HIDE DEF RequestTells
  <2>1. TypeOK' /\ SentOnce' /\ HashTerms' /\ VerdictIsOnChain' /\ SuccessIsOnChain'
    BY <1>8 DEF WriteVerdict, PaymentStatuses
  <2>2. \A p \in Payment : row[p] = "none" => row'[p] = "none"
    BY <1>8 DEF WriteVerdict, CasMatches, Unsettled
  <2> QED BY <2>1, <2>2 DEF RequestTells
<1> QED
  BY <1>1, <1>2, <1>3, <1>4, <1>5, <1>6, <1>7, <1>8 DEF ReconcileStep

LEMMA OperatorPreserves ==
  ASSUME IInv, NEW p \in Payment, NEW action \in DOMAIN OperatorAction, OperatorResolve(p, action)
  PROVE  IInv'
<1>1. OperatorAction[action] \in PaymentStatuses \ {"success"}
  BY DEF OperatorAction, PaymentStatuses
<1> QED
  BY <1>1 DEF IInv, TypeOK, PayTypeOK, SentOnce, HashTerms, VerdictIsOnChain, SuccessIsOnChain,
      RequestTells, OperatorResolve

LEMMA NextIInv == IInv /\ [Next]_vars => IInv'
<1> SUFFICES ASSUME IInv, [Next]_vars PROVE IInv'
  OBVIOUS
<1>1. CASE PayNext /\ UNCHANGED rec
  BY <1>1, PayPreserves
<1>2. CASE Reconcile
  BY <1>2, PassPreserves DEF Reconcile
<1>3. ASSUME NEW p \in Payment, NEW action \in DOMAIN OperatorAction, OperatorResolve(p, action)
      PROVE  IInv'
  BY <1>3, OperatorPreserves
<1>4. CASE UNCHANGED vars
  BY <1>4 DEF vars, IInv, TypeOK, PayTypeOK, SentOnce, HashTerms, VerdictIsOnChain,
      SuccessIsOnChain, RequestTells
<1> QED BY <1>1, <1>2, <1>3, <1>4 DEF Next

\* Every variable of the payment and reconciliation code keeps its type.
THEOREM SpecTypeOK == Spec => []TypeOK
<1>1. IInv => TypeOK
  BY DEF IInv
<1> QED BY <1>1, InitIInv, NextIInv, PTL DEF Spec

\* No row ever says 'success' of money that did not move: whatever the
\* interleaving of requests, passes and operators, the row's hash names a
\* transaction the network applied, with the row's sender, amount and
\* destination.
THEOREM SpecSuccessIsOnChain == Spec => []SuccessIsOnChain
<1>1. IInv => SuccessIsOnChain
  BY DEF IInv
<1> QED BY <1>1, InitIInv, NextIInv, PTL DEF Spec

\* The settlement and the reversal of a payment are never both in its journal:
\* the first is posted by the last step of the request that succeeds, the
\* second by the last step of the catch block.
THEOREM SpecNeverBothEntries == Spec => []NeverBothEntries
<1>1. IInv => NeverBothEntries
  BY DEF IInv, RequestTells, NeverBothEntries, JournalEntries
<1> QED BY <1>1, InitIInv, NextIInv, PTL DEF Spec

\* A pass overwrites 'processing' and 'pending' only, however old its read; and
\* every step respects the matrix but the two that DecisionsKept names.
THEOREM SpecDecisionsKept == Spec => DecisionsKept
<1> DEFINE Kept == rec' # rec => \A p \in Payment : row'[p] # row[p] => row[p] \in Unsettled
           Moves == \A p \in Payment :
                      row[p] # "none" /\ ~ IsValidPaymentTransition(row[p], row'[p]) =>
                        \/ pc[p] = "catching" /\ row'[p] = "failed"
                        \/ row[p] = "processing" /\ row'[p] = "expired"
<1> USE DEF IInv, TypeOK, PayTypeOK, IsValidPaymentTransition
<1>1. ASSUME IInv, PayNext, UNCHANGED rec PROVE Kept /\ Moves
  BY <1>1 DEF RequestTells, TransitionAccepted, PayNext, PayRequest, Reserve, Submit, NeverSent,
    SubmitReturns, SubmitThrows, MarkPending, MarkPendingThrows, PostSettled, PostSettledThrows,
    MarkTransactionFailed, PostFailed, Crash, Close, Tick
<1>2. ASSUME IInv, NEW r \in Reconciler, ReconcileStep(r) PROVE Kept /\ Moves
  <2>1. CASE UNCHANGED <<row, hash>>
    BY <2>1
  <2>2. CASE WriteVerdict(r)
    BY <1>2, <2>2 DEF WriteVerdict, CasMatches, Unsettled, PaymentTransitions,
      Idle, Picked, NoEvidence, Decided
  <2> QED BY <1>2, <2>1, <2>2 DEF ReconcileStep
<1>3. ASSUME IInv, NEW p \in Payment, NEW action \in DOMAIN OperatorAction, OperatorResolve(p, action)
      PROVE  Kept /\ Moves
  BY <1>3 DEF OperatorResolve, TransitionAccepted
<1>4. IInv /\ [Next]_vars => [Kept]_vars /\ [Moves]_vars
  BY <1>1, <1>2, <1>3 DEF Next, Reconcile
<1> HIDE DEF Kept, Moves
<1>5. IInv /\ [Next]_vars => [Kept /\ Moves]_vars
  BY <1>4
<1>6. Spec => [][Kept]_vars /\ [][Moves]_vars
  BY <1>4, InitIInv, NextIInv, PTL DEF Spec
<1> QED BY <1>6 DEF Kept, Moves, DecisionsKept, PassKeepsDecisions, KnownMatrixBreaks
-----------------------------------------------------------------------------
(* Money *)

\* A natural number by another: quotient and remainder.
LEMMA DivideOf ==
  ASSUME NEW n \in Nat, NEW d \in Nat \ {0}
  PROVE  \E q \in Nat, r \in Nat :
           /\ q = n \div d /\ r = n % d /\ r < d /\ n = d * q + r
<1>1. n \div d \in Int /\ n \div d >= 0
  OBVIOUS
<1>2. n % d \in 0 .. d - 1
  OBVIOUS
<1>3. n % d = n - (n \div d) * d
  BY SMT
<1>4. PICK q \in Nat, r \in Nat : q = n \div d /\ r = n % d
  BY <1>1, <1>2
<1>5. r = n - q * d /\ q * d = d * q /\ d * q \in Nat
  BY <1>3, <1>4
<1>6. n = d * q + r
  BY <1>4, <1>5
<1> QED BY <1>2, <1>4, <1>6

\* What is rounded half up is at most half a denominator away, above only if not
\* nearer below.
LEMMA HalfUp ==
  ASSUME NEW n \in Nat, NEW d \in Nat \ {0}
  PROVE  \E q \in Nat : /\ q = RoundHalfUp(n, d)
                        /\ 2 * (d * q) <= 2 * n + d /\ 2 * n < 2 * (d * q) + d
<1>1. PICK p \in Nat, r \in Nat : p = n \div d /\ r = n % d /\ r < d /\ n = d * p + r
  BY DivideOf
<1>2. d * (p + 1) = d * p + d /\ d * p \in Nat
  OBVIOUS
<1>3. CASE r * 2 >= d
  <2>1. RoundHalfUp(n, d) = p + 1
    BY <1>1, <1>3 DEF RoundHalfUp
  <2>2. 2 * (d * (p + 1)) <= 2 * n + d /\ 2 * n < 2 * (d * (p + 1)) + d
    <3> DEFINE dp == d * p
    <3>1. dp \in Nat /\ n = dp + r /\ d * (p + 1) = dp + d
      BY <1>1, <1>2
    <3> HIDE DEF dp
    <3> QED BY <1>1, <1>3, <3>1
  <2> QED BY <2>1, <2>2
<1>4. CASE ~ (r * 2 >= d)
  <2>1. RoundHalfUp(n, d) = p
    BY <1>1, <1>4 DEF RoundHalfUp
  <2>2. 2 * (d * p) <= 2 * n + d /\ 2 * n < 2 * (d * p) + d
    <3> DEFINE dp == d * p
    <3>1. dp \in Nat /\ n = dp + r
      BY <1>1, <1>2
    <3> HIDE DEF dp
    <3> QED BY <1>1, <1>4, <3>1
  <2> QED BY <2>1, <2>2
<1> QED BY <1>3, <1>4

\* The more times, the more.
LEMMA MoreTimes ==
  ASSUME NEW d \in Nat \ {0}, NEW p \in Int, NEW q \in Int, p < q
  PROVE  d * p + d <= d * q
<1>1. PICK e \in Nat : q = p + 1 + e
  <2>1. q - p - 1 \in Nat /\ q = p + 1 + (q - p - 1)
    OBVIOUS
  <2> QED BY <2>1
<1>2. d * q = d * p + d + d * e
  BY <1>1
<1>3. d * e \in Nat /\ d * p \in Int
  OBVIOUS
<1> QED BY <1>2, <1>3

\* multiplyRatio rounds to the nearest whole number ...
LEMMA HalfUpIsNearest ==
  ASSUME NEW n \in Nat, NEW d \in Nat \ {0}
  PROVE  RoundHalfUp(n, d) \in Nat /\ 2 * Abs(RoundHalfUp(n, d) * d - n) <= d
<1>1. PICK q \in Nat : q = RoundHalfUp(n, d) /\ 2 * (d * q) <= 2 * n + d /\ 2 * n < 2 * (d * q) + d
  BY HalfUp
<1>2. PICK m \in Nat : m = d * q /\ m = q * d
  OBVIOUS
<1>3. 2 * Abs(m - n) <= d
  BY <1>1, <1>2 DEF Abs
<1> QED BY <1>1, <1>2, <1>3

\* ... never to more for less,
LEMMA HalfUpIsMonotone ==
  ASSUME NEW m \in Nat, NEW n \in Nat, NEW d \in Nat \ {0}, m <= n
  PROVE  RoundHalfUp(m, d) <= RoundHalfUp(n, d)
<1>1. PICK p \in Nat, q \in Nat :
         /\ p = RoundHalfUp(m, d) /\ 2 * (d * p) <= 2 * m + d
         /\ q = RoundHalfUp(n, d) /\ 2 * n < 2 * (d * q) + d
  BY HalfUp
<1>2. ASSUME q < p PROVE FALSE
  <2>1. d * q + d <= d * p
    BY <1>2, MoreTimes
  <2>2. d * q \in Nat /\ d * p \in Nat
    OBVIOUS
  <2> QED BY <1>1, <2>1, <2>2
<1> QED BY <1>1, <1>2

\* ... and parts to the whole but for one.
LEMMA HalfUpOfParts ==
  ASSUME NEW m \in Nat, NEW n \in Nat, NEW d \in Nat \ {0}
  PROVE  Abs(RoundHalfUp(m, d) + RoundHalfUp(n, d) - RoundHalfUp(m + n, d)) <= 1
<1>1. PICK p \in Nat, q \in Nat, s \in Nat :
         /\ p = RoundHalfUp(m, d) /\ 2 * (d * p) <= 2 * m + d /\ 2 * m < 2 * (d * p) + d
         /\ q = RoundHalfUp(n, d) /\ 2 * (d * q) <= 2 * n + d /\ 2 * n < 2 * (d * q) + d
         /\ s = RoundHalfUp(m + n, d) /\ 2 * (d * s) <= 2 * (m + n) + d /\ 2 * (m + n) < 2 * (d * s) + d
  <2>1. m + n \in Nat
    OBVIOUS
  <2> QED BY <2>1, HalfUp
<1>2. d * p \in Nat /\ d * q \in Nat /\ d * s \in Nat
  OBVIOUS
<1>3. ASSUME s + 1 < p + q PROVE FALSE
  <2>1. d * (s + 1) + d <= d * (p + q)
    BY <1>3, MoreTimes
  <2>2. d * (s + 1) = d * s + d /\ d * (p + q) = d * p + d * q
    OBVIOUS
  <2> QED BY <1>1, <1>2, <2>1, <2>2
<1>4. ASSUME p + q + 1 < s PROVE FALSE
  <2>1. d * (p + q + 1) + d <= d * s
    BY <1>4, MoreTimes
  <2>2. d * (p + q + 1) = d * p + d * q + d
    OBVIOUS
  <2> QED BY <1>1, <1>2, <2>1, <2>2
<1> QED BY <1>1, <1>3, <1>4 DEF Abs

\* A fee of one percent is no more than the amount.
LEMMA FeeIsAPart == \A a \in Nat : FeeIsPart(a)
<1> SUFFICES ASSUME NEW a \in Nat PROVE Percentage(a, 100) <= a
  BY DEF FeeIsPart
<1>1. PICK q \in Nat : q = RoundHalfUp(a * 100, 10000) /\ 2 * (10000 * q) <= 2 * (a * 100) + 10000
  BY HalfUp
<1>2. q <= a
  BY <1>1
<1> QED BY <1>1, <1>2 DEF Percentage

\* Powers of ten are whole and multiply: arithmetic that the provers do not know of
\* ^, stated where it is needed.
PowersOfTen ==
  \A n \in Nat, m \in Nat : 10 ^ n \in Nat \ {0} /\ 10 ^ (n + m) = 10 ^ n * 10 ^ m

\* Numerator and denominator of a conversion.
LEMMA ScaleOfRate ==
  ASSUME PowersOfTen, NEW rate \in (Nat \ {0}) \X Nat, NEW s \in Nat, NEW t \in Nat, NEW a \in Nat
  PROVE  /\ Denominator(rate) * 10 ^ s \in Nat \ {0}
         /\ 10 ^ t \in Nat \ {0} /\ Numerator(rate) \in Nat \ {0}
         /\ a * 10 ^ t * Numerator(rate) \in Nat
<1>1. rate[1] \in Nat \ {0} /\ rate[2] \in Nat
  OBVIOUS
<1>2. PICK x \in Nat \ {0}, y \in Nat \ {0}, z \in Nat \ {0}, n \in Nat \ {0} :
         x = 10 ^ rate[2] /\ y = 10 ^ s /\ z = 10 ^ t /\ n = rate[1]
  BY <1>1 DEF PowersOfTen
<1>3. x * y \in Nat \ {0} /\ a * z * n \in Nat
  OBVIOUS
<1> QED BY <1>2, <1>3 DEF Denominator, Numerator

\* A conversion between any two precisions at any rate (convert, utils/money.js).
LEMMA ConversionIsExact ==
  ASSUME PowersOfTen, NEW a \in Nat, NEW b \in Nat, NEW rate \in (Nat \ {0}) \X Nat, NEW s \in Nat, NEW t \in Nat
  PROVE  WithinHalfAUnit(a, rate, s, t) /\ WholeOfParts(a, b, rate, s, t) /\ Monotone(a, b, rate, s, t)
<1>1. PICK d \in Nat \ {0}, z \in Nat \ {0}, n \in Nat \ {0} :
        d = Denominator(rate) * 10 ^ s /\ z = 10 ^ t /\ n = Numerator(rate)
  BY ScaleOfRate
<1>2. PICK x \in Nat, y \in Nat : x = a * z * n /\ y = b * z * n /\ (a + b) * z * n = x + y
  <2>1. a * z * n \in Nat /\ b * z * n \in Nat /\ (a + b) * z * n = a * z * n + b * z * n
    OBVIOUS
  <2> QED BY <2>1
<1>3. /\ Convert(a, s, t, rate) = RoundHalfUp(x, d) /\ Convert(b, s, t, rate) = RoundHalfUp(y, d)
      /\ Convert(a + b, s, t, rate) = RoundHalfUp(x + y, d)
  BY <1>1, <1>2 DEF Convert
<1>4. WithinHalfAUnit(a, rate, s, t)
  <2>1. 2 * Abs(RoundHalfUp(x, d) * d - x) <= d
    BY HalfUpIsNearest
  <2> QED BY <1>1, <1>2, <1>3, <2>1 DEF WithinHalfAUnit
<1>5. WholeOfParts(a, b, rate, s, t)
  BY <1>3, HalfUpOfParts DEF WholeOfParts
<1>6. Monotone(a, b, rate, s, t)
  <2>1. ASSUME a <= b PROVE x <= y
    <3>1. PICK e \in Nat : b = a + e
      <4>1. b - a \in Nat /\ b = a + (b - a)
        BY <2>1
      <4> QED BY <4>1
    <3>2. b * z * n = a * z * n + e * z * n /\ e * z * n \in Nat
      BY <3>1
    <3> QED BY <1>2, <3>2
  <2> QED BY <1>3, <2>1, HalfUpIsMonotone DEF Monotone
<1> QED BY <1>4, <1>5, <1>6

\* A product of rates (multiplyDecimalRates).
LEMMA ProductIsExact ==
  ASSUME PowersOfTen, NEW a \in (Nat \ {0}) \X Nat, NEW b \in Nat \X Nat, NEW digits \in Nat
  PROVE  LET product == MultiplyRates(a, b, digits)
         IN 2 * Abs(product[1] * 10 ^ (a[2] + b[2]) - a[1] * b[1] * 10 ^ digits) <= 10 ^ (a[2] + b[2])
<1>1. a[1] \in Nat /\ b[1] \in Nat /\ a[2] \in Nat /\ b[2] \in Nat
  OBVIOUS
<1>2. 10 ^ (a[2] + b[2]) = 10 ^ a[2] * 10 ^ b[2] /\ 10 ^ (a[2] + b[2]) \in Nat \ {0}
  <2>1. a[2] + b[2] \in Nat
    BY <1>1
  <2> QED BY <1>1, <2>1 DEF PowersOfTen
<1>3. PICK d \in Nat \ {0} : d = 10 ^ (a[2] + b[2]) /\ d = 10 ^ a[2] * 10 ^ b[2]
  BY <1>2
<1>4. PICK x \in Nat : x = a[1] * b[1] * 10 ^ digits
  <2>1. PICK z \in Nat : z = a[1] * b[1]
    BY <1>1
  <2>2. PICK y \in Nat : y = 10 ^ digits
    BY DEF PowersOfTen
  <2>3. z * y \in Nat
    OBVIOUS
  <2> QED BY <2>1, <2>2, <2>3
<1>5. MultiplyRates(a, b, digits)[1] = RoundHalfUp(x, d)
  BY <1>3, <1>4 DEF MultiplyRates, Numerator, Denominator
<1>6. 2 * Abs(RoundHalfUp(x, d) * d - x) <= d
  BY HalfUpIsNearest
<1> QED BY <1>3, <1>4, <1>5, <1>6

\* What is formatted is parsed as the same amount.
LEMMA AmountsSurvive == \A a \in Nat, precision \in Nat : RoundTrip(a, precision)
<1> SUFFICES ASSUME NEW a \in Nat, NEW precision \in Nat PROVE RoundTrip(a, precision)
  OBVIOUS
<1>1. precision - precision = 0 /\ 10 ^ 0 = 1 /\ a * 1 = a
  OBVIOUS
<1>2. a * 10 ^ (precision - precision) = a
  BY <1>1
<1>3. FormatUnits(a, precision)[1] = a /\ FormatUnits(a, precision)[2] = precision /\ precision <= precision
  BY DEF FormatUnits
<1> QED BY <1>2, <1>3 DEF RoundTrip, ParseUnits

\* Sums, differences and comparisons of decimals (add, subtract, compare).
LEMMA SumsAreExact ==
  ASSUME PowersOfTen, NEW a \in Nat, NEW b \in Nat, NEW s \in Nat, NEW t \in Nat
  PROVE  PartsOrdered(a, b, s, t)
<1> DEFINE one == <<a, s>>
           other == <<b, s>>
<1> SUFFICES ASSUME s <= t
             PROVE  /\ Subtract(Add(one, other, t), other, t) = FormatUnits(ParseUnits(one, t), t)
                    /\ Compare(one, other, t) = - Compare(other, one, t)
                    /\ Compare(Add(one, other, t), one, t) = (IF b = 0 THEN 0 ELSE 1)
  BY DEF PartsOrdered, Addable, Parseable
<1>1. PICK z \in Nat \ {0} : z = 10 ^ (t - s)
  <2>1. t - s \in Nat
    OBVIOUS
  <2> QED BY <2>1 DEF PowersOfTen
<1>2. PICK x \in Nat, y \in Nat : /\ x = a * z /\ y = b * z /\ (y = 0 <=> b = 0)
                                  /\ ParseUnits(one, t) = x /\ ParseUnits(other, t) = y
  <2>1. a * z \in Nat /\ b * z \in Nat /\ (b * z = 0 <=> b = 0)
    OBVIOUS
  <2>2. ParseUnits(one, t) = a * z /\ ParseUnits(other, t) = b * z
    BY <1>1 DEF ParseUnits
  <2> QED BY <2>1, <2>2
<1>3. Add(one, other, t) = FormatUnits(x + y, t)
  BY <1>2 DEF Add
<1>4. ParseUnits(FormatUnits(x + y, t), t) = x + y
  <2>1. x + y \in Nat
    OBVIOUS
  <2> QED BY <2>1, AmountsSurvive DEF RoundTrip
<1> HIDE DEF one, other
<1>5. Subtract(Add(one, other, t), other, t) = FormatUnits(ParseUnits(one, t), t)
  <2>1. x + y - y = x
    OBVIOUS
  <2> QED BY <1>2, <1>3, <1>4, <2>1 DEF Subtract
<1>6. Compare(one, other, t) = - Compare(other, one, t)
  BY <1>2 DEF Compare
<1>7. Compare(Add(one, other, t), one, t) = (IF b = 0 THEN 0 ELSE 1)
  BY <1>2, <1>3, <1>4 DEF Compare
<1> QED BY <1>5, <1>6, <1>7

\* A repaired amount is the nearest one of its precision, and the same if it has it.
LEMMA CanonicalIsNearest ==
  ASSUME PowersOfTen, NEW n \in Nat, NEW k \in Nat, NEW p \in Nat
  PROVE  \E x \in Nat : /\ CanonicalAmount(<<n, k>>, p) = <<x, p>>
                        /\ 2 * Abs(x * 10 ^ k - n * 10 ^ p) <= 10 ^ k
                        /\ k = p => x = n
<1>1. PICK d \in Nat \ {0}, z \in Nat \ {0} : d = 10 ^ k /\ z = 10 ^ p
  BY DEF PowersOfTen
<1>2. PICK m \in Nat : m = n * z
  <2>1. n * z \in Nat
    OBVIOUS
  <2> QED BY <2>1
<1>3. PICK h \in Nat : h = d \div 2 /\ 2 * h <= d /\ d <= 2 * h + 1
  OBVIOUS
<1>4. PICK x \in Nat, r \in Nat : x = (m + h) \div d /\ r < d /\ m + h = d * x + r
  <2>1. m + h \in Nat
    OBVIOUS
  <2> QED BY <2>1, DivideOf
<1>5. CanonicalAmount(<<n, k>>, p) = <<x, p>>
  BY <1>1, <1>2, <1>3, <1>4 DEF CanonicalAmount
<1>6. PICK y \in Nat : y = d * x /\ y = x * d
  OBVIOUS
<1>7. 2 * Abs(y - m) <= d
  BY <1>3, <1>4, <1>6 DEF Abs
<1>8. ASSUME k = p PROVE x = n
  <2>1. m = d * n
    BY <1>1, <1>2, <1>8
  <2>2. h < d
    BY <1>3
  <2>3. ASSUME x < n PROVE FALSE
    <3>1. d * x + d <= d * n
      BY <2>3, MoreTimes
    <3> QED BY <1>4, <1>6, <2>1, <3>1
  <2>4. ASSUME n < x PROVE FALSE
    <3>1. d * n + d <= d * x
      BY <2>4, MoreTimes
    <3> QED BY <1>4, <1>6, <2>1, <2>2, <3>1
  <2> QED BY <2>3, <2>4
<1> QED BY <1>1, <1>2, <1>5, <1>6, <1>7, <1>8

\* An amount of the precision stays as it is.
LEMMA CanonicalStays ==
  ASSUME PowersOfTen, NEW n \in Nat, NEW p \in Nat
  PROVE  CanonicalAmount(<<n, p>>, p) = <<n, p>>
BY CanonicalIsNearest

\* One repair of a quote or a payment is enough (reconcileMonetaryValues).
LEMMA RepairsAreDone ==
  ASSUME PowersOfTen, NEW a \in Nat, NEW b \in Nat, NEW s \in Nat, NEW t \in Nat
  PROVE  RepairedOnce(a, b, s, t)
<1> DEFINE quote == [source |-> <<a, s>>, target |-> <<b, s>>, fee |-> <<a, s + 1>>]
           repaired == RepairQuote(quote, t, 2)
           payment == RepairPayment(<<a, s>>, t)
           written == [source |-> FormatUnits(a, t), target |-> FormatUnits(b, 2), fee |-> FormatUnits(a, t)]
<1>1. ASSUME NEW x \in Nat, NEW y \in Nat, NEW z \in Nat
      PROVE  RepairQuote([source |-> <<x, t>>, target |-> <<y, 2>>, fee |-> <<z, t>>], t, 2)
               = [source |-> <<x, t>>, target |-> <<y, 2>>, fee |-> <<z, t>>]
  <2>1. /\ CanonicalAmount(<<x, t>>, t) = <<x, t>> /\ CanonicalAmount(<<y, 2>>, 2) = <<y, 2>>
        /\ CanonicalAmount(<<z, t>>, t) = <<z, t>>
    BY CanonicalStays
  <2> QED BY <2>1 DEF RepairQuote
<1>2. PICK x \in Nat : /\ CanonicalAmount(<<a, s>>, t) = <<x, t>>
                       /\ 2 * Abs(x * 10 ^ s - a * 10 ^ t) <= 10 ^ s
  BY CanonicalIsNearest
<1>3. PICK y \in Nat : /\ CanonicalAmount(<<b, s>>, 2) = <<y, 2>>
                       /\ 2 * Abs(y * 10 ^ s - b * 10 ^ 2) <= 10 ^ s
  <2>1. 2 \in Nat
    OBVIOUS
  <2> QED BY <2>1, CanonicalIsNearest
<1>4. PICK z \in Nat : /\ CanonicalAmount(<<a, s + 1>>, t) = <<z, t>>
                       /\ 2 * Abs(z * 10 ^ (s + 1) - a * 10 ^ t) <= 10 ^ (s + 1)
  <2>1. s + 1 \in Nat
    OBVIOUS
  <2> QED BY <2>1, CanonicalIsNearest
<1>5. ~ Throws(quote) => repaired = [source |-> <<x, t>>, target |-> <<y, 2>>, fee |-> <<z, t>>]
  BY <1>2, <1>3, <1>4 DEF RepairQuote
<1>6. RepairQuote(repaired, t, 2) = repaired
  <2>1. CASE Throws(quote)
    BY <2>1 DEF RepairQuote
  <2>2. CASE ~ Throws(quote)
    BY <2>2, <1>1, <1>5
  <2> QED BY <2>1, <2>2
<1>7. RepairPayment(payment, t) = payment
  <2>1. CanonicalAmount(<<x, t>>, t) = <<x, t>>
    BY CanonicalStays
  <2> QED BY <1>2, <2>1 DEF RepairPayment
<1>8. ~ Throws(quote) => 2 * Abs(repaired.source[1] * 10 ^ s - a * 10 ^ t) <= 10 ^ s
  BY <1>2, <1>5
<1>9. RepairQuote(written, t, 2) = written
  BY <1>1 DEF FormatUnits
<1> HIDE DEF repaired, payment, written
<1> QED BY <1>6, <1>7, <1>8, <1>9 DEF RepairedOnce, repaired, payment, written

\* A number without its exponent is the same number.
LEMMA ExponentExpands ==
  ASSUME PowersOfTen, NEW n \in Nat, NEW k \in Nat, NEW exponent \in Nat
  PROVE  LET plain == WithoutExponent(n, k, exponent)
         IN plain[1] * 10 ^ k = n * 10 ^ (exponent + plain[2])
<1>1. CASE k <= exponent
  <2>1. exponent - k \in Nat /\ exponent - k + k = exponent /\ exponent + 0 = exponent
    BY <1>1
  <2>2. 10 ^ (exponent - k + k) = 10 ^ (exponent - k) * 10 ^ k
    BY <2>1 DEF PowersOfTen
  <2>3. PICK x \in Nat, y \in Nat, z \in Nat : x = 10 ^ (exponent - k) /\ y = 10 ^ k /\ z = 10 ^ exponent
    BY <2>1 DEF PowersOfTen
  <2>4. z = x * y
    BY <2>1, <2>2, <2>3
  <2>5. n * x * y = n * (x * y)
    OBVIOUS
  <2> QED BY <1>1, <2>1, <2>3, <2>4, <2>5 DEF WithoutExponent
<1>2. CASE ~ (k <= exponent)
  <2>1. exponent + (k - exponent) = k
    OBVIOUS
  <2> QED BY <1>2, <2>1 DEF WithoutExponent
<1> QED BY <1>1, <1>2

\* The sum of the chosen of three numbers.
OfThree(s, p, q, r, x, y, z) ==
  (IF p \in s THEN x ELSE 0) + (IF q \in s THEN y ELSE 0) + (IF r \in s THEN z ELSE 0)

\* The fold takes one of what is left.
LEMMA ChosenFirst ==
  ASSUME NEW s, s # {}
  PROVE  (CHOOSE x \in s : TRUE) \in s
OBVIOUS

\* A fold over an entry of at most three accounts is a sum: the sums of the chosen
\* accounts solve the equations of the fold, and any solution is unfolded step by
\* step, whichever account it takes first.
LEMMA SumOfThree ==
  ASSUME NEW p, NEW q, NEW r, p # q, q # r, p # r,
         NEW entry, DOMAIN entry \subseteq {p, q, r},
         NEW x \in Int, NEW y \in Int, NEW z \in Int,
         p \in DOMAIN entry => entry[p] = x, q \in DOMAIN entry => entry[q] = y, r \in DOMAIN entry => entry[r] = z
  PROVE  SumPostings(entry) = OfThree(DOMAIN entry, p, q, r, x, y, z)
<1> DEFINE D == DOMAIN entry
           first(s) == CHOOSE c \in s : TRUE
           g == [s \in SUBSET D |-> OfThree(s, p, q, r, x, y, z)]
           Solves(f) == f = [s \in SUBSET D |-> IF s = {} THEN 0 ELSE entry[first(s)] + f[s \ {first(s)}]]
<1>1. ASSUME NEW s \in SUBSET D, s # {}
      PROVE  OfThree(s, p, q, r, x, y, z) = entry[first(s)] + OfThree(s \ {first(s)}, p, q, r, x, y, z)
  <2>1. PICK c : c = first(s) /\ c \in s
    BY <1>1, ChosenFirst
  <2>2. c \in {p, q, r} /\ c \in D
    BY <2>1
  <2>3. OfThree(s, p, q, r, x, y, z) = entry[c] + OfThree(s \ {c}, p, q, r, x, y, z)
    <3> DEFINE rest == s \ {c}
    <3>1. \A e : e \in rest <=> e \in s /\ e # c
      OBVIOUS
    <3> HIDE DEF rest
    <3>2. CASE c = p
      <4>1. entry[c] = x /\ p \in s /\ p \notin rest /\ (q \in rest <=> q \in s) /\ (r \in rest <=> r \in s)
        BY <2>1, <2>2, <3>1, <3>2
      <4> QED BY <4>1 DEF OfThree, rest
    <3>3. CASE c = q
      <4>1. entry[c] = y /\ q \in s /\ q \notin rest /\ (p \in rest <=> p \in s) /\ (r \in rest <=> r \in s)
        BY <2>1, <2>2, <3>1, <3>3
      <4> QED BY <4>1 DEF OfThree, rest
    <3>4. CASE c = r
      <4>1. entry[c] = z /\ r \in s /\ r \notin rest /\ (p \in rest <=> p \in s) /\ (q \in rest <=> q \in s)
        BY <2>1, <2>2, <3>1, <3>4
      <4> QED BY <4>1 DEF OfThree, rest
    <3> QED BY <2>2, <3>2, <3>3, <3>4
  <2> QED BY <2>1, <2>3
<1>2. Solves(g)
  <2>1. \A s \in SUBSET D : g[s] = IF s = {} THEN 0 ELSE entry[first(s)] + g[s \ {first(s)}]
    <3>1. OfThree({}, p, q, r, x, y, z) = 0
      BY DEF OfThree
    <3> HIDE DEF first
    <3> QED BY <1>1, <3>1
  <2> HIDE DEF first
  <2> QED BY <2>1
<1>3. PICK f : Solves(f) /\ SumPostings(entry) = f[D]
  BY <1>2 DEF SumPostings, FoldFunction, FoldFunctionOnSet, MapThenFoldSet
<1> HIDE DEF first
<1>4. /\ f[{}] = 0
      /\ \A s \in SUBSET D : s # {} => f[s] = entry[first(s)] + f[s \ {first(s)}]
      /\ \A s \in SUBSET D : s # {} => first(s) \in s
  BY <1>3, ChosenFirst DEF first
<1> HIDE DEF Solves, D
<1>5. \A c \in D : f[{c}] = OfThree({c}, p, q, r, x, y, z)
  <2> SUFFICES ASSUME NEW c \in D PROVE f[{c}] = OfThree({c}, p, q, r, x, y, z)
    OBVIOUS
  <2>1. {c} \in SUBSET D /\ first({c}) = c /\ {c} \ {c} = {}
    BY <1>4
  <2>2. f[{c}] = entry[c] + 0
    BY <1>4, <2>1
  <2> QED BY <2>2 DEF OfThree, D
<1>6. \A c \in D, d \in D : c # d => f[{c, d}] = OfThree({c, d}, p, q, r, x, y, z)
  <2> SUFFICES ASSUME NEW c \in D, NEW d \in D, c # d PROVE f[{c, d}] = OfThree({c, d}, p, q, r, x, y, z)
    OBVIOUS
  <2>1. PICK e : e = first({c, d}) /\ e \in {c, d}
    BY <1>4
  <2>2. {c, d} \in SUBSET D /\ {c, d} # {} /\ f[{c, d}] = entry[e] + f[{c, d} \ {e}]
    BY <1>4, <2>1
  <2>3. PICK o \in {c, d} : {c, d} \ {e} = {o} /\ {c, d} = {e, o} /\ o # e
    BY <2>1
  <2>4. f[{c, d}] = entry[e] + OfThree({o}, p, q, r, x, y, z)
    BY <1>5, <2>2, <2>3
  <2>5. e \in {p, q, r} /\ o \in {p, q, r} /\ e \in D /\ o \in D
    BY <2>1 DEF D
  <2>6. entry[e] + OfThree({o}, p, q, r, x, y, z) = OfThree({e, o}, p, q, r, x, y, z)
    BY <2>3, <2>5 DEF OfThree, D
  <2> QED BY <2>3, <2>4, <2>6
<1>7. CASE D = {p, q, r}
  <2>1. PICK e : e = first(D) /\ e \in D
    BY <1>4, <1>7
  <2>2. f[D] = entry[e] + f[D \ {e}]
    BY <1>4, <1>7, <2>1
  <2>3. PICK c \in D, d \in D : D \ {e} = {c, d} /\ c # d /\ D = {e, c, d} /\ e # c /\ e # d
    BY <1>7, <2>1
  <2>4. f[D] = entry[e] + OfThree({c, d}, p, q, r, x, y, z)
    BY <1>6, <2>2, <2>3
  <2>5. entry[e] + OfThree({c, d}, p, q, r, x, y, z) = OfThree({e, c, d}, p, q, r, x, y, z)
    BY <1>7, <2>1, <2>3 DEF OfThree, D
  <2> QED BY <1>3, <2>3, <2>4, <2>5 DEF D
<1>8. CASE D # {p, q, r}
  <2>1. D = {} \/ (\E c \in D : D = {c}) \/ (\E c \in D, d \in D : c # d /\ D = {c, d})
    <3>1. PICK e \in {p, q, r} : e \notin D
      BY <1>8 DEF D
    <3>2. PICK c, d : {c, d} = {p, q, r} \ {e} /\ c # d
      OBVIOUS
    <3>3. D \subseteq {c, d}
      BY <3>1, <3>2 DEF D
    <3>4. D = {} \/ D = {c} \/ D = {d} \/ D = {c, d}
      BY <3>3
    <3> QED BY <3>2, <3>4
  <2>2. f[{}] = OfThree({}, p, q, r, x, y, z)
    BY <1>4 DEF OfThree
  <2>3. f[D] = OfThree(D, p, q, r, x, y, z)
    BY <1>5, <1>6, <2>1, <2>2
  <2> QED BY <1>3, <2>3 DEF D
<1> QED BY <1>7, <1>8

\* The largest of some numbers.
LEMMA MaxOf ==
  ASSUME NEW n \in Nat, NEW s \in SUBSET (1 .. n), NEW m \in s, \A i \in s : i <= m
  PROVE  Max(s) = m
<1>1. \A x \in s : (\A y \in s : x >= y) => x = m
  <2> SUFFICES ASSUME NEW x \in s, \A y \in s : x >= y PROVE x = m
    OBVIOUS
  <2>1. x >= m /\ x <= m /\ x \in Int /\ m \in Int
    OBVIOUS
  <2> QED BY <2>1
<1>2. \A y \in s : m >= y
  OBVIOUS
<1> QED BY <1>1, <1>2 DEF Max

Posted(entry, account) == IF account \in DOMAIN entry THEN entry[account] ELSE 0

\* The same for a fold over two or three entries, which takes the last one first.
LEMMA BalanceOfThree ==
  ASSUME NEW account, NEW entries, NEW n \in {2, 3}, DOMAIN entries = 1 .. n,
         NEW x \in Int, NEW y \in Int, NEW z \in Int,
         Posted(entries[1], account) = x, Posted(entries[2], account) = y, n = 3 => Posted(entries[3], account) = z
  PROVE  Balance(entries, account) = x + y + (IF n = 3 THEN z ELSE 0)
<1> DEFINE D == 1 .. n
           g == [s \in SUBSET D |-> OfThree(s, 1, 2, 3, x, y, z)]
           Solves(f) == f = [s \in SUBSET D |-> IF s = {} THEN 0 ELSE f[s \ {Max(s)}] + Posted(entries[Max(s)], account)]
<1>1. \A i \in D : /\ i \in {1, 2, 3} /\ (i = 3 => n = 3)
                   /\ \/ i = 1 /\ Posted(entries[i], account) = x
                      \/ i = 2 /\ Posted(entries[i], account) = y
                      \/ i = 3 /\ Posted(entries[i], account) = z
  <2> SUFFICES ASSUME NEW i \in D
               PROVE  /\ i \in {1, 2, 3} /\ (i = 3 => n = 3)
                      /\ \/ i = 1 /\ Posted(entries[i], account) = x
                         \/ i = 2 /\ Posted(entries[i], account) = y
                         \/ i = 3 /\ Posted(entries[i], account) = z
    OBVIOUS
  <2>1. i \in {1, 2, 3} /\ (i = 3 => n = 3)
    OBVIOUS
  <2> QED BY <2>1
<1>2. ASSUME NEW s \in SUBSET D, s # {} PROVE \E m \in s : Max(s) = m /\ \A i \in s : i <= m
  <2>1. CASE 3 \in s
    <3>1. n \in Nat /\ \A i \in s : i <= 3
      BY <1>1
    <3>2. Max(s) = 3
      BY <2>1, <3>1, MaxOf
    <3> QED BY <2>1, <3>1, <3>2
  <2>2. CASE 3 \notin s /\ 2 \in s
    BY <1>1, <2>2, MaxOf
  <2>3. CASE 3 \notin s /\ 2 \notin s
    <3>1. 1 \in s /\ s = {1}
      BY <1>1, <1>2, <2>3
    <3> QED BY <3>1, MaxOf
  <2> QED BY <2>1, <2>2, <2>3
<1>3. ASSUME NEW s \in SUBSET D, s # {}
      PROVE  OfThree(s, 1, 2, 3, x, y, z) = OfThree(s \ {Max(s)}, 1, 2, 3, x, y, z) + Posted(entries[Max(s)], account)
  <2>1. PICK m \in s : m = Max(s)
    BY <1>2, <1>3
  <2> DEFINE rest == s \ {m}
  <2>2. \A i : i \in rest <=> i \in s /\ i # m
    OBVIOUS
  <2> HIDE DEF rest
  <2>3. OfThree(s, 1, 2, 3, x, y, z) = OfThree(rest, 1, 2, 3, x, y, z) + Posted(entries[m], account)
    <3>1. CASE m = 1
      <4>1. Posted(entries[m], account) = x /\ 1 \in s /\ 1 \notin rest /\ (2 \in rest <=> 2 \in s) /\ (3 \in rest <=> 3 \in s)
        BY <1>1, <2>2, <3>1
      <4> QED BY <4>1 DEF OfThree
    <3>2. CASE m = 2
      <4>1. Posted(entries[m], account) = y /\ 2 \in s /\ 2 \notin rest /\ (1 \in rest <=> 1 \in s) /\ (3 \in rest <=> 3 \in s)
        BY <1>1, <2>2, <3>2
      <4> QED BY <4>1 DEF OfThree
    <3>3. CASE m = 3
      <4>1. Posted(entries[m], account) = z /\ 3 \in s /\ 3 \notin rest /\ (1 \in rest <=> 1 \in s) /\ (2 \in rest <=> 2 \in s)
        BY <1>1, <2>2, <3>3
      <4> QED BY <4>1 DEF OfThree
    <3> QED BY <1>1, <3>1, <3>2, <3>3
  <2> QED BY <2>1, <2>3 DEF rest
<1>4. Solves(g)
  <2>1. \A s \in SUBSET D : g[s] = IF s = {} THEN 0 ELSE g[s \ {Max(s)}] + Posted(entries[Max(s)], account)
    <3>1. OfThree({}, 1, 2, 3, x, y, z) = 0
      BY DEF OfThree
    <3> HIDE DEF D
    <3> QED BY <1>3, <3>1
  <2> HIDE DEF D
  <2> QED BY <2>1
<1>5. PICK f : Solves(f) /\ Balance(entries, account) = f[D]
  BY <1>4 DEF Balance, FoldLeft, MapThenFoldSet, Posted
<1>6. /\ f[{}] = 0
      /\ \A s \in SUBSET D : s # {} => f[s] = f[s \ {Max(s)}] + Posted(entries[Max(s)], account)
  <2> HIDE DEF D
  <2> QED BY <1>5
<1>7. f[{1}] = x
  <2>1. {1} \in SUBSET D /\ {1} \ {1} = {} /\ {1} # {}
    OBVIOUS
  <2>2. Max({1}) = 1
    BY <2>1, MaxOf
  <2> HIDE DEF D
  <2>3. f[{1}] = f[{1} \ {Max({1})}] + Posted(entries[Max({1})], account)
    BY <1>6, <2>1
  <2>4. f[{1}] = f[{}] + Posted(entries[1], account)
    BY <2>1, <2>2, <2>3
  <2> QED BY <1>6, <2>4
<1>8. f[{1, 2}] = x + y
  <2>1. {1, 2} \in SUBSET D /\ {1, 2} # {} /\ {1, 2} \ {2} = {1}
    OBVIOUS
  <2>2. Max({1, 2}) = 2
    <3>1. 2 \in {1, 2} /\ (\A i \in {1, 2} : i <= 2) /\ 3 \in Nat /\ {1, 2} \in SUBSET (1 .. 3)
      OBVIOUS
    <3> QED BY <3>1, MaxOf
  <2> HIDE DEF D
  <2>3. f[{1, 2}] = f[{1, 2} \ {Max({1, 2})}] + Posted(entries[Max({1, 2})], account)
    BY <1>6, <2>1
  <2>4. f[{1, 2}] = f[{1}] + Posted(entries[2], account)
    BY <2>1, <2>2, <2>3
  <2> QED BY <1>7, <2>4
<1>9. CASE n = 2
  <2>1. D = {1, 2}
    BY <1>9
  <2> QED BY <1>5, <1>8, <1>9, <2>1
<1>10. CASE n = 3
  <2>1. D = {1, 2, 3}
    BY <1>10
  <2>2. Max(D) = 3 /\ D \ {3} = {1, 2} /\ D \in SUBSET D /\ D # {}
    BY <2>1, <1>10, MaxOf
  <2>3. f[D] = f[{1, 2}] + Posted(entries[3], account)
    BY <1>6, <2>2
  <2> QED BY <1>5, <1>8, <1>10, <2>3
<1> QED BY <1>9, <1>10

\* A balanced entry passes assertBalancedPostings.
LEMMA EntryIsWritten ==
  ASSUME NEW p, NEW q, NEW r, p # q, q # r, p # r, NEW x \in Int, NEW y \in Int, NEW z \in Int,
         NEW entry, DOMAIN entry \subseteq {p, q, r},
         p \in DOMAIN entry => entry[p] = x, q \in DOMAIN entry => entry[q] = y, r \in DOMAIN entry => entry[r] = z,
         OfThree(DOMAIN entry, p, q, r, x, y, z) = 0
  PROVE  SumPostings(entry) = 0 /\ CreateJournalEntry(entry) = entry
<1>1. SumPostings(entry) = 0
  BY SumOfThree
<1> QED BY <1>1 DEF CreateJournalEntry

\* A refund of any amount balances.
LEMMA RefundIsWritten ==
  ASSUME NEW c \in Nat
  PROVE  \E refund : /\ refund = [stellar_settled |-> -c, customer_money |-> c]
                     /\ SumPostings(refund) = 0 /\ RefundPosted(c) = refund
<1>1. PICK refund : refund = [stellar_settled |-> -c, customer_money |-> c]
  OBVIOUS
<1>2. /\ DOMAIN refund = {"stellar_settled", "customer_money"}
      /\ refund["stellar_settled"] = -c /\ refund["customer_money"] = c
  BY <1>1
<1>3. -c \in Int /\ OfThree(DOMAIN refund, "stellar_settled", "customer_money", "fee_revenue", -c, c, 0) = 0
  BY <1>2 DEF OfThree
<1>4. SumPostings(refund) = 0 /\ CreateJournalEntry(refund) = refund
  BY <1>2, <1>3, EntryIsWritten
<1> QED BY <1>1, <1>4 DEF RefundPosted

\* Whatever the amount and the fee, the entries of the ledger balance and cancel
\* each other (payment/ledger.service.js).
LEMMA JournalBalances == \A a \in Nat, b \in Nat : BooksBalance(a, b)
<1> SUFFICES ASSUME NEW a \in Nat, NEW b \in Nat PROVE BooksBalance(a, b)
  OBVIOUS
<1>1. PICK reserved : reserved = [customer_money |-> -TotalCharge(a, b), stellar_pending |-> a, fee_revenue |-> b]
  OBVIOUS
<1>2. PICK settled : settled = [stellar_pending |-> -a, stellar_settled |-> a]
  OBVIOUS
<1>3. PICK failed : failed = [customer_money |-> TotalCharge(a, b), stellar_pending |-> -a, fee_revenue |-> -b]
  OBVIOUS
<1>4. PICK refund : /\ refund = [stellar_settled |-> -b, customer_money |-> b]
                    /\ SumPostings(refund) = 0 /\ RefundPosted(b) = refund
  BY RefundIsWritten
<1>5. SumPostings(reserved) = 0 /\ PaymentReserved(a, b) = reserved
  <2>1. /\ DOMAIN reserved = {"customer_money", "stellar_pending", "fee_revenue"}
        /\ reserved["customer_money"] = -(a + b) /\ reserved["stellar_pending"] = a /\ reserved["fee_revenue"] = b
    BY <1>1 DEF TotalCharge
  <2>2. -(a + b) \in Int /\ OfThree(DOMAIN reserved, "customer_money", "stellar_pending", "fee_revenue", -(a + b), a, b) = 0
    BY <2>1 DEF OfThree
  <2>3. SumPostings(reserved) = 0 /\ CreateJournalEntry(reserved) = reserved
    BY <2>1, <2>2, EntryIsWritten
  <2> QED BY <1>1, <2>3 DEF PaymentReserved
<1>6. SumPostings(settled) = 0 /\ PaymentSettled(a) = settled
  <2>1. /\ DOMAIN settled = {"stellar_pending", "stellar_settled"}
        /\ settled["stellar_pending"] = -a /\ settled["stellar_settled"] = a
    BY <1>2
  <2>2. -a \in Int /\ OfThree(DOMAIN settled, "stellar_pending", "stellar_settled", "fee_revenue", -a, a, 0) = 0
    BY <2>1 DEF OfThree
  <2>3. SumPostings(settled) = 0 /\ CreateJournalEntry(settled) = settled
    BY <2>1, <2>2, EntryIsWritten
  <2> QED BY <1>2, <2>3 DEF PaymentSettled
<1>7. SumPostings(failed) = 0 /\ PaymentFailed(a, b) = failed
  <2>1. /\ DOMAIN failed = {"customer_money", "stellar_pending", "fee_revenue"}
        /\ failed["customer_money"] = a + b /\ failed["stellar_pending"] = -a /\ failed["fee_revenue"] = -b
    BY <1>3 DEF TotalCharge
  <2>2. /\ a + b \in Int /\ -a \in Int /\ -b \in Int
        /\ OfThree(DOMAIN failed, "customer_money", "stellar_pending", "fee_revenue", a + b, -a, -b) = 0
    BY <2>1 DEF OfThree
  <2>3. SumPostings(failed) = 0 /\ CreateJournalEntry(failed) = failed
    BY <2>1, <2>2, EntryIsWritten
  <2> QED BY <1>3, <2>3 DEF PaymentFailed
<1>8. PICK whole : /\ whole = [stellar_settled |-> -a, customer_money |-> a]
                   /\ SumPostings(whole) = 0 /\ RefundPosted(a) = whole
  BY RefundIsWritten
<1>9. \A entry \in {reserved, settled, failed, whole} :
        DOMAIN entry # {} /\ ~ Discrepancy(entry, "payment.settled", "success")
  <2>1. DOMAIN reserved # {} /\ DOMAIN settled # {} /\ DOMAIN failed # {} /\ DOMAIN whole # {}
    BY <1>1, <1>2, <1>3, <1>8
  <2> QED BY <1>5, <1>6, <1>7, <1>8, <2>1 DEF Discrepancy
<1>10. \A account \in DOMAIN reserved : Balance(<<reserved, failed>>, account) = 0
  <2> SUFFICES ASSUME NEW account \in DOMAIN reserved PROVE Balance(<<reserved, failed>>, account) = 0
    OBVIOUS
  <2>1. PICK x \in Int, y \in Int : Posted(reserved, account) = x /\ Posted(failed, account) = y /\ x + y = 0
    <3>1. account \in {"customer_money", "stellar_pending", "fee_revenue"}
      BY <1>1
    <3>2. Posted(reserved, account) \in Int /\ Posted(failed, account) \in Int
          /\ Posted(reserved, account) + Posted(failed, account) = 0
      BY <1>1, <1>3, <3>1 DEF Posted, TotalCharge
    <3> QED BY <3>2
  <2>2. /\ DOMAIN <<reserved, failed>> = 1 .. 2 /\ 2 \in {2, 3} /\ 0 \in Int
        /\ <<reserved, failed>>[1] = reserved /\ <<reserved, failed>>[2] = failed
    OBVIOUS
  <2>3. Balance(<<reserved, failed>>, account) = x + y + 0
    BY <2>1, <2>2, BalanceOfThree
  <2> QED BY <2>1, <2>3
<1>11. Balance(<<reserved, settled>>, "stellar_pending") = 0
  <2>1. Posted(reserved, "stellar_pending") = a /\ Posted(settled, "stellar_pending") = -a /\ -a \in Int
    BY <1>1, <1>2 DEF Posted
  <2>2. /\ DOMAIN <<reserved, settled>> = 1 .. 2 /\ 2 \in {2, 3} /\ 0 \in Int
        /\ <<reserved, settled>>[1] = reserved /\ <<reserved, settled>>[2] = settled
    OBVIOUS
  <2>3. Balance(<<reserved, settled>>, "stellar_pending") = a + (-a) + 0
    BY <2>1, <2>2, BalanceOfThree
  <2> QED BY <2>3
<1>12. Balance(<<reserved, settled, refund>>, "stellar_settled") = a - b
  <2>1. /\ Posted(reserved, "stellar_settled") = 0 /\ Posted(settled, "stellar_settled") = a
        /\ Posted(refund, "stellar_settled") = -b /\ -b \in Int
    BY <1>1, <1>2, <1>4 DEF Posted
  <2>2. /\ DOMAIN <<reserved, settled, refund>> = 1 .. 3 /\ 3 \in {2, 3} /\ 0 \in Int
        /\ <<reserved, settled, refund>>[1] = reserved /\ <<reserved, settled, refund>>[2] = settled
        /\ <<reserved, settled, refund>>[3] = refund
    OBVIOUS
  <2>3. Balance(<<reserved, settled, refund>>, "stellar_settled") = 0 + a + (-b)
    BY <2>1, <2>2, BalanceOfThree
  <2> QED BY <2>3
<1> QED BY <1>4, <1>5, <1>6, <1>7, <1>8, <1>9, <1>10, <1>11, <1>12 DEF BooksBalance

CountedTo(total, line, days, types, field, precision) ==
  IF Counts(line, days, types) THEN AddTo(total, line[field], precision) ELSE total

\* The total of the chosen of four rows.
TotalOfChosen(s, rows, days, types, field, precision) ==
  LET first == IF 1 \in s THEN CountedTo(<<0, 7>>, rows[1], days, types, field, precision) ELSE <<0, 7>>
      second == IF 2 \in s THEN CountedTo(first, rows[2], days, types, field, precision) ELSE first
      third == IF 3 \in s THEN CountedTo(second, rows[3], days, types, field, precision) ELSE second
  IN IF 4 \in s THEN CountedTo(third, rows[4], days, types, field, precision) ELSE third

\* Which of four is taken next.
LEMMA MaxOfFour ==
  ASSUME NEW s \in SUBSET (1 .. 4), s # {}
  PROVE  /\ Max(s) \in s
         /\ Max(s) = 4 \/ (Max(s) = 3 /\ 4 \notin s) \/ (Max(s) = 2 /\ 3 \notin s /\ 4 \notin s)
              \/ (Max(s) = 1 /\ 2 \notin s /\ 3 \notin s /\ 4 \notin s)
<1>1. CASE 4 \in s
  <2>1. Max(s) = 4
    BY <1>1, MaxOf
  <2> QED BY <1>1, <2>1
<1>2. CASE 4 \notin s /\ 3 \in s
  <2>1. \A i \in s : i <= 3
    BY <1>2
  <2>2. Max(s) = 3
    BY <1>2, <2>1, MaxOf
  <2> QED BY <1>2, <2>2
<1>3. CASE 4 \notin s /\ 3 \notin s /\ 2 \in s
  <2>1. \A i \in s : i <= 2
    BY <1>3
  <2>2. Max(s) = 2
    BY <1>3, <2>1, MaxOf
  <2> QED BY <1>3, <2>2
<1>4. CASE 4 \notin s /\ 3 \notin s /\ 2 \notin s
  <2>1. 1 \in s /\ \A i \in s : i <= 1
    <3>1. \A i \in s : i = 1
      BY <1>4
    <3>2. PICK e : e \in s
      OBVIOUS
    <3> QED BY <3>1, <3>2
  <2>2. Max(s) = 1
    BY <2>1, MaxOf
  <2> QED BY <1>4, <2>1, <2>2
<1> QED BY <1>1, <1>2, <1>3, <1>4

\* A fold over four rows is four steps, of which some leave the total alone.
LEMMA TotalOfFour ==
  ASSUME NEW rows, DOMAIN rows = 1 .. 4, NEW days, NEW types, NEW field, NEW precision
  PROVE  TotalOf(rows, days, types, field, precision) = TotalOfChosen(1 .. 4, rows, days, types, field, precision)
<1> DEFINE D == 1 .. 4
           c(total, i) == CountedTo(total, rows[i], days, types, field, precision)
           t(s) == TotalOfChosen(s, rows, days, types, field, precision)
           g == [s \in SUBSET D |-> t(s)]
           Solves(f) == f = [s \in SUBSET D |-> IF s = {} THEN <<0, 7>> ELSE c(f[s \ {Max(s)}], Max(s))]
<1>1. ASSUME NEW s \in SUBSET D, s # {} PROVE t(s) = c(t(s \ {Max(s)}), Max(s))
  <2>1. PICK m : /\ m = Max(s) /\ m \in s
                 /\ \/ m = 4 \/ (m = 3 /\ 4 \notin s) \/ (m = 2 /\ 3 \notin s /\ 4 \notin s)
                    \/ (m = 1 /\ 2 \notin s /\ 3 \notin s /\ 4 \notin s)
    BY <1>1, MaxOfFour
  <2> DEFINE rest == s \ {m}
  <2>2. \A i : i \in rest <=> (i \in s /\ i # m)
    OBVIOUS
  <2> HIDE DEF rest
  <2>3. t(s) = c(t(rest), m)
    <3>1. CASE m = 4
      <4>1. 4 \in s /\ 4 \notin rest /\ (3 \in rest <=> 3 \in s) /\ (2 \in rest <=> 2 \in s) /\ (1 \in rest <=> 1 \in s)
        BY <2>1, <2>2, <3>1
      <4> QED BY <3>1, <4>1 DEF TotalOfChosen
    <3>2. CASE m = 3
      <4>1. /\ 4 \notin s /\ 3 \in s /\ 4 \notin rest /\ 3 \notin rest
            /\ (2 \in rest <=> 2 \in s) /\ (1 \in rest <=> 1 \in s)
        BY <2>1, <2>2, <3>2
      <4> QED BY <3>2, <4>1 DEF TotalOfChosen
    <3>3. CASE m = 2
      <4>1. /\ 4 \notin s /\ 3 \notin s /\ 2 \in s /\ 4 \notin rest /\ 3 \notin rest /\ 2 \notin rest
            /\ (1 \in rest <=> 1 \in s)
        BY <2>1, <2>2, <3>3
      <4> QED BY <3>3, <4>1 DEF TotalOfChosen
    <3>4. CASE m = 1
      <4>1. /\ 4 \notin s /\ 3 \notin s /\ 2 \notin s /\ 1 \in s
            /\ 4 \notin rest /\ 3 \notin rest /\ 2 \notin rest /\ 1 \notin rest
        BY <2>1, <2>2, <3>4
      <4> QED BY <3>4, <4>1 DEF TotalOfChosen
    <3> QED BY <2>1, <3>1, <3>2, <3>3, <3>4
  <2> QED BY <2>1, <2>3 DEF rest
<1>2. t({}) = <<0, 7>>
  BY DEF TotalOfChosen
<1> HIDE DEF t
<1>3. Solves(g)
  <2> HIDE DEF c, D
  <2>1. \A s \in SUBSET D : g[s] = IF s = {} THEN <<0, 7>> ELSE c(g[s \ {Max(s)}], Max(s))
    BY <1>1, <1>2
  <2> QED BY <2>1
<1>4. PICK f : Solves(f) /\ TotalOf(rows, days, types, field, precision) = f[D]
  BY <1>3 DEF TotalOf, FoldLeft, MapThenFoldSet, CountedTo
<1> HIDE DEF c, D
<1>5. f[{}] = <<0, 7>> /\ \A s \in SUBSET D : s # {} => f[s] = c(f[s \ {Max(s)}], Max(s))
  BY <1>4
<1> HIDE DEF Solves
<1>6. ASSUME NEW s \in SUBSET D, NEW m \in s, Max(s) = m PROVE f[s] = c(f[s \ {m}], m)
  BY <1>5, <1>6
<1>7. f[{1}] = c(<<0, 7>>, 1)
  <2>1. {1} \in SUBSET D /\ {1} \ {1} = {}
    BY DEF D
  <2>2. Max({1}) = 1
    BY <2>1, MaxOf DEF D
  <2> QED BY <1>5, <1>6, <2>1, <2>2
<1>8. f[{1, 2}] = c(f[{1}], 2)
  <2>1. {1, 2} \in SUBSET D /\ {1, 2} \ {2} = {1}
    BY DEF D
  <2>2. Max({1, 2}) = 2
    BY <2>1, MaxOfFour DEF D
  <2> QED BY <1>6, <2>1, <2>2
<1>9. f[{1, 2, 3}] = c(f[{1, 2}], 3)
  <2>1. {1, 2, 3} \in SUBSET D /\ {1, 2, 3} \ {3} = {1, 2}
    BY DEF D
  <2>2. Max({1, 2, 3}) = 3
    BY <2>1, MaxOfFour DEF D
  <2> QED BY <1>6, <2>1, <2>2
<1>10. f[D] = c(f[{1, 2, 3}], 4)
  <2>1. D \in SUBSET D /\ D \ {4} = {1, 2, 3} /\ 4 \in D /\ D # {}
    BY DEF D
  <2>2. Max(D) = 4
    BY <2>1, MaxOfFour DEF D
  <2> QED BY <1>6, <2>1, <2>2
<1>11. t(1 .. 4) = c(c(c(c(<<0, 7>>, 1), 2), 3), 4)
  BY DEF t, c, TotalOfChosen
<1> QED BY <1>4, <1>7, <1>8, <1>9, <1>10, <1>11 DEF t

\* The same, step by step.
LEMMA FourCounted ==
  ASSUME NEW rows, DOMAIN rows = 1 .. 4, NEW days, NEW types, NEW field, NEW precision
  PROVE  LET counted(total, i) == CountedTo(total, rows[i], days, types, field, precision)
         IN TotalOf(rows, days, types, field, precision)
              = counted(counted(counted(counted(<<0, 7>>, 1), 2), 3), 4)
<1>1. 1 \in 1 .. 4 /\ 2 \in 1 .. 4 /\ 3 \in 1 .. 4 /\ 4 \in 1 .. 4
  OBVIOUS
<1> QED BY <1>1, TotalOfFour DEF TotalOfChosen

\* Totals in lumens.
LEMMA AddSevenDigits ==
  ASSUME NEW x \in Nat, NEW y \in Nat
  PROVE  /\ AddTo(<<x, 7>>, <<y, 7>>, 7) = <<x + y, 7>> /\ Add(<<x, 7>>, <<y, 7>>, 7) = <<x + y, 7>>
         /\ AddTo(<<x, 7>>, <<y, 8>>, 7) = <<x, 7>>
         /\ AddTo(<<x, 7>>, <<0, 0>>, 7) = <<x, 7>>
         /\ Compare(<<x, 7>>, <<x, 7>>, 7) = 0
<1>1. ParseUnits(<<x, 7>>, 7) = x /\ ParseUnits(<<y, 7>>, 7) = y
  <2>1. 7 \in Nat
    OBVIOUS
  <2> QED BY <2>1, AmountsSurvive DEF RoundTrip, FormatUnits
<1>2. Add(<<x, 7>>, <<y, 7>>, 7) = <<x + y, 7>>
  BY <1>1 DEF Add, FormatUnits
<1>3. AddTo(<<x, 7>>, <<y, 7>>, 7) = <<x + y, 7>>
  BY <1>2 DEF AddTo, Addable, Parseable
<1>4. AddTo(<<x, 7>>, <<y, 8>>, 7) = <<x, 7>>
  BY DEF AddTo, Addable, Parseable
<1>5. ParseUnits(<<0, 0>>, 7) = 0
  BY DEF ParseUnits
<1>6. AddTo(<<x, 7>>, <<0, 0>>, 7) = <<x, 7>>
  BY <1>1, <1>5 DEF AddTo, Addable, Parseable, Add, FormatUnits
<1>7. Compare(<<x, 7>>, <<x, 7>>, 7) = 0
  BY DEF Compare
<1> QED BY <1>2, <1>3, <1>4, <1>6, <1>7

\* The totals of a statement (buildStatementData).
LEMMA StatementsAreExact == \A a \in Nat, b \in Nat, s \in Nat : PowersOfTen => StatementAddsUp(a, b, s)
<1> SUFFICES ASSUME PowersOfTen, NEW a \in Nat, NEW b \in Nat, NEW s \in Nat PROVE StatementAddsUp(a, b, s)
  OBVIOUS
<1>1. PICK rows :
        rows = <<[day |-> 1, type |-> "send", amount |-> <<a, 7>>, fee |-> <<b, 7>>],
                 [day |-> 2, type |-> "refund", amount |-> <<b, 7>>, fee |-> <<a, 8>>],
                 [day |-> 3, type |-> "send", amount |-> <<b, 7>>, fee |-> <<a, 7>>],
                 [day |-> 3, type |-> "deposit", amount |-> <<b, s>>, fee |-> <<0, 0>>]>>
  OBVIOUS
<1>2. DOMAIN rows = 1 .. 4
  BY <1>1
<1>3. /\ rows[1].day = 1 /\ rows[1].type = "send" /\ rows[1]["amount"] = <<a, 7>> /\ rows[1]["fee"] = <<b, 7>>
      /\ rows[2].day = 2 /\ rows[2].type = "refund" /\ rows[2]["amount"] = <<b, 7>> /\ rows[2]["fee"] = <<a, 8>>
      /\ rows[3].day = 3 /\ rows[3].type = "send" /\ rows[3]["amount"] = <<b, 7>> /\ rows[3]["fee"] = <<a, 7>>
      /\ rows[4].day = 3 /\ rows[4].type = "deposit" /\ rows[4]["amount"] = <<b, s>> /\ rows[4]["fee"] = <<0, 0>>
  BY <1>1
<1> DEFINE types == {rows[i].type : i \in DOMAIN rows}
<1>4. "send" \in types /\ "refund" \in types /\ "deposit" \in types
  <2>1. 1 \in DOMAIN rows /\ 2 \in DOMAIN rows /\ 4 \in DOMAIN rows
    BY <1>2
  <2> QED BY <1>3, <2>1
<1> HIDE DEF types
<1>5. /\ 0 + a = a /\ 0 + b = b /\ b + a = a + b
      /\ AddTo(<<0, 7>>, <<a, 7>>, 7) = <<a, 7>> /\ AddTo(<<0, 7>>, <<b, 7>>, 7) = <<b, 7>>
      /\ AddTo(<<a, 7>>, <<b, 7>>, 7) = <<a + b, 7>> /\ AddTo(<<b, 7>>, <<a, 7>>, 7) = <<a + b, 7>>
      /\ AddTo(<<b, 7>>, <<a, 8>>, 7) = <<b, 7>> /\ AddTo(<<a + b, 7>>, <<0, 0>>, 7) = <<a + b, 7>>
      /\ AddTo(<<a, 7>>, <<0, 0>>, 7) = <<a, 7>>
  <2>1. 0 \in Nat /\ a + b \in Nat /\ 0 + a = a /\ 0 + b = b /\ b + a = a + b
    OBVIOUS
  <2> QED BY <2>1, AddSevenDigits
\* The lumens of all days.
<1>6. TotalOf(rows, 1 .. 3, {"send"}, "amount", 7) = <<a + b, 7>>
  <2>1. /\ Counts(rows[1], 1 .. 3, {"send"}) /\ ~ Counts(rows[2], 1 .. 3, {"send"})
        /\ Counts(rows[3], 1 .. 3, {"send"}) /\ ~ Counts(rows[4], 1 .. 3, {"send"})
    BY <1>3 DEF Counts
  <2>2. LET counted(total, i) == CountedTo(total, rows[i], 1 .. 3, {"send"}, "amount", 7)
        IN TotalOf(rows, 1 .. 3, {"send"}, "amount", 7)
             = counted(counted(counted(counted(<<0, 7>>, 1), 2), 3), 4)
    BY <1>2, FourCounted
  <2> QED BY <1>3, <1>5, <2>1, <2>2 DEF CountedTo
<1>7. TotalOf(rows, 1 .. 3, {"receive", "deposit"}, "amount", 7) = AddTo(<<0, 7>>, <<b, s>>, 7)
  <2>1. /\ ~ Counts(rows[1], 1 .. 3, {"receive", "deposit"}) /\ ~ Counts(rows[2], 1 .. 3, {"receive", "deposit"})
        /\ ~ Counts(rows[3], 1 .. 3, {"receive", "deposit"}) /\ Counts(rows[4], 1 .. 3, {"receive", "deposit"})
    BY <1>3 DEF Counts
  <2>2. LET counted(total, i) == CountedTo(total, rows[i], 1 .. 3, {"receive", "deposit"}, "amount", 7)
        IN TotalOf(rows, 1 .. 3, {"receive", "deposit"}, "amount", 7)
             = counted(counted(counted(counted(<<0, 7>>, 1), 2), 3), 4)
    BY <1>2, FourCounted
  <2> QED BY <1>3, <2>1, <2>2 DEF CountedTo
<1>8. TotalOf(rows, 1 .. 3, types, "fee", 7) = <<a + b, 7>>
  <2>1. /\ Counts(rows[1], 1 .. 3, types) /\ Counts(rows[2], 1 .. 3, types)
        /\ Counts(rows[3], 1 .. 3, types) /\ Counts(rows[4], 1 .. 3, types)
    BY <1>3, <1>4 DEF Counts
  <2>2. LET counted(total, i) == CountedTo(total, rows[i], 1 .. 3, types, "fee", 7)
        IN TotalOf(rows, 1 .. 3, types, "fee", 7)
             = counted(counted(counted(counted(<<0, 7>>, 1), 2), 3), 4)
    BY <1>2, FourCounted
  <2> QED BY <1>3, <1>5, <2>1, <2>2 DEF CountedTo
\* Two periods.
<1>9. TotalOf(rows, 1 .. 2, {"send"}, "amount", 7) = <<a, 7>>
  <2>1. /\ Counts(rows[1], 1 .. 2, {"send"}) /\ ~ Counts(rows[2], 1 .. 2, {"send"})
        /\ ~ Counts(rows[3], 1 .. 2, {"send"}) /\ ~ Counts(rows[4], 1 .. 2, {"send"})
    BY <1>3 DEF Counts
  <2>2. LET counted(total, i) == CountedTo(total, rows[i], 1 .. 2, {"send"}, "amount", 7)
        IN TotalOf(rows, 1 .. 2, {"send"}, "amount", 7)
             = counted(counted(counted(counted(<<0, 7>>, 1), 2), 3), 4)
    BY <1>2, FourCounted
  <2> QED BY <1>3, <1>5, <2>1, <2>2 DEF CountedTo
<1>10. TotalOf(rows, 1 .. 2, types, "fee", 7) = <<b, 7>>
  <2>1. /\ Counts(rows[1], 1 .. 2, types) /\ Counts(rows[2], 1 .. 2, types)
        /\ ~ Counts(rows[3], 1 .. 2, types) /\ ~ Counts(rows[4], 1 .. 2, types)
    BY <1>3, <1>4 DEF Counts
  <2>2. LET counted(total, i) == CountedTo(total, rows[i], 1 .. 2, types, "fee", 7)
        IN TotalOf(rows, 1 .. 2, types, "fee", 7)
             = counted(counted(counted(counted(<<0, 7>>, 1), 2), 3), 4)
    BY <1>2, FourCounted
  <2> QED BY <1>3, <1>5, <2>1, <2>2 DEF CountedTo
<1>11. TotalOf(rows, 3 .. 4, {"send"}, "amount", 7) = <<b, 7>>
  <2>1. /\ ~ Counts(rows[1], 3 .. 4, {"send"}) /\ ~ Counts(rows[2], 3 .. 4, {"send"})
        /\ Counts(rows[3], 3 .. 4, {"send"}) /\ ~ Counts(rows[4], 3 .. 4, {"send"})
    BY <1>3 DEF Counts
  <2>2. LET counted(total, i) == CountedTo(total, rows[i], 3 .. 4, {"send"}, "amount", 7)
        IN TotalOf(rows, 3 .. 4, {"send"}, "amount", 7)
             = counted(counted(counted(counted(<<0, 7>>, 1), 2), 3), 4)
    BY <1>2, FourCounted
  <2> QED BY <1>3, <1>5, <2>1, <2>2 DEF CountedTo
<1>12. TotalOf(rows, 3 .. 4, types, "fee", 7) = <<a, 7>>
  <2>1. /\ ~ Counts(rows[1], 3 .. 4, types) /\ ~ Counts(rows[2], 3 .. 4, types)
        /\ Counts(rows[3], 3 .. 4, types) /\ Counts(rows[4], 3 .. 4, types)
    BY <1>3, <1>4 DEF Counts
  <2>2. LET counted(total, i) == CountedTo(total, rows[i], 3 .. 4, types, "fee", 7)
        IN TotalOf(rows, 3 .. 4, types, "fee", 7)
             = counted(counted(counted(counted(<<0, 7>>, 1), 2), 3), 4)
    BY <1>2, FourCounted
  <2> QED BY <1>3, <1>5, <2>1, <2>2 DEF CountedTo
\* An asset of two digits.
<1>13. TotalOf(rows, 1 .. 3, {"receive", "deposit"}, "amount", 2) = <<0, 7>>
  <2>1. \A amount : AddTo(<<0, 7>>, amount, 2) = <<0, 7>>
    BY DEF AddTo, Addable, Parseable
  <2>2. LET counted(total, i) == CountedTo(total, rows[i], 1 .. 3, {"receive", "deposit"}, "amount", 2)
        IN TotalOf(rows, 1 .. 3, {"receive", "deposit"}, "amount", 2)
             = counted(counted(counted(counted(<<0, 7>>, 1), 2), 3), 4)
    BY <1>2, FourCounted
  <2> QED BY <2>1, <2>2 DEF CountedTo
<1>14. AddTo(<<0, 7>>, <<b, s>>, 7) = IF s <= 7 THEN <<ParseUnits(<<b, s>>, 7), 7>> ELSE <<0, 7>>
  <2>1. CASE s <= 7
    <3>1. 7 - s \in Nat
      BY <2>1
    <3>2. PICK z \in Nat : z = 10 ^ (7 - s)
      BY <3>1 DEF PowersOfTen
    <3>3. PICK x \in Nat : x = b * z
      <4>1. b * z \in Nat
        OBVIOUS
      <4> QED BY <4>1
    <3>4. ParseUnits(<<b, s>>, 7) = x
      BY <2>1, <3>2, <3>3 DEF ParseUnits
    <3>5. ParseUnits(<<0, 7>>, 7) = 0
      <4>1. 0 \in Nat /\ 7 \in Nat
        OBVIOUS
      <4> QED BY <4>1, AmountsSurvive DEF RoundTrip, FormatUnits
    <3> QED BY <2>1, <3>4, <3>5 DEF AddTo, Addable, Parseable, Add, FormatUnits
  <2>2. CASE ~ (s <= 7)
    BY <2>2 DEF AddTo, Addable, Parseable
  <2> QED BY <2>1, <2>2
<1>15. Cardinality({i \in DOMAIN rows : Counts(rows[i], 1 .. 3, {"send"})}) = 2
  <2>1. {i \in DOMAIN rows : Counts(rows[i], 1 .. 3, {"send"})} = {1, 3}
    BY <1>2, <1>3 DEF Counts
  <2>2. IsFiniteSet({1}) /\ Cardinality({1}) = 1
    BY FS_Singleton
  <2>3. {1, 3} = {1} \cup {3} /\ 3 \notin {1}
    OBVIOUS
  <2>4. Cardinality({1} \cup {3}) = 1 + 1
    BY <2>2, <2>3, FS_AddElement
  <2> QED BY <2>1, <2>3, <2>4
<1>16. /\ Add(<<a, 7>>, <<b, 7>>, 7) = <<a + b, 7>> /\ Add(<<b, 7>>, <<a, 7>>, 7) = <<a + b, 7>>
       /\ Compare(<<a + b, 7>>, <<a + b, 7>>, 7) = 0
  <2>1. a + b \in Nat /\ b + a = a + b
    OBVIOUS
  <2> QED BY <2>1, AddSevenDigits
<1>17. Precision.XLM = 7 /\ Precision.NGN = 2
  BY DEF Precision
<1> QED BY <1>1, <1>6, <1>7, <1>8, <1>9, <1>10, <1>11, <1>12, <1>13, <1>14, <1>15, <1>16, <1>17
        DEF StatementAddsUp, Statement, types

\* MoneyExact (Money): whatever the amounts, rates and precisions, conversions,
\* fees, sums, entries, repairs and statements are exact but for the rounding of
\* the last digit (utils/money.js, ledger.service.js, statement.service.js).
THEOREM SpecMoneyExact ==
  ASSUME PowersOfTen
  PROVE  MoneyInit /\ [][TrySum]_sum => []MoneyExact
<1> DEFINE Inv == sum = NoSum \/ sum \in Amounts \X Amounts \X Rates \X Precisions \X Precisions
<1>1. MoneyInit => Inv
  BY DEF MoneyInit
<1>2. Inv /\ [TrySum]_sum => Inv'
  BY DEF TrySum
<1>3. ASSUME Inv PROVE MoneyExact
  <2> SUFFICES ASSUME sum # NoSum PROVE MoneyExact
    BY DEF MoneyExact
  <2>1. PICK a \in Nat, b \in Nat, rate \in (Nat \ {0}) \X Nat, s \in Nat, t \in Nat :
          sum[1] = a /\ sum[2] = b /\ sum[3] = rate /\ sum[4] = s /\ sum[5] = t
    BY <1>3, MoneyAssumption
  <2>2. WithinHalfAUnit(a, rate, s, t) /\ WholeOfParts(a, b, rate, s, t) /\ Monotone(a, b, rate, s, t)
    BY <1>3, ConversionIsExact
  <2>3. LET product == MultiplyRates(rate, <<a, s>>, 3)
        IN 2 * Abs(product[1] * 10 ^ (rate[2] + s) - rate[1] * a * 10 ^ 3) <= 10 ^ (rate[2] + s)
    <3>1. <<a, s>> \in Nat \X Nat /\ <<a, s>>[1] = a /\ <<a, s>>[2] = s /\ 3 \in Nat
      OBVIOUS
    <3> QED BY <1>3, <3>1, ProductIsExact
  <2>4. FeeIsPart(a) /\ RoundTrip(a, s)
    BY FeeIsAPart, AmountsSurvive
  <2>5. PartsOrdered(a, b, s, t) /\ BooksBalance(a, b) /\ RepairedOnce(a, b, s, t) /\ StatementAddsUp(a, b, s)
    BY <1>3, SumsAreExact, JournalBalances, RepairsAreDone, StatementsAreExact
  <2>6. LET plain == WithoutExponent(a, s, t) IN plain[1] * 10 ^ s = a * 10 ^ (t + plain[2])
    BY <1>3, ExponentExpands
  <2> QED BY <2>1, <2>2, <2>3, <2>4, <2>5, <2>6 DEF MoneyExact
<1> QED BY <1>1, <1>2, <1>3, PTL
=============================================================================
