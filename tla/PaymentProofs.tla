---------------------------- MODULE PaymentProofs ----------------------------
(***************************************************************************)
(* For any amounts, limits and numbers of payments, quotes, refunds,       *)
(* messages and workers: what is sent in a day and what goes back of a     *)
(* payment stays within its bound, the payment a conversation is about is  *)
(* executed once and as it was confirmed, and a request is paid once,      *)
(* each with the exceptions the code leaves open.                          *)
(***************************************************************************)
EXTENDS Conversation, Quotes, Refunds, SpendingLimits, OrderingProofs, FiniteSetTheorems, Functions

(***************************************************************************)
(* Sums of amounts.                                                        *)
(***************************************************************************)
LEMMA UnitsFinite ==
  ASSUME NEW rows, IsFiniteSet(rows), NEW amount, \A r \in rows : amount[r] \in Nat
  PROVE  IsFiniteSet(Units(amount, rows))
<1> DEFINE unitsOf == [r \in rows |-> {r} \X (1 .. amount[r])]
           all == {{r} \X (1 .. amount[r]) : r \in rows}
<1>1. unitsOf \in Surjection(rows, all)
  <2>1. unitsOf \in [rows -> all]
    OBVIOUS
  <2>2. \A t \in all : \E r \in rows : unitsOf[r] = t
    OBVIOUS
  <2> QED BY <2>1, <2>2, Zenon DEF Surjection
<1>2. IsFiniteSet(all)
  BY <1>1, FS_Surjection
<1>3. ASSUME NEW r \in rows PROVE IsFiniteSet({r} \X (1 .. amount[r]))
  <2>1. IsFiniteSet({r})
    BY FS_Singleton, Zenon
  <2>2. IsFiniteSet(1 .. amount[r])
    BY FS_Interval
  <2> QED BY <2>1, <2>2, FS_Product
<1>4. IsFiniteSet(UNION all)
  BY <1>2, <1>3, FS_UNION
<1> QED BY <1>4 DEF Units

LEMMA SumOfMore ==
  ASSUME NEW more, IsFiniteSet(more), NEW amount, \A r \in more : amount[r] \in Nat,
         NEW rows \in SUBSET more
  PROVE  /\ SumOf(amount, rows) \in Nat /\ SumOf(amount, more) \in Nat
         /\ SumOf(amount, rows) <= SumOf(amount, more)
<1>1. IsFiniteSet(Units(amount, more)) /\ Units(amount, rows) \in SUBSET Units(amount, more)
  BY UnitsFinite DEF Units
<1>2. IsFiniteSet(Units(amount, rows)) /\ Cardinality(Units(amount, rows)) <= Cardinality(Units(amount, more))
  BY <1>1, FS_Subset
<1> QED BY <1>1, <1>2, FS_CardinalityType DEF SumOf

LEMMA SumOfAdded ==
  ASSUME NEW rows, IsFiniteSet(rows), NEW new, new \notin rows,
         NEW amount, \A r \in rows \cup {new} : amount[r] \in Nat
  PROVE  SumOf(amount, rows \cup {new}) = SumOf(amount, rows) + amount[new]
<1> DEFINE added == {new} \X (1 .. amount[new])
<1>1. Units(amount, rows \cup {new}) = Units(amount, rows) \cup added
  <2>1. ASSUME NEW u PROVE u \in Units(amount, rows \cup {new}) <=> u \in Units(amount, rows) \cup added
    <3>1. u \in Units(amount, rows \cup {new}) <=> \E r \in rows \cup {new} : u \in {r} \X (1 .. amount[r])
      BY Zenon DEF Units
    <3>2. u \in Units(amount, rows) <=> \E r \in rows : u \in {r} \X (1 .. amount[r])
      BY Zenon DEF Units
    <3> QED BY <3>1, <3>2, Zenon
  <2> QED BY <2>1, Zenon
<1>2. Units(amount, rows) \cap added = {}
  BY DEF Units
<1>3. /\ IsFiniteSet({new}) /\ Cardinality({new}) = 1
      /\ IsFiniteSet(1 .. amount[new]) /\ Cardinality(1 .. amount[new]) = amount[new]
  <2>1. IsFiniteSet({new}) /\ Cardinality({new}) = 1
    BY FS_Singleton, Zenon
  <2>2. amount[new] \in Nat /\ 1 \in Int
    OBVIOUS
  <2>3. IsFiniteSet(1 .. amount[new]) /\ Cardinality(1 .. amount[new]) = amount[new]
    BY <2>2, FS_Interval, SMTT(60)
  <2> QED BY <2>1, <2>3
<1>4. IsFiniteSet(added) /\ Cardinality(added) = amount[new]
  BY <1>3, FS_Product
<1>5. IsFiniteSet(Units(amount, rows)) /\ Cardinality(Units(amount, rows)) \in Nat
  BY UnitsFinite, FS_CardinalityType
<1>6. Cardinality(Units(amount, rows) \cup added)
        = Cardinality(Units(amount, rows)) + Cardinality(added) - Cardinality({})
  BY <1>2, <1>4, <1>5, FS_Union
<1> QED BY <1>1, <1>4, <1>5, <1>6, FS_EmptySet DEF SumOf
-----------------------------------------------------------------------------
(***************************************************************************)
(* Refunds.  Whatever refunds count and did not overlap when they were     *)
(* checked come to no more than the payment: the last of them was checked  *)
(* against the others.                                                     *)
(***************************************************************************)
Counts(f) == Unsettled(f) \/ status[f] = "success"

\* A request has neither row nor money before it reserves.
NewHaveNoRow ==
  \A f \in Refund : refund[f] \in {"new", "read", "checked"} => status[f] = "none" /\ f \notin returned

BoundTogether ==
  \A some \in SUBSET Refund :
    (\A f \in some : Counts(f) /\ some \cap beside[f] = {}) => AmountOf(some) <= Original

RefundInv == RefundTypeOK /\ NewHaveNoRow /\ BoundTogether

LEMMA SomeRefunds ==
  ASSUME NEW some \in SUBSET Refund
  PROVE  /\ IsFiniteSet(some)
         /\ \A f \in some : Asked[f] \in Nat
         /\ AmountOf(some) \in Nat
         /\ \A less \in SUBSET some : AmountOf(less) <= AmountOf(some)
<1>1. IsFiniteSet(Refund) /\ \A f \in Refund : Asked[f] \in Nat
  BY RefundAssumption
<1>2. IsFiniteSet(some)
  BY <1>1, FS_Subset
<1> QED BY <1>1, <1>2, SumOfMore DEF AmountOf

\* A step that checks nothing and lets no refund count that did not.
LEMMA StaysBound ==
  ASSUME BoundTogether, beside' = beside, \A f \in Refund : Counts(f)' => Counts(f)
  PROVE  BoundTogether'
BY DEF BoundTogether, AmountOf

LEMMA CheckBound ==
  ASSUME RefundInv, NEW f \in Refund, CheckRefund(f)
  PROVE  BoundTogether'
<1>1. /\ refund'[f] = "checked" /\ \A g \in Refund \ {f} : refund'[g] = refund[g]
      /\ status' = status /\ status[f] = "none"
      /\ beside'[f] = {g \in Refund : Unsettled(g)}
      /\ \A g \in Refund \ {f} : beside'[g] = beside[g]
  BY DEF RefundInv, RefundTypeOK, NewHaveNoRow, CheckRefund, RefundStep
<1>2. Asked[f] \in Nat /\ Original \in Nat
      /\ AmountOf(RefundSettled) + Asked[f] <= Original
  <2>1. AmountOf(RefundSettled) \in Nat
    BY SomeRefunds DEF RefundSettled
  <2> QED BY <2>1, RefundAssumption DEF CheckRefund, Refundable
<1>3. ASSUME NEW some \in SUBSET Refund, f \in some,
             \A g \in some : Counts(g)' /\ some \cap beside'[g] = {}
      PROVE  AmountOf(some) <= Original
  <2>1. some \subseteq RefundSettled \cup {f}
    BY <1>1, <1>3 DEF Counts, Unsettled, RefundSettled
  <2>2. f \notin RefundSettled /\ RefundSettled \in SUBSET Refund
    BY <1>1 DEF RefundSettled
  <2>3. AmountOf(RefundSettled \cup {f}) = AmountOf(RefundSettled) + Asked[f]
    BY <2>2, SomeRefunds, SumOfAdded DEF AmountOf
  <2>4. AmountOf(some) <= AmountOf(RefundSettled \cup {f}) /\ AmountOf(some) \in Nat
    BY <2>1, <2>2, SomeRefunds
  <2>5. AmountOf(RefundSettled) \in Nat
    BY <2>2, SomeRefunds
  <2> QED BY <1>2, <2>3, <2>4, <2>5
<1>4. ASSUME NEW some \in SUBSET Refund, f \notin some,
             \A g \in some : Counts(g)' /\ some \cap beside'[g] = {}
      PROVE  AmountOf(some) <= Original
  BY <1>1, <1>4 DEF RefundInv, BoundTogether, Counts, Unsettled
<1> QED BY <1>3, <1>4 DEF BoundTogether, AmountOf

LEMMA RefundInvHolds == RefundSpec => []RefundInv
<1>1. RefundInit => RefundInv
  <2> SUFFICES ASSUME RefundInit PROVE RefundInv
    OBVIOUS
  <2>1. RefundTypeOK /\ NewHaveNoRow
    BY DEF RefundInit, RefundTypeOK, NewHaveNoRow
  <2>2. AmountOf({}) <= Original
    <3>1. Units(Asked, {}) = {}
      BY DEF Units
    <3> QED BY <3>1, FS_EmptySet, RefundAssumption DEF AmountOf, SumOf
  <2>3. \A some \in SUBSET Refund : (\A f \in some : Counts(f)) => some = {}
    BY DEF RefundInit, Counts, Unsettled
  <2> QED BY <2>1, <2>2, <2>3 DEF RefundInv, BoundTogether
<1>2. RefundInv /\ [RefundNext]_refundVars => RefundInv'
  <2> SUFFICES ASSUME RefundInv, RefundNext PROVE RefundInv'
    BY DEF RefundInv, RefundTypeOK, NewHaveNoRow, BoundTogether, Counts, Unsettled, AmountOf, refundVars
  <2> USE DEF RefundTypeOK, NewHaveNoRow, Counts, Unsettled, UnderWay, RefundStep
  <2>1. ASSUME NEW f \in Refund,
               ReadOriginal(f) \/ RefuseRefund(f) \/ SubmitRefund(f) \/ SettleFails(f) \/ RefundDies(f)
        PROVE  RefundInv'
    <3>1. UNCHANGED <<status, beside>>
      BY <2>1 DEF ReadOriginal, RefuseRefund, SubmitRefund, SettleFails, RefundDies
    <3>2. RefundTypeOK' /\ NewHaveNoRow'
      BY <2>1, <3>1 DEF RefundInv, ReadOriginal, RefuseRefund, SubmitRefund, SettleFails, RefundDies
    <3>3. \A g \in Refund : refund'[g] = "checked" => refund[g] = "checked"
      BY <2>1 DEF RefundInv, ReadOriginal, RefuseRefund, SubmitRefund, SettleFails, RefundDies
    <3> QED BY <3>1, <3>2, <3>3, StaysBound DEF RefundInv
  <2>2. ASSUME NEW f \in Refund, CheckRefund(f) PROVE RefundInv'
    <3>1. RefundTypeOK' /\ NewHaveNoRow'
      BY <2>2 DEF RefundInv, CheckRefund
    <3> QED BY <2>2, <3>1, CheckBound DEF RefundInv
  <2>4. ASSUME NEW f \in Refund, ReserveRefund(f) PROVE RefundInv'
    <3>1. RefundTypeOK' /\ NewHaveNoRow'
      BY <2>4 DEF RefundInv, ReserveRefund, PaymentStatuses
    <3>2. beside' = beside /\ \A g \in Refund : Counts(g)' => Counts(g)
      BY <2>4 DEF RefundInv, ReserveRefund
    <3> QED BY <3>1, <3>2, StaysBound DEF RefundInv
  <2>3. ASSUME NEW f \in Refund,
               \/ SettleRefund(f) \/ MarkRefundFailed(f)
               \/ \E to \in {"success", "failed", "expired"} : ReconcileRefund(f, to)
        PROVE  RefundInv'
    <3>1. PICK to \in {"success", "failed", "expired"} :
            status' = status \/ (status[f] = "processing" /\ status' = [status EXCEPT ![f] = to])
      <4>1. status \in [Refund -> {"none"} \cup PaymentStatuses]
        BY DEF RefundInv
      <4> QED BY <2>3, <4>1 DEF SettleRefund, MarkRefundFailed, ReconcileRefund, TransitionAccepted
    <3>2. beside' = beside /\ \A g \in Refund : Counts(g)' => Counts(g)
      BY <2>3, <3>1 DEF RefundInv, SettleRefund, MarkRefundFailed, ReconcileRefund
    <3>3. RefundTypeOK' /\ NewHaveNoRow'
      <4>1. /\ status' \in [Refund -> {"none"} \cup PaymentStatuses]
            /\ \A g \in Refund : status[g] = "none" => status'[g] = "none"
        BY <3>1 DEF RefundInv, PaymentStatuses
      <4>2. /\ refund' \in [Refund -> {"new", "read", "checked", "ended"} \cup UnderWay]
            /\ \A g \in Refund : refund'[g] \in {"new", "read", "checked"} => refund[g] = refund'[g]
            /\ UNCHANGED <<seen, returned>> /\ listed' \subseteq Refund
        BY <2>3 DEF RefundInv, SettleRefund, MarkRefundFailed, ReconcileRefund
      <4> QED BY <3>2, <4>1, <4>2 DEF RefundInv
    <3> QED BY <3>2, <3>3, StaysBound DEF RefundInv
  <2> QED BY <2>1, <2>2, <2>3, <2>4 DEF RefundNext
<1> QED BY <1>1, <1>2, PTL DEF RefundSpec

\* No more than the payment goes back, for any amounts and any number of
\* requests, unless one was checked after another and before that one was
\* settled, or one moved money and is not recorded as successful.
THEOREM SpecRefundedWithin == RefundSpec => []RefundedWithin
<1>1. RefundInv => RefundedWithin
  <2> SUFFICES ASSUME RefundInv, \A f \in returned : status[f] = "success",
                      \A f, g \in returned : g \notin beside[f]
               PROVE  ~ AmountOf(returned) > Original
    BY DEF RefundedWithin
  <2>1. returned \in SUBSET Refund /\ AmountOf(returned) <= Original
    BY DEF RefundInv, RefundTypeOK, BoundTogether, Counts
  <2> QED BY <2>1, SomeRefunds, RefundAssumption
<1> QED BY <1>1, RefundInvHolds, PTL
-----------------------------------------------------------------------------
(***************************************************************************)
(* The limit of a day.  Of payments that were let through, each two of     *)
(* which saw one another, the last one checked saw all the others.         *)
(***************************************************************************)
LetThrough(s) == sending[s] \in {"checked"} \cup PaymentStatuses
DayLimit == Limits[customer.tier].daily

LimitTypes ==
  /\ customer \in Customers
  /\ sending \in [Send -> {"new", "checked", "refused"} \cup PaymentStatuses]
  /\ counted \in [Send -> SUBSET Send]
  /\ money \subseteq Send

\* Money moves, and rows are counted, of payments that have a row.
HaveRows ==
  /\ \A s \in money : sending[s] \in PaymentStatuses
  /\ \A s \in Send : \A r \in counted[s] : sending[r] \in PaymentStatuses

TogetherWithin ==
  \A some \in SUBSET Send :
    /\ \A s \in some : LetThrough(s)
    /\ \A s, r \in some : s # r => s \in counted[r] \/ r \in counted[s]
    => Total(some) <= DayLimit

LimitInv == LimitTypes /\ HaveRows /\ TogetherWithin

LEMMA SomeSends ==
  ASSUME NEW some \in SUBSET Send
  PROVE  /\ IsFiniteSet(some)
         /\ \A s \in some : Amount[s] \in Nat
         /\ Total(some) \in Nat
         /\ \A less \in SUBSET some : Total(less) <= Total(some)
<1>1. IsFiniteSet(Send) /\ \A s \in Send : Amount[s] \in Nat
  BY LimitsAssumption
<1>2. IsFiniteSet(some)
  BY <1>1, FS_Subset
<1> QED BY <1>1, <1>2, SumOfMore DEF Total

\* Halving or voiding the limits of a tier does not raise them.
LEMMA DailyType == \A t \in 0 .. 3 : Limits[t].daily \in Nat
<1>1. ASSUME NEW t \in 0 .. 3 PROVE Limits[t].daily \in Nat
  <2>1. t = 0 \/ t = 1 \/ t = 2 \/ t = 3
    OBVIOUS
  <2> QED BY <2>1 DEF Limits
<1> QED BY <1>1

LEMMA ActivityDaily ==
  ASSUME NEW tier \in 0 .. 3, NEW score \in Nat, NEW trusted \in BOOLEAN
  PROVE  ActivityLimits(tier, score, trusted).daily <= Limits[tier].daily
<1> DEFINE limits == ActivityLimits(tier, score, trusted)
<1>1. Limits[tier].daily \in Nat /\ Limits[0].daily = 0
  BY DailyType DEF Limits
<1>2. \/ limits = Limits[0]
      \/ limits = [single |-> Limits[tier].single \div 2, daily |-> Limits[tier].daily \div 2]
      \/ limits = Limits[tier]
  BY DEF ActivityLimits
<1>3. \A n \in Nat : n \div 2 <= n
  OBVIOUS
<1> HIDE DEF limits
<1>4. limits.daily <= Limits[tier].daily
  BY <1>1, <1>2, <1>3
<1> QED BY <1>4 DEF limits

LEMMA CheckLets ==
  ASSUME LimitInv, NEW s \in Send, PolicyCheck(s) \/ ActivityCheck(s)
  PROVE  Total(Recent) + Amount[s] <= DayLimit
<1>1. /\ customer.tier \in 0 .. 3 /\ customer.risk \in Nat /\ customer.trusted \in BOOLEAN
  BY LimitsAssumption DEF LimitInv, LimitTypes
<1>2. CASE PolicyCheck(s)
  BY <1>2 DEF PolicyCheck, DayLimit
<1>3. CASE ActivityCheck(s)
  <2>1. ActivityLimits(customer.tier, customer.risk, customer.trusted).daily <= DayLimit
    BY <1>1, ActivityDaily DEF DayLimit
  <2>2. Total(Recent) + Amount[s] <= ActivityLimits(customer.tier, customer.risk, customer.trusted).daily
    BY <1>3 DEF ActivityCheck
  <2>3. ActivityLimits(customer.tier, customer.risk, customer.trusted).daily \in Int
    <3>1. \A t \in 0 .. 3 : Limits[t].daily \in Nat
      BY DailyType
    <3>2. customer.tier \in 0 .. 3 /\ 0 \in 0 .. 3 /\ \A n \in Nat : n \div 2 \in Int
      BY <1>1
    <3> QED BY <3>1, <3>2 DEF ActivityLimits
  <2>4. Total(Recent) \in Nat /\ Amount[s] \in Nat /\ DayLimit \in Nat
    BY <1>1, SomeSends, LimitsAssumption, DailyType DEF Recent, DayLimit
  <2> QED BY <2>1, <2>2, <2>3, <2>4
<1> QED BY <1>2, <1>3

\* A step that lets nothing through.
LEMMA StaysWithin ==
  ASSUME TogetherWithin, UNCHANGED <<customer, counted>>, \A s \in Send : LetThrough(s)' => LetThrough(s)
  PROVE  TogetherWithin'
BY DEF TogetherWithin, Total, DayLimit

LEMMA CheckWithin ==
  ASSUME LimitInv, NEW s \in Send, Check(s)
  PROVE  TogetherWithin'
<1>1. /\ sending[s] = "new" /\ \A r \in Send \ {s} : sending'[r] = sending[r]
      /\ counted'[s] = Recent /\ \A r \in Send \ {s} : counted'[r] = counted[r]
      /\ customer' = customer
  BY DEF LimitInv, LimitTypes, Check
<1>2. \A r \in Send : s \notin counted[r]
  BY <1>1 DEF LimitInv, HaveRows, PaymentStatuses
<1>3. ASSUME NEW some \in SUBSET Send, s \in some,
             \A r \in some : LetThrough(r)',
             \A q, r \in some : q # r => q \in counted'[r] \/ r \in counted'[q]
      PROVE  Total(some) <= DayLimit
  <2>1. some \subseteq Recent \cup {s}
    BY <1>1, <1>2, <1>3
  <2>2. s \notin Recent /\ Recent \in SUBSET Send
    BY <1>1 DEF Recent, CountedStatuses
  <2>3. Total(Recent) + Amount[s] <= DayLimit
    <3>1. sending'[s] # "refused"
      BY <1>3 DEF LetThrough, PaymentStatuses
    <3>2. PolicyCheck(s) \/ ActivityCheck(s)
      BY <3>1 DEF Check, LimitInv, LimitTypes
    <3> QED BY <3>2, CheckLets
  <2>4. Total(Recent \cup {s}) = Total(Recent) + Amount[s]
    <3>1. IsFiniteSet(Recent) /\ \A r \in Recent \cup {s} : Amount[r] \in Nat
      BY <2>2, SomeSends, LimitsAssumption
    <3> QED BY <2>2, <3>1, SumOfAdded DEF Total
  <2>5. Total(some) \in Nat /\ Total(some) <= Total(Recent \cup {s}) /\ Total(Recent \cup {s}) \in Nat
    BY <2>1, <2>2, SomeSends
  <2>6. DayLimit \in Nat
    BY LimitsAssumption, DailyType DEF LimitInv, LimitTypes, DayLimit
  <2> QED BY <2>3, <2>4, <2>5, <2>6
<1>4. ASSUME NEW some \in SUBSET Send, s \notin some,
             \A r \in some : LetThrough(r)',
             \A q, r \in some : q # r => q \in counted'[r] \/ r \in counted'[q]
      PROVE  Total(some) <= DayLimit
  BY <1>1, <1>4 DEF LimitInv, TogetherWithin, LetThrough
<1> QED BY <1>1, <1>3, <1>4 DEF TogetherWithin, Total, DayLimit

LEMMA LimitInvHolds == LimitSpec => []LimitInv
<1>1. LimitInit => LimitInv
  <2> SUFFICES ASSUME LimitInit PROVE LimitInv
    OBVIOUS
  <2>1. LimitTypes /\ HaveRows
    BY DEF LimitInit, LimitTypes, HaveRows
  <2>2. Total({}) = 0 /\ DayLimit \in Nat
    <3>1. Units(Amount, {}) = {}
      BY DEF Units
    <3> QED BY <2>1, <3>1, FS_EmptySet, LimitsAssumption, DailyType DEF Total, SumOf, LimitTypes, DayLimit
  <2>3. \A some \in SUBSET Send : (\A s \in some : LetThrough(s)) => some = {}
    BY DEF LimitInit, LetThrough, PaymentStatuses
  <2> QED BY <2>1, <2>2, <2>3 DEF LimitInv, TogetherWithin
<1>2. LimitInv /\ [LimitNext]_limitVars => LimitInv'
  <2> SUFFICES ASSUME LimitInv, LimitNext PROVE LimitInv'
    BY DEF LimitInv, LimitTypes, HaveRows, TogetherWithin, LetThrough, Total, DayLimit, limitVars
  <2>1. ASSUME NEW s \in Send, Check(s) PROVE LimitInv'
    <3>1. LimitTypes' /\ HaveRows'
      BY <2>1 DEF LimitInv, LimitTypes, HaveRows, Check, Recent, CountedStatuses, PaymentStatuses
    <3> QED BY <2>1, <3>1, CheckWithin DEF LimitInv
  <2>2. ASSUME NEW s \in Send, ReserveChecked(s) \/ \E to \in PaymentStatuses : Transition(s, to)
        PROVE  LimitInv'
    <3>1. LimitTypes' /\ HaveRows'
      BY <2>2 DEF LimitInv, LimitTypes, HaveRows, ReserveChecked, Transition, PaymentStatuses
    <3>2. UNCHANGED <<customer, counted>> /\ \A r \in Send : LetThrough(r)' => LetThrough(r)
      BY <2>2 DEF LimitInv, LimitTypes, LetThrough, ReserveChecked, Transition
    <3> QED BY <3>1, <3>2, StaysWithin DEF LimitInv
  <2>3. ASSUME NEW s \in Send, MoneyMoves(s) PROVE LimitInv'
    <3>1. LimitTypes' /\ HaveRows'
      BY <2>3 DEF LimitInv, LimitTypes, HaveRows, MoneyMoves, PaymentStatuses
    <3>2. UNCHANGED <<customer, counted>> /\ \A r \in Send : LetThrough(r)' => LetThrough(r)
      BY <2>3 DEF LetThrough, MoneyMoves
    <3> QED BY <3>1, <3>2, StaysWithin DEF LimitInv
  <2> QED BY <2>1, <2>2, <2>3 DEF LimitNext
<1> QED BY <1>1, <1>2, PTL DEF LimitSpec

\* The money sent within the day stays below the daily limit of the tier, for
\* any amounts and number of payments, unless neither of two of them found the
\* row of the other when it was checked.
THEOREM SpecDailyLimit == LimitSpec => []DailyLimit
<1>1. LimitInv => DailyLimit
  <2> SUFFICES ASSUME LimitInv,
                      \A s, r \in money : s # r => s \in counted[r] \/ r \in counted[s]
               PROVE  ~ Total(money) > Limits[customer.tier].daily
    BY DEF DailyLimit
  <2>1. money \in SUBSET Send /\ \A s \in money : LetThrough(s)
    BY DEF LimitInv, LimitTypes, HaveRows, LetThrough
  <2>2. Total(money) <= DayLimit
    BY <2>1 DEF LimitInv, TogetherWithin
  <2>3. DayLimit \in Nat /\ Total(money) \in Nat
    BY <2>1, SomeSends, LimitsAssumption, DailyType DEF LimitInv, LimitTypes, DayLimit
  <2> QED BY <2>2, <2>3 DEF DayLimit
<1> QED BY <1>1, LimitInvHolds, PTL
-----------------------------------------------------------------------------
(***************************************************************************)
(* The conversation.  The queue of the customer's messages handles them    *)
(* one at a time while the lock can be trusted (OrderingProofs): then what *)
(* a handler has read is what is pending, and a payment that is pending    *)
(* was neither paid nor cancelled.                                         *)
(***************************************************************************)
ChatIsHandling == \A w \in Worker : chat[w] # NoChat <=> At(w, "handling")

\* A pending payment was asked for, and confirmed if it waits for the PIN.
Confirmed(p) ==
  p # NoPending =>
    /\ p.id \in DOMAIN asked
    /\ p.step = "pin" /\ asked[p.id].risky => p.id \in confirmed

ClaimedIsConfirmed ==
  /\ Confirmed(pending)
  /\ \A w \in Worker :
       /\ Confirmed(Copy(w))
       /\ ChatAt(w, "claiming") \/ ChatAt(w, "paying") => Copy(w).step = "pin"

Open(id) == id \notin cancelled /\ \A i \in DOMAIN paid : paid[i].id # id

\* What one handler at a time knows.
CopyIsPending ==
  /\ pending # NoPending => Open(pending.id)
  /\ \A w \in Worker :
       /\ chat[w].at \in {"resolving", "deciding", "claiming"} => Copy(w) = pending
       /\ ChatAt(w, "paying") => pending = NoPending /\ Open(Copy(w).id)

ConvInv ==
  /\ TypeOK
  /\ ChatIsHandling
  /\ ClaimedIsConfirmed
  /\ LockTrusted => CopyIsPending
  /\ PaidAsConfirmed

LEMMA Silence == NoPending \in Pendings /\ NoChat \in [at : {"none"}, copy : Pendings]
BY DEF NoChat, NoPending, Pendings

\* Seen from the queue, the conversation is one of its handlers.
LEMMA ConversationIsOrdNext == [Next]_vars => [OrdNext]_ordVars
<1> SUFFICES ASSUME [Next]_vars PROVE [OrdNext]_ordVars
  OBVIOUS
<1>1. ASSUME NEW w \in Worker, Handle(w) \/ CrashRun(w) PROVE [OrdNext]_ordVars
  BY <1>1 DEF Handle, BeginHandling, ReadUser, ResolveUser, Ask, Cancel, Expire, ConfirmHighRisk, AcceptPin,
              Reply, ClaimPending, Pay, Return, Throw, CrashRun, OrdNext, Advance, ordVars
<1>2. ASSUME NEW w \in Worker, Process(w) \/ MarkCompleted(w) \/ Stall(w) PROVE OrdNext
  BY <1>2 DEF OrdNext, Advance
<1>3. CASE LockExpires \/ \E m \in Message : CustomerSends(m)
  BY <1>3 DEF OrdNext, CustomerSends
<1>4. CASE UNCHANGED vars
  BY <1>4 DEF vars
<1> QED BY <1>1, <1>2, <1>3, <1>4 DEF Next

LEMMA ConversationInOrder == Spec => []IInv
<1>1. Init => OrdInit
  BY DEF Init
<1> QED BY <1>1, InitIInv, NextIInv, ConversationIsOrdNext, PTL DEF Spec

\* A handler is alone as long as the lock can be trusted.
LEMMA HandlerAlone ==
  ASSUME IInv, ConvInv, LockTrusted, NEW w \in Worker, chat[w] # NoChat
  PROVE  \A v \in Worker \ {w} : chat[v] = NoChat
BY DEF IInv, LockHeld, ConvInv, ChatIsHandling, At, InUse, Idle

LEMMA ChatType ==
  ASSUME TypeOK, NEW w \in Worker
  PROVE  /\ Copy(w) \in Pendings
         /\ chat[w] # NoChat <=> chat[w].at \in ChatSteps
BY Silence DEF TypeOK, Copy, NoChat, ChatSteps

\* A step of the queue that no handler notices.
LEMMA QueueStep ==
  ASSUME IInv, ConvInv, UNCHANGED chatVars, OrdTypeOK',
         \A w \in Worker : At(w, "handling")' <=> At(w, "handling")
  PROVE  ConvInv'
BY DEF ConvInv, TypeOK, chatVars, ChatIsHandling, ClaimedIsConfirmed, Confirmed, CopyIsPending, Open,
       Copy, ChatAt, PaidAsConfirmed, PaidOnceInOrder, PaidOnce, PaidAfterWarning

LEMMA QueueSteps ==
  ASSUME IInv, ConvInv, OrdTypeOK', UNCHANGED chatVars,
         \/ \E m \in Message : CustomerSends(m)
         \/ \E w \in Worker : Process(w) \/ MarkCompleted(w) \/ Stall(w)
         \/ LockExpires
  PROVE  ConvInv'
<1>1. ASSUME NEW w \in Worker, Process(w) \/ MarkCompleted(w)
      PROVE  \A v \in Worker : At(v, "handling")' <=> At(v, "handling")
  <2>1. run \in [Worker -> {Idle} \cup [step : RunSteps, m : Message]]
    BY DEF IInv, OrdTypeOK
  <2>2. CASE \E m \in Message : Take(w, m)
    BY <2>1, <2>2 DEF Take, At, Idle
  <2>3. CASE SkipStale(w) \/ Requeue(w) \/ Finish(w) \/ Fail(w)
    BY <2>1, <2>3 DEF SkipStale, Requeue, Finish, Fail, Stop, At, Idle
  <2>4. CASE ReadCursor(w) \/ Acquire(w) \/ AdvanceCursor(w) \/ MarkCompleted(w)
    BY <2>1, <2>4 DEF ReadCursor, Acquire, AdvanceCursor, MarkCompleted, Goto, At, Idle
  <2> QED BY <1>1, <2>2, <2>3, <2>4 DEF Process
<1>2. CASE UNCHANGED run
  BY <1>2, QueueStep DEF At
<1> QED BY <1>1, <1>2, QueueStep DEF CustomerSends, Arrive, Stall, LockExpires

\* What is left to show of a step of one handler.
LEMMA HandlerStep ==
  ASSUME IInv, ConvInv, NEW w \in Worker, chat[w] # NoChat, UNCHANGED ordVars,
         NEW new \in [at : ChatSteps, copy : Pendings], chat' = [chat EXCEPT ![w] = new],
         pending' \in Pendings,
         asked' \in Seq([at : Nat, risky : BOOLEAN]), Len(asked') <= MaxAsked,
         confirmed' \cup cancelled' \subseteq DOMAIN asked',
         paid' \in Seq([id : DOMAIN asked', by : Message]),
         DOMAIN asked \subseteq DOMAIN asked', \A id \in DOMAIN asked : asked'[id] = asked[id],
         confirmed \subseteq confirmed',
         Confirmed(pending)',
         LET p == new.copy
         IN  p # NoPending => /\ p.id \in DOMAIN asked'
                              /\ p.step = "pin" /\ asked'[p.id].risky => p.id \in confirmed',
         new.at \in {"claiming", "paying"} => new.copy.step = "pin",
         PaidAfterWarning',
         LockTrusted => /\ pending' # NoPending => Open(pending.id)'
                        /\ new.at \in {"resolving", "deciding", "claiming"} => new.copy = pending'
                        /\ new.at = "paying" => /\ pending' = NoPending
                                                /\ new.copy.id \notin cancelled'
                                                /\ \A i \in DOMAIN paid' : paid'[i].id # new.copy.id
                        /\ PaidOnce'
  PROVE  ConvInv'
<1>1. /\ chat' \in [Worker -> {NoChat} \cup [at : ChatSteps, copy : Pendings]]
      /\ chat'[w] = new /\ \A v \in Worker \ {w} : chat'[v] = chat[v]
  BY DEF ConvInv, TypeOK
<1>2. TypeOK'
  BY <1>1 DEF ConvInv, TypeOK, OrdTypeOK, ordVars
<1>3. ChatIsHandling'
  <2>1. new # NoChat
    BY DEF NoChat, ChatSteps
  <2> QED BY <1>1, <2>1 DEF ConvInv, ChatIsHandling, At, ordVars
<1>4. ClaimedIsConfirmed'
  <2>1. ASSUME NEW v \in Worker \ {w}
        PROVE  Confirmed(Copy(v))' /\ (ChatAt(v, "claiming")' \/ ChatAt(v, "paying")' => Copy(v)'.step = "pin")
    BY <1>1 DEF ConvInv, ClaimedIsConfirmed, Confirmed, Copy, ChatAt
  <2>2. Confirmed(Copy(w))' /\ (ChatAt(w, "claiming")' \/ ChatAt(w, "paying")' => Copy(w)'.step = "pin")
    BY <1>1 DEF Confirmed, Copy, ChatAt
  <2> QED BY <2>1, <2>2 DEF ClaimedIsConfirmed
<1>5. ASSUME LockTrusted PROVE CopyIsPending'
  <2>1. ASSUME NEW v \in Worker \ {w} PROVE chat'[v].at = "none"
    BY <1>1, <1>5, HandlerAlone DEF NoChat
  <2> QED BY <1>1, <1>5, <2>1 DEF CopyIsPending, Copy, ChatAt, Open
<1>6. PaidAsConfirmed'
  BY DEF PaidAsConfirmed, PaidOnceInOrder, LockTrusted
<1> QED BY <1>2, <1>3, <1>4, <1>5, <1>6 DEF ConvInv, LockTrusted

\* A handler that leaves what was paid and asked for alone.
LEMMA HandlerWrites ==
  ASSUME IInv, ConvInv, NEW w \in Worker, chat[w] # NoChat, UNCHANGED <<ordVars, asked, paid>>,
         NEW new \in [at : ChatSteps, copy : Pendings], chat' = [chat EXCEPT ![w] = new],
         pending' \in Pendings, confirmed' \cup cancelled' \subseteq DOMAIN asked,
         confirmed \subseteq confirmed',
         pending' \in {pending, NoPending}
           \/ (/\ pending' = Pending(Copy(w).id, "pin") /\ Copy(w) # NoPending
               /\ Copy(w).id \in confirmed' /\ ChatAt(w, "deciding")),
         cancelled' = cancelled \/ (pending' = NoPending /\ new.at = "replying"),
         Confirmed(new.copy),
         new.at \in {"claiming", "paying"} => new.copy.step = "pin",
         LockTrusted /\ new.at \in {"resolving", "deciding", "claiming"} => new.copy = pending',
         new.at = "paying" => /\ pending' = NoPending /\ cancelled' = cancelled
                              /\ new.copy = Copy(w) /\ ChatAt(w, "claiming") /\ pending # NoPending
  PROVE  ConvInv'
<1>1. /\ asked' \in Seq([at : Nat, risky : BOOLEAN]) /\ Len(asked') <= MaxAsked
      /\ paid' \in Seq([id : DOMAIN asked', by : Message])
      /\ confirmed' \cup cancelled' \subseteq DOMAIN asked'
  BY DEF ConvInv, TypeOK
<1>2. Copy(w) \in Pendings /\ Confirmed(Copy(w)) /\ Confirmed(pending) /\ PaidAfterWarning
  BY ChatType DEF ConvInv, ClaimedIsConfirmed, PaidAsConfirmed
<1>3. Confirmed(pending)'
  BY <1>2 DEF Confirmed, Pending, NoPending
<1>4. PaidAfterWarning'
  BY <1>2 DEF PaidAfterWarning
<1>5. LET p == new.copy
      IN  p # NoPending => /\ p.id \in DOMAIN asked'
                           /\ p.step = "pin" /\ asked'[p.id].risky => p.id \in confirmed'
  BY DEF Confirmed
<1>6. ASSUME LockTrusted
      PROVE  /\ pending' # NoPending => Open(pending.id)'
             /\ new.at = "paying" => /\ new.copy.id \notin cancelled'
                                     /\ \A i \in DOMAIN paid' : paid'[i].id # new.copy.id
             /\ PaidOnce'
  <2>1. /\ pending # NoPending => Open(pending.id)
        /\ ChatAt(w, "deciding") \/ ChatAt(w, "claiming") => Copy(w) = pending
        /\ PaidOnce
    BY <1>6 DEF ConvInv, CopyIsPending, PaidAsConfirmed, PaidOnceInOrder, ChatAt
  <2>2. PaidOnce'
    BY <2>1 DEF PaidOnce
  <2>3. pending' # NoPending => pending # NoPending /\ pending'.id = pending.id /\ cancelled' = cancelled
    BY <2>1 DEF Pending
  <2> QED BY <2>1, <2>2, <2>3 DEF Open
<1> QED BY <1>1, <1>3, <1>4, <1>5, <1>6, HandlerStep

LEMMA HandleKeeps ==
  ASSUME IInv, ConvInv, NEW w \in Worker,
         \/ ReadUser(w) \/ ResolveUser(w) \/ Cancel(w) \/ Expire(w) \/ ConfirmHighRisk(w)
         \/ AcceptPin(w) \/ Reply(w) \/ ClaimPending(w)
  PROVE  ConvInv'
<1>1. /\ pending \in Pendings /\ NoPending \in Pendings /\ Confirmed(pending) /\ Confirmed(NoPending)
      /\ Copy(w) \in Pendings /\ Confirmed(Copy(w)) /\ confirmed \cup cancelled \subseteq DOMAIN asked
  BY ChatType, Silence DEF ConvInv, ClaimedIsConfirmed, TypeOK, Confirmed
<1>2. chat[w] # NoChat
  <2>1. chat[w].at \in {"arriving", "resolving", "deciding", "claiming"}
    BY DEF ReadUser, ResolveUser, Cancel, Expire, ConfirmHighRisk, AcceptPin, Reply, ClaimPending, ChatAt
  <2> QED BY <2>1 DEF NoChat
<1>3. chat[w] \in [at : ChatSteps, copy : Pendings]
  BY <1>2 DEF ConvInv, TypeOK
<1>4. ASSUME NEW step \in ChatSteps, ChatGoto(w, step)
      PROVE  \E new \in [at : ChatSteps, copy : Pendings] :
               new.at = step /\ new.copy = Copy(w) /\ chat' = [chat EXCEPT ![w] = new]
  <2>1. PICK new : new = [chat[w] EXCEPT !.at = step]
    OBVIOUS
  <2>2. new \in [at : ChatSteps, copy : Pendings] /\ new.at = step /\ new.copy = Copy(w)
    BY <1>3, <2>1 DEF Copy
  <2> QED BY <1>4, <2>1, <2>2 DEF ChatGoto
<1>5. CASE ReadUser(w)
  <2>1. PICK new : new = [at |-> "resolving", copy |-> pending]
    OBVIOUS
  <2>2. new \in [at : ChatSteps, copy : Pendings] /\ new.at = "resolving" /\ new.copy = pending
    BY <1>1, <2>1 DEF ChatSteps
  <2> QED BY <1>1, <1>2, <1>5, <2>1, <2>2, HandlerWrites DEF ReadUser
<1>6. CASE ResolveUser(w)
  <2>1. PICK new : new = [at |-> "deciding", copy |-> IF pending = NoPending THEN Copy(w) ELSE pending]
    OBVIOUS
  <2>2. new \in [at : ChatSteps, copy : Pendings] /\ new.at = "deciding" /\ new.copy \in {Copy(w), pending}
    BY <1>1, <2>1 DEF ChatSteps
  <2>3. LockTrusted => new.copy = pending
    BY <1>6, <2>1 DEF ConvInv, CopyIsPending, ResolveUser, ChatAt
  <2> QED BY <1>1, <1>2, <1>6, <2>1, <2>2, <2>3, HandlerWrites DEF ResolveUser
<1>7. CASE Cancel(w)
  <2>1. PICK new \in [at : ChatSteps, copy : Pendings] :
          new.at = "replying" /\ new.copy = Copy(w) /\ chat' = [chat EXCEPT ![w] = new]
    BY <1>4, <1>7 DEF Cancel, ChatSteps
  <2>2. cancelled' \subseteq DOMAIN asked
    BY <1>1, <1>7 DEF Cancel, Confirmed
  <2> QED BY <1>1, <1>2, <1>7, <2>1, <2>2, HandlerWrites DEF Cancel
<1>8. CASE Expire(w) \/ Reply(w)
  <2>1. PICK new \in [at : ChatSteps, copy : Pendings] :
          new.at = "replying" /\ new.copy = Copy(w) /\ chat' = [chat EXCEPT ![w] = new]
    BY <1>4, <1>8 DEF Expire, Reply, ChatSteps
  <2>2. /\ UNCHANGED <<ordVars, asked, paid>> /\ confirmed' = confirmed /\ cancelled' = cancelled
        /\ pending' \in {pending, NoPending} /\ pending' \in Pendings
    BY <1>1, <1>8 DEF Expire, Reply
  <2>3. confirmed' \cup cancelled' \subseteq DOMAIN asked /\ confirmed \subseteq confirmed'
    BY <1>1, <2>2
  <2>4. new.at \notin {"claiming", "paying", "resolving", "deciding"}
    BY <2>1
  <2> QED BY <1>1, <1>2, <2>1, <2>2, <2>3, <2>4, HandlerWrites
<1>9. CASE ConfirmHighRisk(w)
  <2>1. PICK new \in [at : ChatSteps, copy : Pendings] :
          new.at = "replying" /\ new.copy = Copy(w) /\ chat' = [chat EXCEPT ![w] = new]
    BY <1>4, <1>9 DEF ConfirmHighRisk, ChatSteps
  <2>2. Copy(w) # NoPending /\ Copy(w) \in [id : 1 .. MaxAsked, step : {"highRisk", "pin"}]
    BY <1>1, <1>9 DEF ConfirmHighRisk, NoPending, Pendings
  <2>3. pending' \in Pendings /\ confirmed' \cup cancelled' \subseteq DOMAIN asked
    BY <1>1, <1>9, <2>2 DEF ConfirmHighRisk, Pending, Pendings, Confirmed
  <2> QED BY <1>1, <1>2, <1>9, <2>1, <2>2, <2>3, HandlerWrites DEF ConfirmHighRisk
<1>10. CASE AcceptPin(w)
  <2>1. PICK new \in [at : ChatSteps, copy : Pendings] :
          new.at = "claiming" /\ new.copy = Copy(w) /\ chat' = [chat EXCEPT ![w] = new]
    BY <1>4, <1>10 DEF AcceptPin, ChatSteps
  <2>2. LockTrusted => Copy(w) = pending
    BY <1>10 DEF ConvInv, CopyIsPending, AcceptPin, ChatAt
  <2> QED BY <1>1, <1>2, <1>10, <2>1, <2>2, HandlerWrites DEF AcceptPin
<1>11. CASE ClaimPending(w)
  <2>1. PICK step \in {"replying", "paying"} :
          step = (IF pending = NoPending THEN "replying" ELSE "paying") /\ ChatGoto(w, step)
    BY <1>11 DEF ClaimPending
  <2>2. PICK new \in [at : ChatSteps, copy : Pendings] :
          new.at = step /\ new.copy = Copy(w) /\ chat' = [chat EXCEPT ![w] = new]
    BY <1>4, <2>1 DEF ChatSteps
  <2>3. Copy(w).step = "pin"
    BY <1>11 DEF ConvInv, ClaimedIsConfirmed, ClaimPending
  <2> QED BY <1>1, <1>2, <1>11, <2>1, <2>2, <2>3, HandlerWrites DEF ClaimPending
<1> QED BY <1>5, <1>6, <1>7, <1>8, <1>9, <1>10, <1>11

LEMMA SeqMonotone ==
  ASSUME NEW S, NEW T, S \subseteq T, NEW s \in Seq(S)
  PROVE  s \in Seq(T)
<1>1. Len(s) \in Nat /\ s \in [1 .. Len(s) -> T]
  OBVIOUS
<1> QED BY <1>1

LEMMA AskKeeps ==
  ASSUME IInv, ConvInv, NEW w \in Worker, Ask(w)
  PROVE  ConvInv'
<1>1. chat[w] # NoChat /\ Copy(w) = NoPending /\ NoPending \in Pendings
  BY Silence DEF Ask, ChatAt, NoChat
<1>2. PICK new : new = [chat[w] EXCEPT !.at = "replying"]
  OBVIOUS
<1>3. /\ new \in [at : ChatSteps, copy : Pendings] /\ chat' = [chat EXCEPT ![w] = new]
      /\ new.at = "replying" /\ new.copy = NoPending
  <2>1. chat[w] \in [at : ChatSteps, copy : Pendings] /\ chat[w].copy = NoPending
    BY <1>1 DEF ConvInv, TypeOK, Copy
  <2> QED BY <1>1, <1>2, <2>1 DEF Ask, ChatGoto, ChatSteps
<1>4. PICK risky \in BOOLEAN :
        /\ asked' = Append(asked, [at |-> Timestamp[run[w].m], risky |-> risky])
        /\ pending' = Request(Len(asked'), risky)
  BY DEF Ask
<1>5. Timestamp[run[w].m] \in Nat
  <2>1. At(w, "handling")
    BY <1>1 DEF ConvInv, ChatIsHandling
  <2>2. run[w] # Idle
    BY <2>1 DEF At, Idle
  <2> QED BY <2>2, RunType, OrderingAssumption DEF IInv
<1>6. /\ asked \in Seq([at : Nat, risky : BOOLEAN]) /\ Len(asked) < MaxAsked /\ Len(asked) \in Nat
      /\ DOMAIN asked = 1 .. Len(asked) /\ MaxAsked \in Nat
  BY ConversationAssumption DEF ConvInv, TypeOK, Ask
<1>7. /\ asked' \in Seq([at : Nat, risky : BOOLEAN]) /\ Len(asked') = Len(asked) + 1
      /\ DOMAIN asked' = 1 .. Len(asked) + 1
      /\ \A id \in DOMAIN asked : asked'[id] = asked[id]
      /\ asked'[Len(asked) + 1].risky = risky
  BY <1>4, <1>5, <1>6
<1>8. /\ pending' \in Pendings /\ pending'.id = Len(asked) + 1
      /\ pending'.step = "pin" => ~ risky
  BY <1>4, <1>6, <1>7 DEF Request, Pending, Pendings
<1>9. Confirmed(pending)'
  BY <1>7, <1>8 DEF Confirmed
<1>10. /\ UNCHANGED <<ordVars, confirmed, cancelled, paid>>
       /\ confirmed \cup cancelled \subseteq DOMAIN asked
       /\ paid \in Seq([id : DOMAIN asked, by : Message])
       /\ \A i \in DOMAIN paid : paid[i].id \in DOMAIN asked
  <2>1. paid \in Seq([id : DOMAIN asked, by : Message])
    BY DEF ConvInv, TypeOK
  <2>2. \A i \in DOMAIN paid : paid[i] \in [id : DOMAIN asked, by : Message]
    <3>1. \A S : paid \in Seq(S) => \A i \in DOMAIN paid : paid[i] \in S
      OBVIOUS
    <3> QED BY <2>1, <3>1
  <2> QED BY <2>1, <2>2 DEF ConvInv, TypeOK, Ask
<1>11. paid' \in Seq([id : DOMAIN asked', by : Message])
  <2>1. [id : DOMAIN asked, by : Message] \subseteq [id : DOMAIN asked', by : Message]
    BY <1>6, <1>7
  <2>2. \A T : [id : DOMAIN asked, by : Message] \subseteq T => paid \in Seq(T)
    BY <1>10, SeqMonotone
  <2>3. paid \in Seq([id : DOMAIN asked', by : Message])
    BY <2>1, <2>2
  <2> QED BY <1>10, <2>3
<1>12. PaidAfterWarning'
  BY <1>7, <1>10 DEF ConvInv, PaidAsConfirmed, PaidAfterWarning
<1>13. ASSUME LockTrusted PROVE Open(pending.id)' /\ PaidOnce'
  <2>1. Len(asked) + 1 \notin DOMAIN asked
    BY <1>6
  <2>2. PaidOnce'
    BY <1>10, <1>13 DEF ConvInv, PaidAsConfirmed, PaidOnceInOrder, PaidOnce
  <2>3. Open(pending.id)'
    BY <1>8, <1>10, <2>1 DEF Open
  <2> QED BY <2>2, <2>3
<1>14. /\ DOMAIN asked \subseteq DOMAIN asked' /\ Len(asked') <= MaxAsked
       /\ confirmed' \cup cancelled' \subseteq DOMAIN asked' /\ confirmed \subseteq confirmed'
       /\ UNCHANGED ordVars /\ new.at \notin {"resolving", "deciding", "claiming", "paying"}
  BY <1>3, <1>6, <1>7, <1>10
<1> QED BY <1>1, <1>3, <1>7, <1>8, <1>9, <1>11, <1>12, <1>13, <1>14, HandlerStep

LEMMA PayKeeps ==
  ASSUME IInv, ConvInv, NEW w \in Worker, Pay(w)
  PROVE  ConvInv'
<1>1. chat[w] # NoChat /\ Copy(w) \in Pendings
  BY ChatType DEF ConvInv, Pay, ChatAt, NoChat
<1>2. chat[w] \in [at : ChatSteps, copy : Pendings]
  BY <1>1 DEF ConvInv, TypeOK
<1>3. PICK new : new = [chat[w] EXCEPT !.at = "throwing"]
  OBVIOUS
<1>4. /\ new \in [at : ChatSteps, copy : Pendings] /\ chat' = [chat EXCEPT ![w] = new]
      /\ new.at = "throwing" /\ new.copy = Copy(w)
  BY <1>2, <1>3 DEF Pay, ChatGoto, ChatSteps, Copy
<1>5. /\ Copy(w).step = "pin" /\ Copy(w) # NoPending
      /\ Copy(w).id \in DOMAIN asked /\ (asked[Copy(w).id].risky => Copy(w).id \in confirmed)
  BY DEF ConvInv, ClaimedIsConfirmed, Pay, Confirmed, NoPending
<1>6. run[w].m \in Message
  <2>1. At(w, "handling")
    BY <1>1 DEF ConvInv, ChatIsHandling
  <2>2. run[w] # Idle
    BY <2>1 DEF At, Idle
  <2> QED BY <2>2, RunType DEF IInv
<1>7. PICK payment \in [id : DOMAIN asked, by : Message] :
        payment = [id |-> Copy(w).id, by |-> run[w].m]
  BY <1>5, <1>6
<1>8. /\ UNCHANGED <<ordVars, pending, asked, confirmed, cancelled>>
      /\ paid \in Seq([id : DOMAIN asked, by : Message])
      /\ paid' = Append(paid, payment) \/ paid' = paid
      /\ asked \in Seq([at : Nat, risky : BOOLEAN]) /\ Len(asked) <= MaxAsked
      /\ confirmed \cup cancelled \subseteq DOMAIN asked /\ pending \in Pendings
      /\ Confirmed(pending) /\ PaidAfterWarning
  BY <1>7 DEF Pay, ConvInv, TypeOK, ClaimedIsConfirmed, PaidAsConfirmed
<1>9. /\ paid' \in Seq([id : DOMAIN asked', by : Message])
      /\ \A i \in DOMAIN paid' :
           \/ i \in DOMAIN paid /\ paid'[i] = paid[i]
           \/ i = Len(paid) + 1 /\ i \notin DOMAIN paid /\ paid'[i] = payment
  <2>1. asked' = asked
    BY <1>8
  <2>2. CASE paid' = paid
    BY <1>8, <2>1, <2>2
  <2>3. CASE paid' = Append(paid, payment)
    BY <1>8, <2>1, <2>3
  <2> QED BY <1>8, <2>2, <2>3
<1>10. PaidAfterWarning' /\ Confirmed(pending)'
  BY <1>5, <1>7, <1>8, <1>9, SMTT(60) DEF PaidAfterWarning, Confirmed
<1>11. ASSUME LockTrusted PROVE pending = NoPending /\ PaidOnce'
  <2>1. pending = NoPending /\ Open(Copy(w).id) /\ PaidOnce
    BY <1>11 DEF ConvInv, CopyIsPending, Pay, PaidAsConfirmed, PaidOnceInOrder
  <2> QED BY <1>7, <1>9, <2>1 DEF PaidOnce, Open
<1>12. new.copy # NoPending =>
         /\ new.copy.id \in DOMAIN asked'
         /\ new.copy.step = "pin" /\ asked'[new.copy.id].risky => new.copy.id \in confirmed'
  BY <1>4, <1>5, <1>8
<1> QED BY <1>1, <1>4, <1>8, <1>9, <1>10, <1>11, <1>12, HandlerStep

\* A handler begins, or is over.
LEMMA HandlerChanges ==
  ASSUME IInv, ConvInv, OrdTypeOK', NEW w \in Worker,
         UNCHANGED <<pending, asked, confirmed, cancelled, paid>>,
         NEW new, new = NoChat \/ new = [at |-> "arriving", copy |-> NoPending],
         chat' = [chat EXCEPT ![w] = new],
         new # NoChat <=> At(w, "handling")',
         \A v \in Worker \ {w} : At(v, "handling")' <=> At(v, "handling")
  PROVE  ConvInv'
<1>1. /\ new \in {NoChat} \cup [at : ChatSteps, copy : Pendings]
      /\ new.at \in {"none", "arriving"} /\ new.copy = NoPending
  BY Silence DEF NoChat, ChatSteps
<1>2. /\ chat' \in [Worker -> {NoChat} \cup [at : ChatSteps, copy : Pendings]]
      /\ chat'[w] = new /\ \A v \in Worker \ {w} : chat'[v] = chat[v]
  BY <1>1 DEF ConvInv, TypeOK
<1>3. TypeOK' /\ ChatIsHandling'
  BY <1>2 DEF ConvInv, TypeOK, ChatIsHandling
<1>4. ClaimedIsConfirmed'
  BY <1>1, <1>2 DEF ConvInv, ClaimedIsConfirmed, Confirmed, Copy, ChatAt
<1>5. LockTrusted => CopyIsPending'
  BY <1>1, <1>2 DEF ConvInv, CopyIsPending, Copy, ChatAt, Open
<1>6. PaidAsConfirmed'
  BY DEF ConvInv, PaidAsConfirmed, PaidOnceInOrder, PaidOnce, PaidAfterWarning
<1> QED BY <1>3, <1>4, <1>5, <1>6 DEF ConvInv

LEMMA HandlerChangesKeep ==
  ASSUME IInv, ConvInv, OrdTypeOK', NEW w \in Worker,
         BeginHandling(w) \/ Return(w) \/ Throw(w) \/ CrashRun(w)
  PROVE  ConvInv'
<1>1. run \in [Worker -> {Idle} \cup [step : RunSteps, m : Message]]
  BY DEF IInv, OrdTypeOK
<1>2. CASE BeginHandling(w)
  <2>1. At(w, "marking") /\ chat[w] = NoChat
    BY <1>2 DEF BeginHandling, MarkProcessing, At, ConvInv, ChatIsHandling
  <2>2. /\ run'[w].step \in {"handling", "failing"}
        /\ \A v \in Worker \ {w} : run'[v] = run[v]
    BY <1>1, <1>2 DEF BeginHandling, MarkProcessing, Goto, At, Idle
  <2>3. CASE run'[w].step = "handling"
    <3>1. chat' = [chat EXCEPT ![w] = [at |-> "arriving", copy |-> NoPending]]
      BY <1>2, <2>1, <2>3 DEF BeginHandling, ChatGoto, ConvInv, TypeOK, NoChat
    <3>2. [at |-> "arriving", copy |-> NoPending] # NoChat
      BY DEF NoChat
    <3> QED BY <1>2, <2>2, <2>3, <3>1, <3>2, HandlerChanges DEF BeginHandling, At
  <2>4. CASE run'[w].step # "handling"
    <3>1. chat' = [chat EXCEPT ![w] = NoChat]
      BY <1>2, <2>1, <2>4 DEF BeginHandling, ConvInv, TypeOK
    <3> QED BY <1>2, <2>2, <2>4, <3>1, HandlerChanges DEF BeginHandling, At
  <2> QED BY <2>3, <2>4
<1>3. CASE Return(w) \/ Throw(w) \/ CrashRun(w)
  <2>1. chat' = [chat EXCEPT ![w] = NoChat] /\ UNCHANGED <<pending, asked, confirmed, cancelled, paid>>
    BY <1>3 DEF Return, Throw, CrashRun
  <2>2. /\ run'[w].step # "handling"
        /\ \A v \in Worker \ {w} : run'[v] = run[v]
    BY <1>1, <1>3 DEF Return, Throw, CrashRun, HandlerReturns, HandlerThrows, Crash, Goto, Stop, At, Idle
  <2> QED BY <2>1, <2>2, HandlerChanges DEF At
<1> QED BY <1>2, <1>3

LEMMA InitConvInv == Init => ConvInv
<1> SUFFICES ASSUME Init PROVE ConvInv
  OBVIOUS
<1>1. OrdTypeOK
  BY InitIInv DEF Init, IInv
<1>2. /\ asked \in Seq([at : Nat, risky : BOOLEAN]) /\ Len(asked) <= MaxAsked /\ pending \in Pendings
      /\ Confirmed(pending)
  <2>1. CASE asked = << >> /\ pending = NoPending
    BY <2>1, Silence, ConversationAssumption DEF Confirmed
  <2>2. ASSUME NEW risky \in BOOLEAN, asked = <<[at |-> 0, risky |-> risky]>>, pending = Request(1, risky)
        PROVE  /\ asked \in Seq([at : Nat, risky : BOOLEAN]) /\ Len(asked) <= MaxAsked /\ pending \in Pendings
               /\ Confirmed(pending)
    <3>1. DOMAIN asked = {1} /\ asked[1].risky = risky
      BY <2>2
    <3> QED BY <2>2, <3>1, ConversationAssumption DEF Request, Pending, Pendings, Confirmed
  <2> QED BY <2>1, <2>2 DEF Init
<1>3. chat = [w \in Worker |-> NoChat] /\ confirmed = {} /\ cancelled = {} /\ paid = << >>
      /\ run = [w \in Worker |-> Idle]
  BY DEF Init, OrdInit
<1>4. TypeOK /\ PaidAsConfirmed
  BY <1>1, <1>2, <1>3 DEF TypeOK, PaidAsConfirmed, PaidOnceInOrder, PaidOnce, PaidAfterWarning
<1>5. ChatIsHandling /\ ClaimedIsConfirmed /\ CopyIsPending
  BY <1>2, <1>3 DEF ChatIsHandling, ClaimedIsConfirmed, CopyIsPending, Copy, ChatAt, NoChat, At, Idle,
                    Confirmed, Open
<1> QED BY <1>4, <1>5 DEF ConvInv

LEMMA NextConvInv == IInv /\ ConvInv /\ [Next]_vars => ConvInv'
<1> SUFFICES ASSUME IInv, ConvInv, [Next]_vars PROVE ConvInv'
  OBVIOUS
<1>1. OrdTypeOK'
  BY NextIInv, ConversationIsOrdNext DEF IInv
<1>2. ASSUME NEW w \in Worker, Handle(w) PROVE ConvInv'
  BY <1>1, <1>2, HandleKeeps, AskKeeps, PayKeeps, HandlerChangesKeep DEF Handle
<1>3. CASE UNCHANGED vars
  BY <1>1, <1>3, QueueStep DEF vars, ordVars, At
<1>4. CASE Next
  BY <1>1, <1>2, <1>4, QueueSteps, HandlerChangesKeep DEF Next, CustomerSends
<1> QED BY <1>3, <1>4

\* A payment is executed once as long as no run outlasts its lock and Redis
\* answers, whatever crashes, repeats and second PINs there are, and a payment to an unknown
\* address never before the customer said yes to the warning.
THEOREM SpecPaidAsConfirmed == Spec => []PaidAsConfirmed
<1>1. ConvInv => PaidAsConfirmed
  BY DEF ConvInv
<1> QED BY <1>1, InitConvInv, NextConvInv, ConversationInOrder, PTL DEF Spec

\* A payment the customer cancelled is not executed afterwards, as long as no
\* run outlasts its lock and Redis answers.
THEOREM SpecCancelledStaysUnpaid == Spec => CancelledStaysUnpaid
<1>1. ConvInv /\ [Next]_vars =>
        [LockTrusted => \A i \in DOMAIN paid' \ DOMAIN paid : paid'[i].id \notin cancelled]_vars
  <2> SUFFICES ASSUME ConvInv, Next, LockTrusted, NEW i \in DOMAIN paid' \ DOMAIN paid
               PROVE  paid'[i].id \notin cancelled
    OBVIOUS
  <2>1. PICK w \in Worker : Pay(w)
    BY DEF Next, CustomerSends, chatVars, Handle, CrashRun, BeginHandling, ReadUser, ResolveUser, Ask, Cancel,
           Expire, ConfirmHighRisk, AcceptPin, Reply, ClaimPending, Return, Throw
  <2>2. Open(Copy(w).id)
    BY <2>1 DEF ConvInv, CopyIsPending, Pay
  <2>3. paid'[i].id = Copy(w).id
    <3>1. paid \in Seq([id : DOMAIN asked, by : Message])
      BY DEF ConvInv, TypeOK
    <3>2. PICK payment : payment = [id |-> Copy(w).id, by |-> run[w].m]
      OBVIOUS
    <3>3. paid' = Append(paid, payment)
      BY <2>1, <3>2 DEF Pay
    <3> QED BY <3>1, <3>2, <3>3
  <2> QED BY <2>2, <2>3 DEF Open
<1> QED BY <1>1, InitConvInv, NextConvInv, ConversationInOrder, PTL DEF Spec, CancelledStaysUnpaid
-----------------------------------------------------------------------------
(***************************************************************************)
(* Quotes.  A request for a price goes back to one first quote; what may   *)
(* still be paid with is a live quote that no requote is about to replace. *)
(***************************************************************************)
Live(q) == quote[q].status \in {"active", "expired"}
Replacing(x, q) == requote[x].step = "created" /\ requote[x].old = q
PaidFor(p, r) == paying[p].step = "paid" /\ Root(paying[p].quote) = r

\* An accident of the request, or a requote that can only end in one: what it
\* replaces is gone, or another one replaces it too.
Doomed(r) ==
  \/ r \in accident
  \/ \E x \in Payer, q \in Quote : Replacing(x, q) /\ Root(q) = r /\ ~ Live(q)
  \/ \E x, y \in Payer, q \in Quote : x # y /\ Replacing(x, q) /\ Replacing(y, q) /\ Root(q) = r

Current(q, r) == Live(q) /\ Root(q) = r /\ \A x \in Payer : ~ Replacing(x, q)

\* A request has one current quote, or one payment, or neither.
OneClaim(r) ==
  /\ \A p, s \in Payer : PaidFor(p, r) /\ PaidFor(s, r) => p = s
  /\ \A p \in Payer, q \in Quote : PaidFor(p, r) => ~ Current(q, r)
  /\ \A q, s \in Quote : Current(q, r) /\ Current(s, r) => q = s

QuotesKnown ==
  /\ \A q \in Quote : Exists(q) => Exists(Root(q)) /\ quote[q].status # "orphaned"
  /\ \A p \in Payer : paying[p].step # "idle" => paying[p].quote \in Quote /\ Exists(paying[p].quote)
  /\ \A x \in Payer : requote[x].step \in {"read", "created"} =>
                        requote[x].old \in Quote /\ Exists(requote[x].old)

QuoteInv == QuoteTypeOK /\ QuotesKnown /\ \A r \in Quote : Doomed(r) \/ OneClaim(r)

\* Rows keep their roots, and no row that is gone comes back.
RowsStand ==
  /\ \A q \in Quote : Exists(q) => Exists(q)' /\ Root(q)' = Root(q) /\ (Live(q)' => Live(q))
  /\ accident \subseteq accident'

LEMMA DoomStays ==
  ASSUME QuoteInv, RowsStand, \A x \in Payer, q \in Quote : Replacing(x, q) => Replacing(x, q)',
         NEW r, Doomed(r)
  PROVE  Doomed(r)'
<1>1. \A x \in Payer, q \in Quote : Replacing(x, q) => Exists(q)
  BY DEF QuoteInv, QuotesKnown, Replacing
<1> QED BY <1>1 DEF Doomed, RowsStand

LEMMA ClaimStays ==
  ASSUME NEW r, Doomed(r) \/ OneClaim(r), Doomed(r) => Doomed(r)',
         \A p \in Payer : PaidFor(p, r)' => PaidFor(p, r),
         \A q \in Quote : Current(q, r)' => Current(q, r)
  PROVE  Doomed(r)' \/ OneClaim(r)'
BY DEF OneClaim

\* Steps that neither pay nor replace nor make a quote.
LEMMA QuietKeeps ==
  ASSUME QuoteInv, NEW p, NEW q \in Quote,
         \/ Lapse(q) \/ ReconcileQuotes
         \/ p \in Payer /\ (Validate(p, q) \/ RollBack(p) \/ RequoteRead(p, q))
  PROVE  QuoteInv'
<1> DEFINE lapsed(u) == Exists(u) /\ quote[u].status = "active" /\ quote[u].lapsed
           row(u) == IF lapsed(u) THEN Row("expired", TRUE, Root(u), quote[u].next) ELSE quote[u]
<1>1. QuoteTypeOK /\ QuotesKnown
  BY DEF QuoteInv
<1>2. ASSUME NEW u \in Quote, Exists(u)
      PROVE  quote[u] \in Rows
  BY <1>1, <1>2 DEF QuoteTypeOK, Exists
<1>3. /\ quote' \in [Quote -> Rows \cup {NoQuote}]
      /\ \A u \in Quote : /\ Exists(u)' <=> Exists(u)
                          /\ Exists(u) => Root(u)' = Root(u)
                          /\ Live(u)' <=> Live(u)
                          /\ Exists(u) => (quote[u].status = "orphaned" <=> quote'[u].status = "orphaned")
  <2>1. CASE Lapse(q)
    <3>1. PICK new : new = [quote[q] EXCEPT !.lapsed = TRUE]
      OBVIOUS
    <3>2. /\ new \in Rows /\ new.root = quote[q].root /\ new.status = quote[q].status /\ new # NoQuote
      BY <1>2, <2>1, <3>1 DEF Lapse, Rows, NoQuote, QuoteStatuses
    <3>3. quote' \in [Quote -> Rows \cup {NoQuote}] /\ quote'[q] = new
          /\ \A u \in Quote \ {q} : quote'[u] = quote[u]
      BY <1>1, <2>1, <3>1, <3>2 DEF Lapse, QuoteTypeOK
    <3> QED BY <2>1, <3>2, <3>3 DEF Lapse, Exists, Root, Live
  <2>2. CASE ReconcileQuotes
    <3>1. quote' = [u \in Quote |-> row(u)]
      BY <2>2 DEF ReconcileQuotes
    <3>2. ASSUME NEW u \in Quote
          PROVE  /\ row(u) \in Rows \cup {NoQuote}
                 /\ row(u) # NoQuote <=> Exists(u)
                 /\ Exists(u) => row(u).root = quote[u].root
                 /\ row(u).status \in {"active", "expired"} <=> Live(u)
                 /\ Exists(u) => (quote[u].status = "orphaned" <=> row(u).status = "orphaned")
      <4>1. CASE lapsed(u)
        <5>1. PICK new : new = Row("expired", TRUE, Root(u), quote[u].next)
          OBVIOUS
        <5>2. new \in Rows /\ new.root = quote[u].root /\ new.status = "expired" /\ new # NoQuote
          BY <1>2, <4>1, <5>1 DEF Row, Rows, Root, NoQuote, QuoteStatuses
        <5> QED BY <4>1, <5>1, <5>2 DEF Live
      <4>2. CASE ~ lapsed(u)
        BY <1>1, <4>2 DEF QuoteTypeOK, Exists, Live
      <4> QED BY <4>1, <4>2
    <3> QED BY <3>1, <3>2 DEF Exists, Root, Live
  <2>3. CASE UNCHANGED quote
    BY <1>1, <2>3 DEF QuoteTypeOK, Exists, Root, Live
  <2> QED BY <2>1, <2>2, <2>3 DEF Validate, RollBack, RequoteRead
<1>4. /\ accident' = accident
      /\ paying' \in [Payer -> [step : {"idle", "validated", "paid"}, quote : Quote \cup {NoQuote}]]
      /\ \A x \in Payer : /\ paying'[x] = paying[x] \/ paying'[x].step # "paid"
                          /\ paying'[x].step # "idle" => /\ paying'[x].quote \in Quote
                                                         /\ Exists(paying'[x].quote)
  <2>1. CASE p \in Payer /\ Validate(p, q)
    <3>1. PICK new : new = [step |-> "validated", quote |-> q]
      OBVIOUS
    <3>2. paying' = [paying EXCEPT ![p] = new] /\ Exists(q) /\ accident' = accident
          /\ new.step = "validated" /\ new.quote = q
          /\ new \in [step : {"idle", "validated", "paid"}, quote : Quote \cup {NoQuote}]
      BY <2>1, <3>1 DEF Validate
    <3> QED BY <1>1, <3>2 DEF QuoteTypeOK, QuotesKnown
  <2>2. CASE p \in Payer /\ RollBack(p)
    <3>1. PICK new : new = [step |-> "idle", quote |-> NoQuote]
      OBVIOUS
    <3>2. paying' = [paying EXCEPT ![p] = new] /\ accident' = accident /\ new.step = "idle"
          /\ new \in [step : {"idle", "validated", "paid"}, quote : Quote \cup {NoQuote}]
      BY <2>2, <3>1 DEF RollBack
    <3> QED BY <1>1, <3>2 DEF QuoteTypeOK, QuotesKnown
  <2>3. CASE UNCHANGED <<paying, accident>>
    BY <1>1, <2>3 DEF QuoteTypeOK, QuotesKnown
  <2> QED BY <2>1, <2>2, <2>3 DEF Lapse, ReconcileQuotes, RequoteRead
<1>5. /\ requote' \in [Payer -> [step : {"idle", "read", "created", "done"},
                                 old : Quote \cup {NoQuote}, new : Quote \cup {NoQuote}]]
      /\ \A x \in Payer, u \in Quote : Replacing(x, u)' <=> Replacing(x, u)
      /\ \A x \in Payer : requote'[x].step \in {"read", "created"} => /\ requote'[x].old \in Quote
                                                                      /\ Exists(requote'[x].old)
  <2>1. CASE p \in Payer /\ RequoteRead(p, q)
    <3>1. PICK new : new = [step |-> IF quote[q].status = "consumed" \/ quote[q].next # NoQuote
                                     THEN "done" ELSE "read",
                            old |-> q, new |-> NoQuote]
      OBVIOUS
    <3>2. requote' = [requote EXCEPT ![p] = new] /\ Exists(q) /\ requote[p].step = "idle"
          /\ new.step \in {"done", "read"} /\ new.old = q
          /\ new \in [step : {"idle", "read", "created", "done"},
                      old : Quote \cup {NoQuote}, new : Quote \cup {NoQuote}]
      BY <2>1, <3>1 DEF RequoteRead
    <3> QED BY <1>1, <3>2 DEF QuoteTypeOK, QuotesKnown, Replacing
  <2>2. CASE UNCHANGED requote
    BY <1>1, <2>2 DEF QuoteTypeOK, QuotesKnown, Replacing
  <2> QED BY <2>1, <2>2 DEF Lapse, ReconcileQuotes, Validate, RollBack
<1>6. QuoteTypeOK'
  BY <1>1, <1>3, <1>4, <1>5 DEF QuoteTypeOK
<1>7. QuotesKnown'
  <2>1. ASSUME NEW u \in Quote, Exists(u)' PROVE Exists(Root(u))' /\ quote'[u].status # "orphaned"
    <3>1. Exists(u) /\ Root(u) \in Quote /\ Exists(Root(u)) /\ quote[u].status # "orphaned"
      BY <1>1, <1>2, <1>3, <2>1 DEF QuotesKnown, Rows, Root
    <3>2. \A v \in Quote : Exists(v) => quote'[v] # NoQuote
      BY <1>3 DEF Exists
    <3>3. Root(u)' = Root(u)
      BY <1>3, <3>1
    <3> QED BY <1>3, <3>1, <3>2, <3>3 DEF Exists
  <2>2. \A v \in Quote : Exists(v) => quote'[v] # NoQuote
    BY <1>3 DEF Exists
  <2>3. \A x \in Payer : paying'[x].step # "idle" => paying'[x].quote \in Quote /\ Exists(paying[x].quote)'
    BY <1>4, <2>2 DEF Exists
  <2>4. \A x \in Payer : requote'[x].step \in {"read", "created"} =>
                            requote'[x].old \in Quote /\ Exists(requote[x].old)'
    BY <1>5, <2>2 DEF Exists
  <2> QED BY <2>1, <2>3, <2>4 DEF QuotesKnown
<1>8. ASSUME NEW r \in Quote PROVE Doomed(r)' \/ OneClaim(r)'
  <2>1. Doomed(r) \/ OneClaim(r)
    BY DEF QuoteInv
  <2>2. RowsStand
    BY <1>3, <1>4 DEF RowsStand
  <2>3. \A x \in Payer : PaidFor(x, r)' => PaidFor(x, r)
    BY <1>1, <1>3, <1>4 DEF PaidFor, QuotesKnown
  <2>4. \A u \in Quote : Current(u, r)' => Current(u, r)
    <3>1. \A u \in Quote : Live(u) => Exists(u)
      BY DEF Live, Exists, NoQuote
    <3> QED BY <1>3, <1>5, <3>1 DEF Current
  <2> QED BY <1>5, <2>1, <2>2, <2>3, <2>4, DoomStays, ClaimStays
<1> QED BY <1>6, <1>7, <1>8 DEF QuoteInv

\* A row is made, at a root of its own or at that of another row.
LEMMA RowMade ==
  ASSUME QuoteInv, NEW n \in Quote, ~ Exists(n), accident \subseteq accident',
         NEW root \in Quote, root = n \/ Exists(root),
         quote' = [quote EXCEPT ![n] = Row("active", FALSE, root, NoQuote)]
  PROVE  /\ quote' \in [Quote -> Rows \cup {NoQuote}]
         /\ Live(n)' /\ Root(n)' = root /\ Exists(n)'
         /\ \A q \in Quote \ {n} : quote'[q] = quote[q]
         /\ \A q \in Quote : /\ Exists(q) => Exists(q)'
                             /\ Exists(q)' => Exists(Root(q))' /\ quote'[q].status # "orphaned"
         /\ RowsStand
<1>1. PICK new : new = Row("active", FALSE, root, NoQuote)
  OBVIOUS
<1>2. new \in Rows /\ new.status = "active" /\ new.root = root /\ new # NoQuote
  BY <1>1 DEF Row, Rows, NoQuote, QuoteStatuses
<1>3. /\ quote' \in [Quote -> Rows \cup {NoQuote}] /\ quote'[n] = new
      /\ \A q \in Quote \ {n} : quote'[q] = quote[q]
  BY <1>1, <1>2 DEF QuoteInv, QuoteTypeOK
<1>4. ASSUME NEW q \in Quote \ {n}, Exists(q)
      PROVE  /\ Root(q) \in Quote /\ Exists(Root(q)) /\ quote[q].status # "orphaned"
             /\ Root(q)' = Root(q) /\ Root(q) # n
  <2>1. quote[q] \in Rows
    BY <1>4 DEF QuoteInv, QuoteTypeOK, Exists
  <2> QED BY <1>3, <1>4, <2>1 DEF QuoteInv, QuotesKnown, Rows, Root
<1> QED BY <1>2, <1>3, <1>4 DEF Live, Exists, Root, RowsStand

LEMMA MakeKeeps ==
  ASSUME QuoteInv, NEW p, NEW n \in Quote, CreateQuote(n) \/ (p \in Payer /\ PayWithOwn(p, n))
  PROVE  QuoteInv'
<1>1. QuoteTypeOK /\ QuotesKnown /\ ~ Exists(n) /\ accident \subseteq accident'
      /\ quote' = [quote EXCEPT ![n] = Row("active", FALSE, n, NoQuote)] /\ UNCHANGED requote
  BY DEF QuoteInv, CreateQuote, PayWithOwn, Fresh
<1>2. /\ quote' \in [Quote -> Rows \cup {NoQuote}]
      /\ Live(n)' /\ Root(n)' = n /\ Exists(n)'
      /\ \A q \in Quote \ {n} : quote'[q] = quote[q]
      /\ \A q \in Quote : /\ Exists(q) => Exists(q)'
                          /\ Exists(q)' => Exists(Root(q))' /\ quote'[q].status # "orphaned"
      /\ RowsStand
  BY <1>1, RowMade
<1>3. /\ paying' \in [Payer -> [step : {"idle", "validated", "paid"}, quote : Quote \cup {NoQuote}]]
      /\ accident' \subseteq Quote
      /\ \A x \in Payer : paying'[x] = paying[x] \/ (paying'[x].quote = n /\ n \in accident')
  <2>1. CASE UNCHANGED <<paying, accident>>
    BY <1>1, <2>1 DEF QuoteTypeOK
  <2>2. CASE p \in Payer /\ PayWithOwn(p, n)
    <3>1. PICK new : new = [step |-> "paid", quote |-> n]
      OBVIOUS
    <3>2. new \in [step : {"idle", "validated", "paid"}, quote : Quote \cup {NoQuote}] /\ new.quote = n
      BY <3>1
    <3>3. paying' = [paying EXCEPT ![p] = new] /\ accident' = accident \cup {n}
      BY <2>2, <3>1 DEF PayWithOwn
    <3> QED BY <1>1, <3>2, <3>3 DEF QuoteTypeOK
  <2> QED BY <2>1, <2>2 DEF CreateQuote
<1>4. QuoteTypeOK'
  BY <1>1, <1>2, <1>3 DEF QuoteTypeOK
<1>5. QuotesKnown'
  <2>1. \A q \in Quote : Exists(q) => quote'[q] # NoQuote
    BY <1>2 DEF Exists
  <2>2. \A x \in Payer : paying'[x].step # "idle" => paying'[x].quote \in Quote /\ Exists(paying[x].quote)'
    BY <1>1, <1>2, <1>3, <2>1, ZenonT(60) DEF QuotesKnown, Exists
  <2>3. \A x \in Payer : requote'[x].step \in {"read", "created"} =>
                            requote'[x].old \in Quote /\ Exists(requote[x].old)'
    BY <1>1, <2>1 DEF QuotesKnown, Exists
  <2> QED BY <1>2, <2>2, <2>3 DEF QuotesKnown
<1>6. \A q \in Quote : Exists(q) => q # n /\ Root(q) # n
  <2>1. ASSUME NEW q \in Quote, Exists(q) PROVE quote[q] \in Rows
    BY <1>1, <2>1 DEF QuoteTypeOK, Exists
  <2> QED BY <1>1, <2>1 DEF QuotesKnown, Root, Rows
<1>7. ASSUME NEW r \in Quote PROVE Doomed(r)' \/ OneClaim(r)'
  <2>1. Doomed(r) \/ OneClaim(r)
    BY DEF QuoteInv
  <2>2. Doomed(r) => Doomed(r)'
    BY <1>1, <1>2, DoomStays DEF Replacing
  <2>3. ASSUME NEW x \in Payer, PaidFor(x, r)', r # n
        PROVE  PaidFor(x, r)
    BY <1>1, <1>2, <1>3, <2>3 DEF PaidFor, QuotesKnown, Root
  <2>4. CASE r # n
    <3>1. \A q \in Quote : Current(q, r)' => Current(q, r)
      BY <1>1, <1>2, <2>4 DEF Current, Live, Root, Replacing
    <3> QED BY <2>1, <2>2, <2>3, <2>4, <3>1, ClaimStays
  <2>5. CASE r = n
    <3>1. \A q \in Quote : Current(q, n)' => q = n
      <4>1. \A q \in Quote \ {n} : Live(q)' => Exists(q) /\ Root(q)' = Root(q)
        BY <1>2 DEF Live, Exists, NoQuote, Root
      <4> QED BY <1>6, <4>1 DEF Current
    <3>2. CASE \A x \in Payer : ~ PaidFor(x, n)'
      BY <2>5, <3>1, <3>2 DEF OneClaim
    <3>3. ASSUME NEW x \in Payer, PaidFor(x, n)' PROVE n \in accident'
      <4>1. CASE paying'[x] = paying[x]
        <5>1. paying[x].quote \in Quote /\ Exists(paying[x].quote)
          BY <1>1, <3>3, <4>1 DEF PaidFor, QuotesKnown
        <5> QED BY <1>2, <1>6, <3>3, <4>1, <5>1 DEF PaidFor, Root
      <4> QED BY <1>3, <4>1
    <3> QED BY <2>5, <3>2, <3>3 DEF Doomed
  <2> QED BY <2>4, <2>5
<1> QED BY <1>4, <1>5, <1>7 DEF QuoteInv

LEMMA RequoteCreateKeeps ==
  ASSUME QuoteInv, NEW p \in Payer, NEW n \in Quote, RequoteCreate(p, n)
  PROVE  QuoteInv'
<1>0. PICK old \in Quote : old = requote[p].old
  BY DEF QuoteInv, QuotesKnown, RequoteCreate
<1>1. QuoteTypeOK /\ QuotesKnown /\ ~ Exists(n) /\ UNCHANGED <<paying, accident>>
      /\ requote[p].step = "read" /\ requote[p].old = old /\ Exists(old)
      /\ quote' = [quote EXCEPT ![n] = Row("active", FALSE, Root(old), NoQuote)]
  BY <1>0 DEF QuoteInv, QuotesKnown, RequoteCreate, Fresh
<1>2. Root(old) \in Quote /\ Exists(Root(old))
  <2>1. quote[old] \in Rows
    BY <1>1 DEF QuoteTypeOK, Exists
  <2> QED BY <1>1, <2>1 DEF QuotesKnown, Rows, Root
<1>3. /\ quote' \in [Quote -> Rows \cup {NoQuote}]
      /\ Live(n)' /\ Root(n)' = Root(old) /\ Exists(n)'
      /\ \A q \in Quote \ {n} : quote'[q] = quote[q]
      /\ \A q \in Quote : /\ Exists(q) => Exists(q)'
                          /\ Exists(q)' => Exists(Root(q))' /\ quote'[q].status # "orphaned"
      /\ RowsStand
  BY <1>1, <1>2, RowMade
<1>4. /\ requote' \in [Payer -> [step : {"idle", "read", "created", "done"},
                                 old : Quote \cup {NoQuote}, new : Quote \cup {NoQuote}]]
      /\ requote'[p].step = "created" /\ requote'[p].old = old
      /\ \A x \in Payer \ {p} : requote'[x] = requote[x]
  <2>1. PICK made : made = [requote[p] EXCEPT !.step = "created", !.new = n]
    OBVIOUS
  <2>2. /\ made \in [step : {"idle", "read", "created", "done"},
                     old : Quote \cup {NoQuote}, new : Quote \cup {NoQuote}]
        /\ made.step = "created" /\ made.old = old
    BY <1>1, <2>1 DEF QuoteTypeOK
  <2> QED BY <1>1, <2>1, <2>2 DEF QuoteTypeOK, RequoteCreate
<1>5. QuoteTypeOK'
  BY <1>1, <1>3, <1>4 DEF QuoteTypeOK
<1>6. QuotesKnown'
  <2>1. \A q \in Quote : Exists(q) => quote'[q] # NoQuote
    BY <1>3 DEF Exists
  <2>2. \A x \in Payer : paying'[x].step # "idle" => paying'[x].quote \in Quote /\ Exists(paying[x].quote)'
    BY <1>1, <2>1 DEF QuotesKnown, Exists
  <2>3. \A x \in Payer : requote'[x].step \in {"read", "created"} =>
                            requote'[x].old \in Quote /\ Exists(requote[x].old)'
    BY <1>1, <1>4, <2>1, ZenonT(60) DEF QuotesKnown, Exists
  <2> QED BY <1>3, <2>2, <2>3 DEF QuotesKnown
<1>7. ASSUME NEW r \in Quote PROVE Doomed(r)' \/ OneClaim(r)'
  <2>1. Doomed(r) \/ OneClaim(r)
    BY DEF QuoteInv
  <2>2. \A x \in Payer, q \in Quote : Replacing(x, q)' <=> Replacing(x, q) \/ (x = p /\ q = old)
    BY <1>1, <1>4 DEF Replacing
  <2>3. Doomed(r) => Doomed(r)'
    BY <1>3, <2>2, DoomStays
  <2>4. \A x \in Payer : PaidFor(x, r)' => PaidFor(x, r)
    BY <1>1, <1>3 DEF PaidFor, QuotesKnown, Root, RowsStand
  <2>5. \A q \in Quote : Current(q, r)' => Current(q, r) \/ (q = n /\ r = Root(old))
    BY <1>1, <1>3, <2>2 DEF Current, Live, Root
  <2>6. CASE r # Root(old)
    BY <2>1, <2>3, <2>4, <2>5, <2>6, ClaimStays
  <2>7. CASE r = Root(old)
    <3>1. ~ Live(old) => Doomed(r)'
      <4>1. Replacing(p, old)' /\ Root(old)' = r /\ (~ Live(old) => ~ Live(old)')
        BY <1>1, <1>3, <2>2, <2>7 DEF RowsStand
      <4> QED BY <1>1, <4>1 DEF Doomed
    <3>2. ASSUME NEW x \in Payer, Replacing(x, old) PROVE Doomed(r)'
      <4>1. x # p /\ Replacing(p, old)' /\ Replacing(x, old)' /\ Root(old)' = r
        BY <1>1, <1>3, <2>2, <2>7, <3>2 DEF RowsStand, Replacing
      <4> QED BY <1>1, <4>1 DEF Doomed
    <3>3. CASE Current(old, r) /\ OneClaim(r)
      <4>1. \A x \in Payer : ~ PaidFor(x, r)'
        BY <1>1, <2>4, <3>3 DEF OneClaim
      <4>2. \A q \in Quote : Current(q, r)' => q = n
        BY <1>1, <2>2, <2>5, <3>3 DEF OneClaim, Current
      <4> QED BY <4>1, <4>2 DEF OneClaim
    <3> QED BY <2>1, <2>3, <2>7, <3>1, <3>2, <3>3 DEF Current
  <2> QED BY <2>6, <2>7
<1> QED BY <1>5, <1>6, <1>7 DEF QuoteInv

\* A row is used up.
LEMMA RowGone ==
  ASSUME QuoteInv, NEW q \in Quote, Exists(q), accident \subseteq accident',
         NEW new \in Rows, new.root = Root(q), new.status \in {"consumed", "replaced"},
         quote' = [quote EXCEPT ![q] = new]
  PROVE  /\ quote' \in [Quote -> Rows \cup {NoQuote}]
         /\ ~ Live(q)'
         /\ \A u \in Quote : Exists(u)' <=> Exists(u)
         /\ \A u \in Quote : Root(u)' = Root(u)
         /\ \A u \in Quote \ {q} : Live(u)' <=> Live(u)
         /\ \A u \in Quote : Exists(u)' => Exists(Root(u))' /\ quote'[u].status # "orphaned"
         /\ RowsStand
<1>1. /\ quote' \in [Quote -> Rows \cup {NoQuote}] /\ quote'[q] = new /\ new # NoQuote
      /\ \A u \in Quote \ {q} : quote'[u] = quote[u]
  BY DEF QuoteInv, QuoteTypeOK, NoQuote, Rows
<1>2. ~ Live(q)' /\ \A u \in Quote : (Exists(u)' <=> Exists(u)) /\ Root(u)' = Root(u)
  BY <1>1 DEF Live, Exists, Root
<1>3. \A u \in Quote \ {q} : Live(u)' <=> Live(u)
  BY <1>1 DEF Live
<1>4. ASSUME NEW u \in Quote, Exists(u) PROVE Exists(Root(u))' /\ quote'[u].status # "orphaned"
  <2>1. quote[u] \in Rows
    BY <1>4 DEF QuoteInv, QuoteTypeOK, Exists
  <2>2. Root(u) \in Quote /\ Exists(Root(u)) /\ quote[u].status # "orphaned"
    BY <1>4, <2>1 DEF QuoteInv, QuotesKnown, Rows, Root
  <2>3. Exists(Root(u))'
    BY <1>1, <1>2, <2>2 DEF Exists
  <2> QED BY <1>1, <2>2, <2>3
<1> QED BY <1>1, <1>2, <1>3, <1>4 DEF RowsStand

LEMMA ConsumeKeeps ==
  ASSUME QuoteInv, NEW p \in Payer, Consume(p)
  PROVE  QuoteInv'
<1>0. PICK q \in Quote : q = paying[p].quote
  BY DEF QuoteInv, QuotesKnown, Consume
<1>1. QuoteTypeOK /\ QuotesKnown /\ Exists(q) /\ paying[p].step = "validated" /\ UNCHANGED requote
  BY <1>0 DEF QuoteInv, QuotesKnown, Consume
<1>2. quote[q] \in Rows /\ Root(q) \in Quote
  BY <1>1 DEF QuoteTypeOK, Exists, Rows, Root
<1>3. /\ accident' \subseteq Quote /\ accident \subseteq accident'
      /\ quote[q].status \in {"consumed", "replaced"} => Root(q) \in accident'
      /\ quote[q].status \in {"consumed", "replaced"} \/ Live(q)
  BY <1>0, <1>1, <1>2 DEF Consume, QuoteTypeOK, QuotesKnown, Live, Rows, QuoteStatuses
<1>4. /\ quote' \in [Quote -> Rows \cup {NoQuote}]
      /\ ~ Live(q)'
      /\ \A u \in Quote : Exists(u)' <=> Exists(u)
      /\ \A u \in Quote : Root(u)' = Root(u)
      /\ \A u \in Quote \ {q} : Live(u)' <=> Live(u)
      /\ \A u \in Quote : Exists(u)' => Exists(Root(u))' /\ quote'[u].status # "orphaned"
      /\ RowsStand
  <2>1. PICK new : new = [quote[q] EXCEPT !.status = "consumed"]
    OBVIOUS
  <2>2. new \in Rows /\ new.root = Root(q) /\ new.status = "consumed"
    BY <1>2, <2>1 DEF Rows, Root, QuoteStatuses
  <2>3. quote' = [quote EXCEPT ![q] = new]
    BY <1>0, <2>1 DEF Consume
  <2> QED BY <1>1, <1>3, <2>2, <2>3, RowGone
<1>5. /\ paying' \in [Payer -> [step : {"idle", "validated", "paid"}, quote : Quote \cup {NoQuote}]]
      /\ paying'[p].quote = q /\ \A x \in Payer \ {p} : paying'[x] = paying[x]
  <2>1. PICK new : new = [paying[p] EXCEPT !.step = "paid"]
    OBVIOUS
  <2>2. new \in [step : {"idle", "validated", "paid"}, quote : Quote \cup {NoQuote}] /\ new.quote = q
    BY <1>0, <1>1, <2>1 DEF QuoteTypeOK
  <2> QED BY <1>1, <2>1, <2>2 DEF QuoteTypeOK, Consume
<1>6. QuoteTypeOK'
  BY <1>1, <1>3, <1>4, <1>5 DEF QuoteTypeOK
<1>7. QuotesKnown'
  <2>1. \A u \in Quote : Exists(u) => quote'[u] # NoQuote
    BY <1>4 DEF Exists
  <2>2. \A x \in Payer : paying'[x].step # "idle" => paying'[x].quote \in Quote /\ Exists(paying[x].quote)'
    BY <1>1, <1>5, <2>1 DEF QuotesKnown, Exists
  <2>3. \A x \in Payer : requote'[x].step \in {"read", "created"} =>
                            requote'[x].old \in Quote /\ Exists(requote[x].old)'
    BY <1>1, <2>1 DEF QuotesKnown, Exists
  <2> QED BY <1>4, <2>2, <2>3 DEF QuotesKnown
<1>8. ASSUME NEW r \in Quote PROVE Doomed(r)' \/ OneClaim(r)'
  <2>1. Doomed(r) \/ OneClaim(r)
    BY DEF QuoteInv
  <2>2. \A x \in Payer, u \in Quote : Replacing(x, u)' <=> Replacing(x, u)
    BY <1>1 DEF Replacing
  <2>3. Doomed(r) => Doomed(r)'
    BY <1>4, <2>2, DoomStays
  <2>4. \A x \in Payer : PaidFor(x, r)' => PaidFor(x, r) \/ (x = p /\ r = Root(q))
    BY <1>1, <1>4, <1>5 DEF PaidFor, QuotesKnown, Root
  <2>5. \A u \in Quote : Current(u, r)' => Current(u, r) /\ u # q
    BY <1>4, <2>2 DEF Current
  <2>6. CASE r # Root(q)
    BY <2>1, <2>3, <2>4, <2>5, <2>6, ClaimStays
  <2>7. CASE r = Root(q)
    <3>1. ~ Live(q) => Doomed(r)'
      BY <1>3, <2>7 DEF Doomed
    <3>2. ASSUME NEW x \in Payer, Replacing(x, q) PROVE Doomed(r)'
      BY <1>4, <2>2, <2>7, <3>2 DEF Doomed
    <3>3. CASE Current(q, r) /\ OneClaim(r)
      <4>1. \A x \in Payer : PaidFor(x, r)' => x = p
        BY <2>4, <3>3 DEF OneClaim
      <4>2. \A u \in Quote : ~ Current(u, r)'
        BY <2>5, <3>3 DEF OneClaim
      <4> QED BY <4>1, <4>2 DEF OneClaim
    <3> QED BY <2>1, <2>3, <2>7, <3>1, <3>2, <3>3 DEF Current
  <2> QED BY <2>6, <2>7
<1> QED BY <1>6, <1>7, <1>8 DEF QuoteInv

LEMMA RequoteEndKeeps ==
  ASSUME QuoteInv, NEW p \in Payer, RequoteMark(p) \/ RequoteDies(p)
  PROVE  QuoteInv'
<1>0. PICK old \in Quote : old = requote[p].old
  BY DEF QuoteInv, QuotesKnown, RequoteMark, RequoteDies
<1>1. QuoteTypeOK /\ QuotesKnown /\ Exists(old) /\ requote[p].step = "created" /\ UNCHANGED paying
  BY <1>0 DEF QuoteInv, QuotesKnown, RequoteMark, RequoteDies
<1>2. quote[old] \in Rows /\ Root(old) \in Quote
  BY <1>1 DEF QuoteTypeOK, Exists, Rows, Root
<1>3. /\ requote' \in [Payer -> [step : {"idle", "read", "created", "done"},
                                 old : Quote \cup {NoQuote}, new : Quote \cup {NoQuote}]]
      /\ requote'[p].step = "done" /\ \A x \in Payer \ {p} : requote'[x] = requote[x]
  <2>1. PICK done : done = [requote[p] EXCEPT !.step = "done"]
    OBVIOUS
  <2>2. done \in [step : {"idle", "read", "created", "done"},
                  old : Quote \cup {NoQuote}, new : Quote \cup {NoQuote}] /\ done.step = "done"
    BY <2>1 DEF QuoteInv, QuoteTypeOK
  <2> QED BY <2>1, <2>2 DEF RequoteMark, RequoteDies, QuoteInv, QuoteTypeOK
<1>4. /\ \/ Live(old) /\ ~ Live(old)' /\ accident' = accident
         \/ Root(old) \in accident'
      /\ quote' \in [Quote -> Rows \cup {NoQuote}]
      /\ \A u \in Quote : Exists(u)' <=> Exists(u)
      /\ \A u \in Quote : Root(u)' = Root(u)
      /\ \A u \in Quote \ {old} : Live(u)' <=> Live(u)
      /\ \A u \in Quote : Exists(u)' => Exists(Root(u))' /\ quote'[u].status # "orphaned"
      /\ RowsStand /\ accident' \subseteq Quote
  <2>1. CASE Live(old) /\ RequoteMark(p)
    <3>1. PICK new : new = [quote[old] EXCEPT !.status = "replaced", !.next = requote[p].new]
      OBVIOUS
    <3>2. new \in Rows /\ new.root = Root(old) /\ new.status = "replaced"
      BY <1>1, <1>2, <3>1 DEF Rows, Root, QuoteStatuses, QuoteTypeOK
    <3>3. quote' = [quote EXCEPT ![old] = new] /\ accident' = accident
      BY <1>0, <2>1, <3>1 DEF RequoteMark, Live
    <3> QED BY <1>1, <2>1, <3>2, <3>3, RowGone DEF QuoteTypeOK
  <2>2. CASE quote' = quote /\ accident' = accident \cup {Root(old)}
    <3>1. \A u \in Quote : Exists(u)' => Exists(Root(u))' /\ quote'[u].status # "orphaned"
      BY <1>1, <2>2 DEF QuotesKnown, Exists, Root
    <3> QED BY <1>1, <1>2, <2>2, <3>1 DEF QuoteTypeOK, Live, Exists, Root, RowsStand
  <2> QED BY <1>0, <2>1, <2>2 DEF RequoteMark, RequoteDies, Live
<1>5. QuoteTypeOK'
  BY <1>1, <1>3, <1>4 DEF QuoteTypeOK
<1>6. QuotesKnown'
  <2>1. \A u \in Quote : Exists(u) => quote'[u] # NoQuote
    BY <1>4 DEF Exists
  <2>2. \A x \in Payer : paying'[x].step # "idle" => paying'[x].quote \in Quote /\ Exists(paying[x].quote)'
    BY <1>1, <2>1 DEF QuotesKnown, Exists
  <2>3. \A x \in Payer : requote'[x].step \in {"read", "created"} =>
                            requote'[x].old \in Quote /\ Exists(requote[x].old)'
    BY <1>1, <1>3, <2>1 DEF QuotesKnown, Exists
  <2> QED BY <1>4, <2>2, <2>3 DEF QuotesKnown
<1>7. ASSUME NEW r \in Quote PROVE Doomed(r)' \/ OneClaim(r)'
  <2>1. Doomed(r) \/ OneClaim(r)
    BY DEF QuoteInv
  <2>2. \A x \in Payer, u \in Quote : Replacing(x, u)' <=> Replacing(x, u) /\ x # p
    BY <1>3 DEF Replacing
  <2>3. \A u \in Quote : Replacing(p, u) => u = old
    BY <1>0 DEF Replacing
  <2>4. CASE r = Root(old) /\ r \in accident'
    BY <2>4 DEF Doomed
  <2>5. CASE r # Root(old) \/ (Live(old) /\ ~ Live(old)' /\ accident' = accident)
    <3>1. \A x \in Payer : PaidFor(x, r)' => PaidFor(x, r)
      BY <1>1, <1>4 DEF PaidFor, QuotesKnown, Root
    <3>2. ASSUME NEW u \in Quote, Current(u, r)' PROVE Current(u, r)
      <4>1. Live(u)' /\ Root(u)' = r
        BY <3>2 DEF Current
      <4>2. u # old /\ Root(u) = r
        BY <1>4, <2>5, <4>1
      <4>3. Live(u)
        BY <1>4, <4>1, <4>2
      <4>4. ASSUME NEW x \in Payer PROVE ~ Replacing(x, u)
        <5>1. ~ Replacing(x, u)'
          BY <3>2 DEF Current
        <5> QED BY <2>2, <2>3, <4>2, <5>1
      <4> QED BY <4>2, <4>3, <4>4 DEF Current
    <3>3. ASSUME NEW x \in Payer, NEW u \in Quote, Replacing(x, u), Root(u) = r, ~ Live(u)
          PROVE  Doomed(r)'
      <4>1. x # p /\ u # old
        BY <2>3, <2>5, <3>3
      <4>2. Replacing(x, u)' /\ Root(u)' = r /\ ~ Live(u)'
        BY <1>4, <2>2, <3>3, <4>1
      <4> QED BY <4>2 DEF Doomed
    <3>4. ASSUME NEW x \in Payer, NEW y \in Payer, NEW u \in Quote, x # y, Replacing(x, u),
                 Replacing(y, u), Root(u) = r
          PROVE  Doomed(r)'
      <4>1. CASE x # p /\ y # p
        BY <1>4, <2>2, <3>4, <4>1 DEF Doomed
      <4>2. PICK z \in Payer : z # p /\ Replacing(z, u)
        BY <3>4
      <4>3. CASE x = p \/ y = p
        <5>1. u = old /\ ~ Live(u)'
          BY <2>3, <2>5, <3>4, <4>3
        <5>2. Replacing(z, u)' /\ Root(u)' = r
          BY <1>4, <2>2, <3>4, <4>2
        <5> QED BY <5>1, <5>2 DEF Doomed
      <4> QED BY <4>1, <4>3
    <3>5. Doomed(r) => Doomed(r)'
      BY <1>4, <3>3, <3>4 DEF Doomed, RowsStand
    <3> QED BY <2>1, <3>1, <3>2, <3>5, ClaimStays
  <2> QED BY <1>4, <2>4, <2>5
<1> QED BY <1>5, <1>6, <1>7 DEF QuoteInv

LEMMA InitQuoteInv == QuoteInit => QuoteInv
BY DEF QuoteInit, QuoteInv, QuoteTypeOK, QuotesKnown, Exists, NoQuote, Doomed, OneClaim, PaidFor, Current, Live

LEMMA NextQuoteInv == QuoteInv /\ [QuoteNext]_quoteVars => QuoteInv'
<1>1. ASSUME QuoteInv, UNCHANGED quoteVars PROVE QuoteInv'
  BY <1>1 DEF quoteVars, QuoteInv, QuoteTypeOK, QuotesKnown, Exists, Root, Doomed, OneClaim, PaidFor, Current,
              Live, Replacing
<1>2. ASSUME QuoteInv, NEW q \in Quote, CreateQuote(q) \/ Lapse(q) \/ ReconcileQuotes
      PROVE  QuoteInv'
  BY <1>2, QuietKeeps, MakeKeeps
<1>3. ASSUME QuoteInv, NEW p \in Payer, NEW q \in Quote,
             Validate(p, q) \/ PayWithOwn(p, q) \/ RequoteRead(p, q) \/ RequoteCreate(p, q)
      PROVE  QuoteInv'
  BY <1>3, QuietKeeps, MakeKeeps, RequoteCreateKeeps
<1>4. ASSUME QuoteInv, NEW p \in Payer, Consume(p) \/ RollBack(p) \/ RequoteMark(p) \/ RequoteDies(p)
      PROVE  QuoteInv'
  <2>1. CASE RollBack(p)
    <3>1. paying[p].quote \in Quote
      BY <1>4, <2>1 DEF RollBack, QuoteInv, QuotesKnown
    <3> QED BY <1>4, <2>1, <3>1, QuietKeeps
  <2> QED BY <1>4, <2>1, ConsumeKeeps, RequoteEndKeeps
<1>5. ReconcileQuotes => \E q \in Quote : ReconcileQuotes
  BY DEF ReconcileQuotes
<1> QED BY <1>1, <1>2, <1>3, <1>4, <1>5 DEF QuoteNext

\* Of the payments for one request, two go through only after a known accident
\* of that request, or while a requote of it is between its two statements.
THEOREM SpecRequestPaidOnce == QuoteSpec => []RequestPaidOnce
<1>1. QuoteInv => RequestPaidOnce
  <2> SUFFICES ASSUME QuoteInv, NEW p \in Payer, NEW s \in Payer, p # s,
                      paying[p].step = "paid", paying[s].step = "paid",
                      Root(paying[p].quote) = Root(paying[s].quote)
               PROVE  \/ Root(paying[p].quote) \in accident
                      \/ \E x \in Payer : /\ requote[x].step = "created"
                                          /\ Root(requote[x].old) = Root(paying[p].quote)
    BY DEF RequestPaidOnce
  <2>1. paying[p].quote \in Quote /\ Exists(paying[p].quote)
    BY DEF QuoteInv, QuotesKnown
  <2>2. Root(paying[p].quote) \in Quote
    BY <2>1 DEF QuoteInv, QuoteTypeOK, Exists, Root, Rows
  <2>3. Doomed(Root(paying[p].quote))
    BY <2>2 DEF QuoteInv, OneClaim, PaidFor
  <2> QED BY <2>3 DEF Doomed, Replacing
<1> QED BY <1>1, InitQuoteInv, NextQuoteInv, PTL DEF QuoteSpec

=============================================================================
