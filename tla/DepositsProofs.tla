--------------------------- MODULE DepositsProofs ---------------------------
(***************************************************************************)
(* For any number of sweeps, payments and faults, and any size of a page:  *)
(* a deposit that the cursor has passed is recorded, unless a first poll   *)
(* put the cursor above it; one call posts the notification of the wallet; *)
(* and a deposit called delivered that nobody posted an alert of is one    *)
(* whose notification was used up.                                         *)
(***************************************************************************)
EXTENDS Deposits, TLAPS

DataTypeOK ==
  /\ ledger \in Token
  /\ cursor \in Token
  /\ starts \subseteq Token
  /\ deposit \in [Inbound -> [status : {"none", "pending", "delivered", "dead_letter"},
                              attempts : Nat]]

\* Up to this token all deposits are recorded that no first poll began after.
Covered(c) ==
  \A t \in Inbound :
    t <= c /\ (\A start \in starts : start < t) => deposit[t].status # "none"

\* Where a sweep is on its page, everything before it is covered; and what it
\* records or tells of is a deposit.
PageCovered(p) ==
  /\ p.step = "paging" => Covered(p.from)
  /\ p.step = "recording" => Covered(p.token - 1)
  /\ p.step = "checking" => Covered(p.token)
  /\ p.step \in AlertSteps /\ p.list = Nothing => Covered(p.token)
  /\ p.step \in {"comparing", "advancing"} => Covered(p.last)
  /\ p.step \in {"recording", "checking"} \cup AlertSteps => p.token \in Inbound

IInv ==
  /\ DataTypeOK
  /\ poll \in [Sweeper -> Polling]
  /\ Covered(cursor)
  /\ \A s \in Sweeper : PageCovered(poll[s])

\* No record goes away and no start is forgotten.
Grows ==
  /\ \A t \in Inbound : deposit[t].status # "none" => deposit'[t].status # "none"
  /\ starts \subseteq starts'
-----------------------------------------------------------------------------
LEMMA Tokens == Inbound \subseteq Token /\ Token \subseteq Int /\ 0 \in Token
BY DepositsAssumption DEF Token

LEMMA IdleType == Idle \in Polling /\ Idle.step = "idle" /\ Idle.list = Nothing
<1>1. Nothing \in Lists
  BY DEF Nothing, Lists
<1> QED BY <1>1, Tokens DEF Idle, Polling

LEMMA StaysCovered ==
  ASSUME Grows, NEW p, PageCovered(p)
  PROVE  PageCovered(p)'
BY DEF Grows, Covered, PageCovered

\* What is left to show of a step of one sweep.
LEMMA SweepKeepsIInv ==
  ASSUME IInv, Grows, DataTypeOK', Covered(cursor)',
         NEW s \in Sweeper, NEW p \in Polling, Become(s, p), PageCovered(p)'
  PROVE  IInv'
<1>1. /\ poll' \in [Sweeper -> Polling]
      /\ poll'[s] = p
      /\ \A r \in Sweeper \ {s} : poll'[r] = poll[r]
  BY DEF IInv, Become
<1>2. ASSUME NEW r \in Sweeper \ {s} PROVE PageCovered(poll[r])'
  <2>1. PICK q : q = poll[r]
    OBVIOUS
  <2>2. PageCovered(q)'
    BY <2>1, StaysCovered DEF IInv
  <2> QED BY <1>1, <2>1, <2>2 DEF PageCovered
<1>3. PageCovered(poll[s])'
  BY <1>1 DEF PageCovered
<1> QED BY <1>1, <1>2, <1>3 DEF IInv

\* A step that changes nothing but what the sweep is doing.
LEMMA SweepMoves ==
  ASSUME IInv, UNCHANGED <<ledger, cursor, starts, deposit>>,
         NEW s \in Sweeper, NEW p \in Polling, Become(s, p), PageCovered(p)
  PROVE  IInv'
<1>1. Grows
  BY DEF Grows
<1>2. DataTypeOK' /\ Covered(cursor)'
  BY DEF IInv, DataTypeOK, Covered
<1> QED BY <1>1, <1>2, StaysCovered, SweepKeepsIInv

\* On the way to the next deposit no deposit is passed.
LEMMA NextDepositCovered ==
  ASSUME NEW s \in Sweeper, NEW state \in Polling, NEW after \in Int,
         Covered(after)', ToNextDeposit(s, state, after)
  PROVE  \E p \in Polling : Become(s, p) /\ PageCovered(p)'
<1>1. ASSUME NEW t \in Inbound, after < t, \A u \in Inbound : after < u => t <= u,
             Become(s, [state EXCEPT !.step = "recording", !.token = t])
      PROVE  \E p \in Polling : Become(s, p) /\ PageCovered(p)'
  <2>1. PICK p : p = [state EXCEPT !.step = "recording", !.token = t]
    OBVIOUS
  <2>2. p \in Polling /\ p.step = "recording" /\ p.token = t
    BY <2>1, Tokens DEF Polling, PollSteps
  <2>3. Covered(t - 1)'
    BY <1>1, Tokens DEF Covered
  <2> QED BY <1>1, <2>1, <2>2, <2>3 DEF PageCovered, AlertSteps
<1>2. ASSUME \A t \in Inbound : after < t => t > state.last,
             NEW step \in {"advancing", "comparing"},
             Become(s, [state EXCEPT !.step = step])
      PROVE  \E p \in Polling : Become(s, p) /\ PageCovered(p)'
  <2>1. PICK p : p = [state EXCEPT !.step = step]
    OBVIOUS
  <2>2. p \in Polling /\ p.step = step /\ p.last = state.last
    BY <2>1 DEF Polling, PollSteps
  <2>3. Covered(state.last)'
    BY <1>2, Tokens DEF Covered, Polling
  <2> QED BY <1>2, <2>1, <2>2, <2>3 DEF PageCovered, AlertSteps
<1>3. CASE \E t \in Inbound :
             /\ after < t /\ t <= state.last
             /\ \A u \in Inbound : after < u => t <= u
             /\ Become(s, [state EXCEPT !.step = "recording", !.token = t])
  BY <1>1, <1>3
<1>4. CASE /\ \A t \in Inbound : after < t => t > state.last
           /\ Become(s, [state EXCEPT !.step = IF after = state.from THEN "advancing" ELSE "comparing"])
  <2>1. PICK step \in {"advancing", "comparing"} :
          step = IF after = state.from THEN "advancing" ELSE "comparing"
    OBVIOUS
  <2> QED BY <1>2, <1>4, <2>1
<1> QED BY <1>3, <1>4 DEF ToNextDeposit

\* A sweep that goes to a step where nothing has to be covered, or to one
\* where what was covered before will do.
LEMMA GoIInv ==
  ASSUME IInv, UNCHANGED <<ledger, cursor, starts, deposit>>,
         NEW s \in Sweeper, NEW step, Go(s, step),
         \/ step \in {"listing", "idle", "retrying", "starting", "writing"}
         \/ step = "advancing" /\ At(s, "comparing")
         \/ step \in AlertSteps /\ poll[s].step \in AlertSteps \cup {"checking"}
  PROVE  IInv'
<1>1. PICK p : p = [poll[s] EXCEPT !.step = step]
  OBVIOUS
<1>2. poll[s] \in Polling /\ PageCovered(poll[s])
  BY DEF IInv
<1>3. /\ p \in Polling /\ p.step = step /\ p.token = poll[s].token
      /\ p.last = poll[s].last /\ p.list = poll[s].list
  BY <1>1, <1>2 DEF Polling, PollSteps, AlertSteps
<1>4. PageCovered(p)
  BY <1>2, <1>3 DEF PageCovered, AlertSteps, At
<1> QED BY <1>1, <1>3, <1>4, SweepMoves DEF Go

LEMMA NextPageIInv ==
  ASSUME IInv, Grows, DataTypeOK', Covered(cursor)',
         NEW s \in Sweeper, ToNextPage(s), Covered(poll[s].last)
  PROVE  IInv'
<1>1. PICK last : last = poll[s].last
  OBVIOUS
<1>2. PICK p : p = [poll[s] EXCEPT
        !.step = IF poll[s].last - poll[s].from >= PageSize THEN "paging" ELSE "listing",
        !.from = poll[s].last]
  OBVIOUS
<1>3. p \in Polling /\ p.step \in {"paging", "listing"} /\ p.from = last
  BY <1>1, <1>2 DEF IInv, Polling, PollSteps
<1>4. Covered(last)'
  BY <1>1 DEF Grows, Covered
<1>5. PageCovered(p)'
  BY <1>3, <1>4 DEF PageCovered, AlertSteps
<1> QED BY <1>2, <1>3, <1>5, SweepKeepsIInv DEF ToNextPage
-----------------------------------------------------------------------------
\* The steps of a sweep on the wallet and on its page.
LEMMA PollIInv ==
  ASSUME IInv, NEW s \in Sweeper,
         \/ StartSweep(s) \/ FetchLatest(s) \/ WriteStart(s) \/ FetchPage(s)
         \/ Record(s) \/ CheckDelivered(s) \/ CompareCursor(s) \/ Advance(s)
  PROVE  IInv'
<1>0. poll[s] \in Polling /\ PageCovered(poll[s]) /\ DataTypeOK /\ Covered(cursor)
  BY DEF IInv
<1>1. CASE StartSweep(s)
  <2>1. PICK p : p = [Idle EXCEPT !.step = IF cursor = 0 THEN "starting" ELSE "paging",
                                  !.from = cursor]
    OBVIOUS
  <2>2. p \in Polling /\ p.step \in {"starting", "paging"} /\ p.from = cursor
    BY <1>0, <2>1, IdleType DEF Polling, PollSteps, DataTypeOK, Idle
  <2>3. PageCovered(p)
    BY <1>0, <2>2 DEF PageCovered, AlertSteps
  <2> QED BY <1>1, <2>1, <2>2, <2>3, SweepMoves DEF StartSweep
<1>2. CASE FetchLatest(s)
  <2>1. ASSUME NEW t \in Token, Become(s, [poll[s] EXCEPT !.step = "writing", !.token = t])
        PROVE  IInv'
    <3>1. PICK p : p = [poll[s] EXCEPT !.step = "writing", !.token = t]
      OBVIOUS
    <3>2. p \in Polling /\ p.step = "writing"
      BY <1>0, <3>1 DEF Polling, PollSteps
    <3>3. PageCovered(p)
      BY <3>2 DEF PageCovered, AlertSteps
    <3> QED BY <1>2, <2>1, <3>1, <3>2, <3>3, SweepMoves DEF FetchLatest
  <2>2. ledger \in Token /\ PageEnd(0) \in Token
    BY <1>0, DepositsAssumption DEF PageEnd, DataTypeOK, Token
  <2>3. CASE Go(s, "listing")
    BY <1>2, <2>3, GoIInv DEF FetchLatest
  <2> QED BY <1>2, <2>1, <2>2, <2>3 DEF FetchLatest
<1>3. CASE WriteStart(s)
  <2>1. PICK p : p = [poll[s] EXCEPT !.step = "listing"]
    OBVIOUS
  <2>2. p \in Polling /\ p.step = "listing"
    BY <1>0, <2>1 DEF Polling
  <2>3. Grows /\ DataTypeOK'
    BY <1>0, <1>3 DEF WriteStart, Grows, DataTypeOK, Polling
  <2>4. Covered(cursor)'
    <3>1. poll[s].token \in Int /\ cursor' = poll[s].token /\ poll[s].token \in starts'
      BY <1>0, <1>3, Tokens DEF WriteStart, Polling
    <3> QED BY <3>1, Tokens DEF Covered
  <2>5. PageCovered(p)'
    BY <2>2 DEF PageCovered, AlertSteps
  <2> QED BY <1>3, <2>1, <2>2, <2>3, <2>4, <2>5, SweepKeepsIInv DEF WriteStart, Go
<1>4. CASE FetchPage(s)
  <2>1. CASE Go(s, "listing")
    BY <1>4, <2>1, GoIInv DEF FetchPage
  <2>2. CASE ~ Go(s, "listing")
    <3>1. PICK state : state = [poll[s] EXCEPT !.last = PageEnd(poll[s].from)]
      OBVIOUS
    <3>2. PICK from : from = poll[s].from
      OBVIOUS
    <3>3. PageEnd(from) \in Token
      BY <1>0, <3>2, <2>2, <1>4, DepositsAssumption DEF PageEnd, DataTypeOK, Token, Polling, FetchPage
    <3>4. state \in Polling /\ from \in Int
      BY <1>0, <3>1, <3>2, <3>3, Tokens DEF Polling
    <3>5. UNCHANGED <<ledger, cursor, starts, deposit>> /\ ToNextDeposit(s, state, from)
      BY <1>4, <2>2, <3>1, <3>2 DEF FetchPage
    <3>6. Grows /\ Covered(from)' /\ Covered(cursor)' /\ DataTypeOK'
      BY <1>0, <1>4, <3>2, <3>5 DEF Grows, Covered, DataTypeOK, PageCovered, FetchPage, At
    <3> QED BY <3>4, <3>5, <3>6, NextDepositCovered, SweepKeepsIInv
  <2> QED BY <2>1, <2>2
<1>5. CASE Record(s)
  <2>1. PICK t \in Inbound : t = poll[s].token
    BY <1>0, <1>5 DEF Record, At, PageCovered
  <2>2. PICK p : p = [poll[s] EXCEPT !.step = "checking"]
    OBVIOUS
  <2>3. p \in Polling /\ p.step = "checking" /\ p.token = t
    BY <1>0, <2>1, <2>2 DEF Polling, PollSteps
  <2>4. /\ cursor' = t /\ starts' = starts /\ ledger' = ledger
        /\ deposit' = [deposit EXCEPT ![t].status = IF @ = "none" THEN "pending" ELSE @]
    BY <1>5, <2>1 DEF Record
  <2>5. DataTypeOK' /\ Grows
    BY <1>0, <2>4, Tokens DEF DataTypeOK, Grows
  <2>6. deposit'[t].status # "none" /\ Covered(t - 1)
    BY <1>0, <1>5, <2>1, <2>4 DEF DataTypeOK, Record, At, PageCovered
  <2>7. Covered(t)'
    BY <2>4, <2>5, <2>6, Tokens DEF Covered, Grows
  <2>8. Covered(cursor)' /\ PageCovered(p)'
    BY <2>3, <2>4, <2>7 DEF Covered, PageCovered, AlertSteps
  <2> QED BY <1>5, <2>2, <2>3, <2>5, <2>8, SweepKeepsIInv DEF Record, Go
<1>6. CASE CheckDelivered(s)
  <2>1. CASE Alert(s, poll[s])
    BY <1>6, <2>1, GoIInv DEF CheckDelivered, Alert, Go, At, AlertSteps
  <2>2. CASE ToNextDeposit(s, poll[s], poll[s].token)
    <3>1. PICK state : state = poll[s]
      OBVIOUS
    <3>2. state \in Polling /\ state.token \in Int /\ ToNextDeposit(s, state, state.token)
      BY <1>0, <2>2, <3>1, Tokens DEF Polling
    <3>3. Grows /\ Covered(state.token)' /\ Covered(cursor)' /\ DataTypeOK'
      BY <1>0, <1>6, <3>1 DEF Grows, Covered, DataTypeOK, PageCovered, CheckDelivered, At
    <3> QED BY <3>2, <3>3, NextDepositCovered, SweepKeepsIInv
  <2> QED BY <1>6, <2>1, <2>2 DEF CheckDelivered
<1>7. CASE CompareCursor(s)
  <2>1. Covered(poll[s].last) /\ UNCHANGED <<ledger, cursor, starts, deposit>>
    BY <1>0, <1>7 DEF CompareCursor, PageCovered, At
  <2>2. Grows /\ Covered(cursor)' /\ DataTypeOK'
    BY <1>0, <2>1 DEF Grows, Covered, DataTypeOK
  <2> QED BY <1>7, <2>1, <2>2, NextPageIInv, GoIInv DEF CompareCursor
<1>8. CASE Advance(s)
  <2>1. /\ Covered(poll[s].last) /\ cursor' = poll[s].last
        /\ UNCHANGED <<ledger, starts, deposit>> /\ ToNextPage(s)
    BY <1>0, <1>8 DEF Advance, PageCovered, At
  <2>2. Grows /\ Covered(cursor)' /\ DataTypeOK'
    BY <1>0, <2>1 DEF Grows, Covered, DataTypeOK, Polling
  <2> QED BY <2>1, <2>2, NextPageIInv
<1> QED BY <1>1, <1>2, <1>3, <1>4, <1>5, <1>6, <1>7, <1>8
-----------------------------------------------------------------------------
\* The sweep has written the outcome of an alert.
LEMMA ToNextIInv ==
  ASSUME IInv, UNCHANGED <<ledger, cursor, starts>>,
         NEW s \in Sweeper, poll[s].step \in AlertSteps, ToNext(s),
         NEW row \in [status : {"pending", "delivered", "dead_letter"}, attempts : Nat],
         deposit' = [deposit EXCEPT ![poll[s].token] = row] \/ deposit' = deposit
  PROVE  IInv'
<1>1. /\ poll[s] \in Polling /\ PageCovered(poll[s]) /\ DataTypeOK /\ Covered(cursor)
      /\ poll[s].token \in Inbound
  BY DEF IInv, PageCovered
<1>2. Grows /\ DataTypeOK' /\ Covered(cursor)'
  BY <1>1 DEF Grows, DataTypeOK, Covered
<1>3. CASE Retries(s)
  <2>1. PICK rest : rest = [poll[s].list EXCEPT ![poll[s].token] = -1]
    OBVIOUS
  <2>2. rest \in Lists
    BY <1>1, <2>1 DEF Polling, Lists
  <2>3. PICK p : p = IF rest = Nothing THEN Idle
                     ELSE [poll[s] EXCEPT !.step = "retrying", !.list = rest]
    OBVIOUS
  <2>4. p \in Polling /\ p.step \in {"idle", "retrying"}
    BY <1>1, <2>2, <2>3, IdleType DEF Polling
  <2>5. PageCovered(p)'
    BY <2>4 DEF PageCovered, AlertSteps
  <2>6. Become(s, p)
    BY <1>3, <2>1, <2>3 DEF ToNext, ToNextRetry
  <2> QED BY <1>2, <2>4, <2>5, <2>6, SweepKeepsIInv
<1>4. CASE ~ Retries(s)
  <2>1. PICK state : state = poll[s]
    OBVIOUS
  <2>2. state \in Polling /\ state.token \in Int /\ ToNextDeposit(s, state, state.token)
    BY <1>1, <1>4, <2>1, Tokens DEF ToNext
  <2>3. Covered(state.token)'
    BY <1>1, <1>2, <1>4, <2>1 DEF PageCovered, Retries, Covered, Grows
  <2> QED BY <1>2, <2>2, <2>3, NextDepositCovered, SweepKeepsIInv
<1> QED BY <1>3, <1>4

\* The steps of a sweep on the outbox, and its alerts.
LEMMA OutboxIInv ==
  ASSUME IInv, NEW s \in Sweeper,
         \/ ListPending(s) \/ (\E t \in Inbound : Retry(s, t))
         \/ AlertStep(s) \/ MarkDelivered(s) \/ Defer(s)
  PROVE  IInv'
<1>0. poll[s] \in Polling /\ PageCovered(poll[s]) /\ DataTypeOK /\ Covered(cursor)
  BY DEF IInv
<1>1. CASE ListPending(s)
  <2>1. PICK due : due = {t \in Inbound : deposit[t].status = "pending"
                                          /\ deposit[t].attempts < MaxAttempts}
    OBVIOUS
  <2>2. PICK list : list = [t \in Inbound |-> IF t \in due THEN deposit[t].attempts ELSE -1]
    OBVIOUS
  <2>3. list \in Lists
    BY <1>0, <2>2 DEF Lists, DataTypeOK
  <2>4. PICK p : p = IF due = {} THEN Idle ELSE [Idle EXCEPT !.step = "retrying", !.list = list]
    OBVIOUS
  <2>5. p \in Polling /\ p.step \in {"idle", "retrying"}
    BY <2>3, <2>4, IdleType DEF Polling, Idle
  <2>6. PageCovered(p)
    BY <2>5 DEF PageCovered, AlertSteps
  <2> QED BY <1>1, <2>1, <2>2, <2>4, <2>5, <2>6, SweepMoves DEF ListPending
<1>2. ASSUME NEW t \in Inbound, Retry(s, t) PROVE IInv'
  <2>1. PICK p : p = [[poll[s] EXCEPT !.token = t] EXCEPT !.step = "alerting"]
    OBVIOUS
  <2>2. p \in Polling /\ p.step = "alerting" /\ p.token = t /\ p.list = poll[s].list
    BY <1>0, <2>1, Tokens DEF Polling, AlertSteps
  <2>3. p.list # Nothing
    BY <1>2, <2>2 DEF Retry, Nothing
  <2>4. PageCovered(p)
    BY <2>2, <2>3 DEF PageCovered, AlertSteps
  <2> QED BY <1>2, <2>1, <2>2, <2>4, SweepMoves DEF Retry, Alert
<1>3. CASE AlertStep(s)
  <2>1. CASE UNCHANGED poll
    <3>1. UNCHANGED <<ledger, cursor, starts, deposit, poll>>
      BY <1>3, <2>1 DEF AlertStep
    <3> QED BY <3>1 DEF IInv, DataTypeOK, Covered, PageCovered
  <2>2. CASE Go(s, "deferring") \/ Go(s, "delivering")
    BY <1>3, <2>2, GoIInv DEF AlertStep, At, AlertSteps
  <2> QED BY <1>3, <2>1, <2>2 DEF AlertStep
<1>4. CASE MarkDelivered(s)
  <2>1. poll[s].token \in Inbound /\ poll[s].step \in AlertSteps
    BY <1>0, <1>4 DEF MarkDelivered, At, PageCovered, AlertSteps
  <2>2. PICK attempts : attempts = IF Retries(s) THEN poll[s].list[poll[s].token] + 1
                                   ELSE deposit[poll[s].token].attempts
    OBVIOUS
  <2>3. attempts \in Nat
    BY <1>0, <2>1, <2>2 DEF Polling, Lists, DataTypeOK
  <2> QED BY <1>4, <2>1, <2>2, <2>3, ToNextIInv DEF MarkDelivered
<1>5. CASE Defer(s)
  <2>1. poll[s].token \in Inbound /\ poll[s].step \in AlertSteps
    BY <1>0, <1>5 DEF Defer, At, PageCovered, AlertSteps
  <2>2. PICK attempts : attempts = poll[s].list[poll[s].token] + 1
    OBVIOUS
  <2>3. attempts \in Nat
    <3>1. poll[s].list[poll[s].token] \in Nat \cup {-1}
      BY <1>0, <2>1 DEF Polling, Lists
    <3> QED BY <2>2, <3>1
  <2>4. CASE Retries(s)
    <3>1. PICK row : row = [status |-> IF attempts >= MaxAttempts THEN "dead_letter" ELSE "pending",
                            attempts |-> attempts]
      OBVIOUS
    <3>2. row \in [status : {"pending", "delivered", "dead_letter"}, attempts : Nat]
      BY <2>3, <3>1
    <3>3. deposit' = [deposit EXCEPT ![poll[s].token] = row]
      BY <1>5, <2>2, <2>4, <3>1 DEF Defer
    <3>4. UNCHANGED <<ledger, cursor, starts>> /\ ToNext(s)
      BY <1>5 DEF Defer
    <3> QED BY <2>1, <3>2, <3>3, <3>4, ToNextIInv
  <2>5. CASE ~ Retries(s) /\ deposit[poll[s].token].status = "pending"
    <3>1. PICK row : row = [status |-> "pending", attempts |-> deposit[poll[s].token].attempts + 1]
      OBVIOUS
    <3>2. deposit[poll[s].token].attempts \in Nat
      BY <1>0, <2>1 DEF DataTypeOK
    <3>3. row \in [status : {"pending", "delivered", "dead_letter"}, attempts : Nat]
      BY <3>1, <3>2
    <3>4. deposit' = [deposit EXCEPT ![poll[s].token] = row]
      BY <1>5, <2>5, <3>1 DEF Defer
    <3>5. UNCHANGED <<ledger, cursor, starts>> /\ ToNext(s)
      BY <1>5 DEF Defer
    <3> QED BY <2>1, <3>3, <3>4, <3>5, ToNextIInv
  <2>6. CASE ~ Retries(s) /\ deposit[poll[s].token].status # "pending"
    <3>1. deposit' = deposit
      BY <1>0, <1>5, <2>1, <2>6 DEF Defer, DataTypeOK
    <3>2. [status |-> "pending", attempts |-> 0]
            \in [status : {"pending", "delivered", "dead_letter"}, attempts : Nat]
      OBVIOUS
    <3> QED BY <1>5, <2>1, <3>1, <3>2, ToNextIInv DEF Defer
  <2> QED BY <2>4, <2>5, <2>6
<1> QED BY <1>1, <1>2, <1>3, <1>4, <1>5
-----------------------------------------------------------------------------
LEMMA InitIInv == Init => IInv
<1> SUFFICES ASSUME Init PROVE IInv
  OBVIOUS
<1>1. DataTypeOK
  BY Tokens DEF Init, DataTypeOK
<1>2. Covered(cursor)
  BY DepositsAssumption DEF Init, Covered
<1>3. poll \in [Sweeper -> Polling] /\ \A s \in Sweeper : PageCovered(poll[s])
  BY IdleType DEF Init, PageCovered, AlertSteps
<1> QED BY <1>1, <1>2, <1>3 DEF IInv

LEMMA NextIInv == IInv /\ [Next]_vars => IInv'
<1> SUFFICES ASSUME IInv, [Next]_vars PROVE IInv'
  OBVIOUS
<1>1. CASE NewPayment
  <2>1. ledger' \in Token /\ UNCHANGED <<cursor, starts, deposit, poll>>
    BY <1>1, DepositsAssumption DEF NewPayment, IInv, DataTypeOK, Token
  <2> QED BY <2>1 DEF IInv, DataTypeOK, Covered, PageCovered
<1>2. ASSUME NEW s \in Sweeper, SweepStep(s) PROVE IInv'
  BY <1>2, PollIInv, OutboxIInv DEF SweepStep
<1>3. ASSUME NEW s \in Sweeper, AlertThrows(s) \/ MarkDeliveredFails(s) \/ PollFails(s) PROVE IInv'
  BY <1>3, GoIInv DEF AlertThrows, MarkDeliveredFails, PollFails, At, AlertSteps
<1>4. ASSUME NEW s \in Sweeper, SweepDies(s) PROVE IInv'
  <2>1. PICK p : p = Idle
    OBVIOUS
  <2>2. PageCovered(p)
    BY <2>1, IdleType DEF PageCovered, AlertSteps
  <2> QED BY <1>4, <2>1, <2>2, IdleType, SweepMoves DEF SweepDies
<1>5. CASE (Sweep /\ UNCHANGED pollerVars) \/ UNCHANGED vars
  BY <1>5 DEF pollerVars, vars, IInv, DataTypeOK, Covered, PageCovered
<1> QED BY <1>1, <1>2, <1>3, <1>4, <1>5 DEF Next

\* Whatever sweeps overlap, fail and write back older cursors, a deposit that
\* the cursor has passed is recorded, unless a first poll began after it.
THEOREM SpecRecordedBelowCursor == Spec => []RecordedBelowCursor
<1>1. IInv => RecordedBelowCursor
  BY DEF IInv, Covered, RecordedBelowCursor
<1> QED BY <1>1, InitIInv, NextIInv, PTL DEF Spec
-----------------------------------------------------------------------------
(***************************************************************************)
(* Alerts.  The row of the wallet's key is claimed once, by a call within  *)
(* the alert of one deposit, and holds an outcome only after a post.       *)
(***************************************************************************)
\* The row has been claimed: no call can claim it any more.
Claimed == notification.status \notin {"none", "queued"}

\* A row is absent as a whole, and a call about to claim has reserved it.
RowReserved ==
  /\ notification.status = "none" => notification = NoRow
  /\ \A c \in Call : Sends(c, "claiming") => notification.status # "none"

\* A sweep posts only within its alert.
PostsWithinAlert == \A s \in Sweeper : InFlight(s) => At(s, "alerting")

\* An outcome is that of a post.
OutcomeIsOfPost ==
  /\ \A c \in Call : Sends(c, "attaching") => posted # {}
  /\ notification.status \in DOMAIN Rank => posted # {}

ToldIsClaimed ==
  /\ \A s \in Sweeper : At(s, "delivering") => Claimed
  /\ \A t \in Inbound : deposit[t].status = "delivered" => Claimed

AlertInv ==
  OutboxTypeOK /\ OneSender /\ RowReserved /\ PostsWithinAlert /\ OutcomeIsOfPost /\ ToldIsClaimed

SendStates ==
  [step : {"reserving", "claiming", "over"}]
  \cup [step : {"posting"}, posts : 0 .. MaxPosts - 1]
  \cup [step : {"attaching"}, outcome : Outcomes, id : Nat]

LEMMA Continues ==
  ASSUME OutboxTypeOK, NEW c \in Call, NEW state \in SendStates, Continue(c, state)
  PROVE  /\ send' \in [Call -> SendStates]
         /\ send'[c] = state
         /\ \A d \in Call \ {c} : send'[d] = send[d]
BY DEF OutboxTypeOK, Continue, SendStates

\* What a step of a call does to the row and to the call.
LEMMA SendStepDoes ==
  ASSUME OutboxTypeOK, RowReserved, NEW c \in Call, SendStep(c),
         InFlight(c) => Claimed
  PROVE  /\ OutboxTypeOK'
         /\ \A d \in Call \ {c} : send'[d] = send[d]
         /\ notification'.status = "none" => notification' = NoRow
         /\ notification'.status # "none"
         /\ Claimed => Claimed'
         /\ InFlight(c)' => Claimed'
         /\ InFlight(c)' => InFlight(c) \/ notification.status = "queued"
         /\ send'[c].step = "over" => Claimed'
         /\ accepted' \in {accepted, accepted + 1}
         /\ accepted' # accepted => InFlight(c)
         /\ Sends(c, "attaching")' => Sends(c, "posting")
         /\ notification'.status \in DOMAIN Rank =>
              notification.status \in DOMAIN Rank \/ Sends(c, "attaching")
<1> USE OutboxAssumption DEF OutboxTypeOK, RowStates, Rank, NoRow, Claimed, InFlight, Sends
<1>1. CASE Reserve(c)
  <2>1. PICK state : state = IF notification.status = "sent" THEN [step |-> "over"] ELSE [step |-> "claiming"]
    OBVIOUS
  <2>2. state \in SendStates /\ Continue(c, state)
    BY <1>1, <2>1 DEF Reserve, EndCall, SendStates
  <2> QED BY <1>1, <2>1, <2>2, Continues DEF Reserve, RowReserved, SendStates
<1>2. CASE ClaimForSend(c)
  <2>1. CASE notification.status = "queued"
    <3>1. [step |-> "posting", posts |-> 0] \in SendStates
      BY DEF SendStates
    <3> QED BY <1>2, <2>1, <3>1, Continues DEF ClaimForSend, SendStates
  <2>2. CASE notification.status # "queued"
    <3>1. [step |-> "over"] \in SendStates
      BY DEF SendStates
    <3> QED BY <1>2, <2>2, <3>1, Continues DEF ClaimForSend, EndCall, RowReserved, SendStates
  <2> QED BY <2>1, <2>2
<1>3. CASE PostAccepted(c) \/ PostRejected(c) \/ PostUnanswered(c) \/ PostUnavailable(c)
  <2>1. send[c].posts \in 0 .. MaxPosts - 1
    BY <1>3 DEF PostAccepted, PostRejected, PostUnanswered, PostUnavailable
  <2>2. PICK state \in SendStates : Continue(c, state) /\ state.step \in {"posting", "attaching"}
    BY <1>3, <2>1, SMTT(60) DEF PostAccepted, PostRejected, PostUnanswered, PostUnavailable, Attaching,
                      SendStates, Outcomes
  <2>3. notification' = notification /\ accepted' \in {accepted, accepted + 1} /\ Sends(c, "posting")
    BY <1>3 DEF PostAccepted, PostRejected, PostUnanswered, PostUnavailable
  <2> QED BY <2>2, <2>3, Continues DEF SendStates
<1>4. CASE MarkSent(c) \/ MarkSendFailed(c) \/ MarkUnresolved(c)
  <2>1. [step |-> "over"] \in SendStates /\ Continue(c, [step |-> "over"])
    BY <1>4 DEF MarkSent, MarkSendFailed, MarkUnresolved, EndCall, SendStates
  <2>2. send[c].outcome \in Outcomes /\ send[c].id \in Nat
    BY <1>4 DEF MarkSent, MarkSendFailed, MarkUnresolved
  <2>3. Claimed /\ accepted' = accepted /\ Sends(c, "attaching")
    BY <1>4 DEF MarkSent, MarkSendFailed, MarkUnresolved
  <2>4. Claimed' /\ notification' \in [status : RowStates, provider : Nat, last : 0 .. MaxStamp]
    <3>1. CASE MarkSent(c)
      BY <2>2, <3>1 DEF MarkSent
    <3>2. CASE MarkSendFailed(c)
      BY <3>2 DEF MarkSendFailed
    <3>3. CASE MarkUnresolved(c)
      BY <2>3, <3>3 DEF MarkUnresolved, Unresolved
    <3> QED BY <1>4, <3>1, <3>2, <3>3
  <2> QED BY <2>1, <2>3, <2>4, Continues DEF SendStates
<1> QED BY <1>1, <1>2, <1>3, <1>4 DEF SendStep

\* A step of a sweep that leaves the row and Meta alone.
LEMMA QuietStep ==
  ASSUME AlertInv, NEW s \in Sweeper, UNCHANGED <<notification, accepted, posted>>,
         \A r \in Sweeper \ {s} : poll'[r] = poll[r],
         \/ send' = send /\ ~ InFlight(s)
         \/ EndCall(s)
         \/ Continue(s, [step |-> "reserving"]),
         poll'[s].step = "delivering" => Claimed,
         \A t \in Inbound : deposit'[t].status = "delivered" => deposit[t].status = "delivered" \/ Claimed
  PROVE  AlertInv'
<1>1. /\ send' \in [Call -> SendStates]
      /\ \A r \in Sweeper \ {s} : send'[r] = send[r]
      /\ (send'[s] = send[s] /\ ~ InFlight(s)) \/ send'[s].step \in {"over", "reserving"}
  <2>1. [step |-> "over"] \in SendStates /\ [step |-> "reserving"] \in SendStates
    BY DEF SendStates
  <2>2. s \in Call /\ OutboxTypeOK
    BY DEF AlertInv, Sweeper
  <2>3. CASE send' = send /\ ~ InFlight(s)
    BY <2>2, <2>3 DEF OutboxTypeOK, SendStates
  <2>4. ASSUME NEW state \in SendStates, state.step \in {"over", "reserving"}, Continue(s, state)
        PROVE  /\ send' \in [Call -> SendStates]
               /\ send'[s] = state
               /\ \A r \in Sweeper \ {s} : send'[r] = send[r]
    BY <2>2, <2>4, Continues DEF Sweeper
  <2> QED BY <2>1, <2>3, <2>4 DEF EndCall
<1>2. ~ InFlight(s)' /\ \A r \in Sweeper : InFlight(r)' => r # s /\ InFlight(r)
  <2>1. ~ InFlight(s)'
    BY <1>1 DEF InFlight
  <2> QED BY <1>1, <2>1 DEF InFlight
<1>3. \A r \in Call : Sends(r, "claiming")' => Sends(r, "claiming")
  BY <1>1 DEF Sends, Sweeper
<1>4. OutboxTypeOK' /\ OneSender' /\ RowReserved'
  BY <1>1, <1>2, <1>3 DEF AlertInv, OutboxTypeOK, SendStates, OneSender, RowReserved, Sweeper
<1>5. PostsWithinAlert'
  BY <1>2 DEF AlertInv, PostsWithinAlert, At
<1>6. ToldIsClaimed'
  BY DEF AlertInv, ToldIsClaimed, Claimed, At
<1>7. OutcomeIsOfPost'
  BY <1>1 DEF AlertInv, OutcomeIsOfPost, Sends, Sweeper
<1> QED BY <1>4, <1>5, <1>6, <1>7 DEF AlertInv

\* A step of the call of a sweep that alerts.
LEMMA AlertStepKeeps ==
  ASSUME IInv, AlertInv, NEW s \in Sweeper, AlertStep(s)
  PROVE  AlertInv'
<1>1. /\ SendStep(s) /\ At(s, "alerting") /\ s \in Call /\ deposit' = deposit
      /\ posted' = IF Sends(s, "posting") THEN posted \cup {poll[s].token} ELSE posted
  BY DEF AlertStep, Sweeper
<1>2. /\ poll'[s].token = poll[s].token
      /\ \A r \in Sweeper \ {s} : poll'[r] = poll[r]
      /\ poll'[s].step = "alerting" \/ send'[s].step = "over"
      /\ poll'[s].step = "delivering" => send'[s].step = "over"
  BY <1>1 DEF AlertStep, Go, Become, At, IInv, Polling
<1>3. InFlight(s) => Claimed
  BY <1>1 DEF AlertInv, OneSender, Claimed
<1>4. OutboxTypeOK /\ RowReserved
  BY DEF AlertInv
<1>5. /\ OutboxTypeOK'
      /\ \A d \in Call \ {s} : send'[d] = send[d]
      /\ notification'.status = "none" => notification' = NoRow
      /\ notification'.status # "none"
      /\ Claimed => Claimed'
      /\ InFlight(s)' => Claimed'
      /\ InFlight(s)' => InFlight(s) \/ notification.status = "queued"
      /\ send'[s].step = "over" => Claimed'
      /\ accepted' \in {accepted, accepted + 1}
      /\ accepted' # accepted => InFlight(s)
      /\ Sends(s, "attaching")' => Sends(s, "posting")
      /\ notification'.status \in DOMAIN Rank =>
           notification.status \in DOMAIN Rank \/ Sends(s, "attaching")
  BY <1>1, <1>3, <1>4, SendStepDoes
<1>6. \A d \in Call \ {s} : (InFlight(d)' <=> InFlight(d)) /\ (Sends(d, "claiming")' <=> Sends(d, "claiming"))
  BY <1>5 DEF InFlight, Sends
<1>7. accepted \in Nat
  BY <1>4 DEF OutboxTypeOK
<1>8. notification.status = "queued" => accepted = 0 /\ \A d \in Call : ~ InFlight(d)
  BY <1>7 DEF AlertInv, OneSender
<1>9. OneSender'
  <2>1. ASSUME NEW c \in Call, NEW d \in Call, InFlight(c)', InFlight(d)' PROVE c = d
    BY <2>1, <1>5, <1>6, <1>8 DEF AlertInv, OneSender
  <2>2. accepted' > 0 \/ (\E c \in Call : InFlight(c)') => Claimed'
    BY <1>3, <1>5, <1>6, <1>7 DEF AlertInv, OneSender, Claimed
  <2> QED BY <2>1, <2>2 DEF OneSender, Claimed
<1>10. RowReserved'
  BY <1>5 DEF RowReserved
<1>11. PostsWithinAlert'
  <2>1. ASSUME NEW r \in Sweeper, InFlight(r)' PROVE At(r, "alerting")'
    <3>1. CASE r = s
      BY <1>2, <2>1, <3>1 DEF InFlight, At
    <3>2. CASE r # s
      BY <1>2, <1>6, <2>1, <3>2 DEF At, AlertInv, PostsWithinAlert, Sweeper
    <3> QED BY <3>1, <3>2
  <2> QED BY <2>1 DEF PostsWithinAlert
<1>12. ToldIsClaimed'
  BY <1>1, <1>2, <1>5 DEF AlertInv, ToldIsClaimed, At
<1>13. OutcomeIsOfPost'
  <2>1. posted \subseteq posted' /\ (Sends(s, "posting") => posted' # {})
    BY <1>1
  <2>2. \A d \in Call \ {s} : Sends(d, "attaching")' => Sends(d, "attaching")
    BY <1>5 DEF Sends
  <2> QED BY <1>1, <1>5, <2>1, <2>2 DEF AlertInv, OutcomeIsOfPost, Rank
<1> QED BY <1>5, <1>9, <1>10, <1>11, <1>12, <1>13 DEF AlertInv

\* The steps of a sweep on the wallet, its page and the outbox.
LEMMA PollKeepsAlertInv ==
  ASSUME IInv, AlertInv, NEW s \in Sweeper,
         \/ SweepStep(s) /\ ~ AlertStep(s)
         \/ AlertThrows(s) \/ MarkDeliveredFails(s) \/ PollFails(s) \/ SweepDies(s)
  PROVE  AlertInv'
<1>1. /\ poll \in [Sweeper -> Polling] /\ poll[s] \in Polling
      /\ ~ At(s, "alerting") => ~ InFlight(s)
      /\ At(s, "delivering") => Claimed
  BY DEF IInv, AlertInv, PostsWithinAlert, ToldIsClaimed
<1> DEFINE Moves == /\ poll'[s].step # "delivering"
                    /\ \A r \in Sweeper \ {s} : poll'[r] = poll[r]
<1>2. ASSUME Moves, UNCHANGED <<notification, accepted, posted>>,
             \/ send' = send /\ ~ InFlight(s)
             \/ EndCall(s)
             \/ Continue(s, [step |-> "reserving"]),
             \A t \in Inbound : deposit'[t].status = "delivered" => deposit[t].status = "delivered" \/ Claimed
      PROVE  AlertInv'
  BY <1>2, QuietStep
<1>3. ASSUME NEW p, Become(s, p), p.step # "delivering" PROVE Moves
  BY <1>3, <1>1 DEF Become
<1>4. ASSUME NEW step, step # "delivering", Go(s, step) PROVE Moves
  <2>1. PICK p : p = [poll[s] EXCEPT !.step = step]
    OBVIOUS
  <2>2. p.step = step
    BY <1>1, <2>1 DEF Polling
  <2> QED BY <1>3, <1>4, <2>1, <2>2 DEF Go
<1>5. ASSUME NEW state \in Polling, NEW after, ToNextDeposit(s, state, after)
      PROVE  Moves
  <2>1. ASSUME NEW t \in Inbound, Become(s, [state EXCEPT !.step = "recording", !.token = t])
        PROVE  Moves
    <3>1. [state EXCEPT !.step = "recording", !.token = t].step = "recording"
      BY DEF Polling
    <3> QED BY <1>3, <2>1, <3>1
  <2>2. ASSUME NEW step \in {"advancing", "comparing"}, Become(s, [state EXCEPT !.step = step])
        PROVE  Moves
    <3>1. [state EXCEPT !.step = step].step = step
      BY DEF Polling
    <3> QED BY <1>3, <2>2, <3>1
  <2> QED BY <1>5, <2>1, <2>2 DEF ToNextDeposit
<1>6. CASE StartSweep(s) \/ ListPending(s)
  <2>1. Moves
    <3>1. CASE StartSweep(s)
      <4>1. PICK p : p = [Idle EXCEPT !.step = IF cursor = 0 THEN "starting" ELSE "paging", !.from = cursor]
        OBVIOUS
      <4> QED BY <1>3, <3>1, <4>1 DEF StartSweep, Idle
    <3>2. CASE ListPending(s)
      <4>1. PICK list : list = [t \in Inbound |->
              IF t \in {u \in Inbound : deposit[u].status = "pending" /\ deposit[u].attempts < MaxAttempts}
              THEN deposit[t].attempts ELSE -1]
        OBVIOUS
      <4>2. Become(s, Idle) \/ Become(s, [Idle EXCEPT !.step = "retrying", !.list = list])
        BY <3>2, <4>1 DEF ListPending
      <4> QED BY <1>3, <4>2 DEF Idle
    <3> QED BY <1>6, <3>1, <3>2
  <2>2. ~ InFlight(s)
    BY <1>1, <1>6 DEF StartSweep, ListPending, At
  <2> QED BY <1>2, <1>6, <2>1, <2>2 DEF StartSweep, ListPending, outboxVars
<1>7. CASE FetchLatest(s) \/ WriteStart(s) \/ FetchPage(s) \/ CompareCursor(s) \/ Advance(s)
  <2>1. Moves
    <3>1. CASE FetchLatest(s)
      <4>1. ASSUME NEW t, Become(s, [poll[s] EXCEPT !.step = "writing", !.token = t])
            PROVE  Moves
        <5>1. [poll[s] EXCEPT !.step = "writing", !.token = t].step = "writing"
          BY <1>1 DEF Polling
        <5> QED BY <1>3, <4>1, <5>1
      <4> QED BY <3>1, <1>4, <4>1 DEF FetchLatest
    <3>2. CASE WriteStart(s)
      BY <3>2, <1>4 DEF WriteStart
    <3>3. CASE FetchPage(s)
      <4>1. CASE Go(s, "listing")
        BY <4>1, <1>4
      <4>2. CASE ~ Go(s, "listing")
        <5>1. PICK state : state = [poll[s] EXCEPT !.last = PageEnd(poll[s].from)]
          OBVIOUS
        <5>2. PageEnd(poll[s].from) \in Token
          BY <1>1, <3>3, <4>2, DepositsAssumption DEF IInv, DataTypeOK, PageEnd, Token, Polling, FetchPage
        <5>3. state \in Polling /\ ToNextDeposit(s, state, poll[s].from)
          BY <1>1, <3>3, <4>2, <5>1, <5>2 DEF FetchPage, Polling
        <5> QED BY <5>3, <1>5
      <4> QED BY <4>1, <4>2
    <3>4. ASSUME ToNextPage(s) PROVE Moves
      <4>1. PICK p : p = [poll[s] EXCEPT
              !.step = IF poll[s].last - poll[s].from >= PageSize THEN "paging" ELSE "listing",
              !.from = poll[s].last]
        OBVIOUS
      <4>2. p.step # "delivering"
        BY <1>1, <4>1 DEF Polling
      <4> QED BY <1>3, <3>4, <4>1, <4>2 DEF ToNextPage
    <3>5. CASE CompareCursor(s) \/ Advance(s)
      BY <3>4, <3>5, <1>4 DEF CompareCursor, Advance
    <3> QED BY <1>7, <3>1, <3>2, <3>3, <3>5
  <2>2. ~ InFlight(s) /\ UNCHANGED <<outboxVars, deposit, posted>>
    BY <1>1, <1>7 DEF FetchLatest, WriteStart, FetchPage, CompareCursor, Advance, At
  <2> QED BY <1>2, <2>1, <2>2 DEF outboxVars
<1>8. CASE Record(s)
  <2>1. ~ InFlight(s) /\ UNCHANGED <<outboxVars, posted>> /\ Go(s, "checking")
    BY <1>1, <1>8 DEF Record, At
  <2>2. \A t \in Inbound : deposit'[t].status = "delivered" => deposit[t].status = "delivered"
    BY <1>8 DEF Record, IInv, DataTypeOK
  <2> QED BY <1>2, <1>4, <2>1, <2>2 DEF outboxVars
<1>9. ASSUME NEW state \in Polling, Alert(s, state), UNCHANGED <<deposit, posted>> PROVE AlertInv'
  <2>1. [state EXCEPT !.step = "alerting"].step = "alerting"
    BY DEF Polling
  <2> QED BY <1>2, <1>9, <1>3, <2>1 DEF Alert
<1>10. CASE CheckDelivered(s)
  <2>1. CASE Alert(s, poll[s])
    BY <1>1, <1>9, <1>10, <2>1 DEF CheckDelivered
  <2>2. CASE ToNextDeposit(s, poll[s], poll[s].token) /\ UNCHANGED outboxVars
    BY <1>1, <1>2, <1>5, <1>10, <2>2 DEF CheckDelivered, At, outboxVars
  <2> QED BY <1>10, <2>1, <2>2 DEF CheckDelivered
<1>11. ASSUME NEW t \in Inbound, Retry(s, t) PROVE AlertInv'
  <2>1. [poll[s] EXCEPT !.token = t] \in Polling
    BY <1>1, Tokens DEF Polling
  <2> QED BY <1>9, <1>11, <2>1 DEF Retry
<1>12. ASSUME ToNext(s), poll[s].step \in AlertSteps
       PROVE  Moves
  <2>1. CASE Retries(s)
    <3>1. PICK rest : rest = [poll[s].list EXCEPT ![poll[s].token] = -1]
      OBVIOUS
    <3>2. PICK p : p = IF rest = Nothing THEN Idle
                       ELSE [poll[s] EXCEPT !.step = "retrying", !.list = rest]
      OBVIOUS
    <3>3. p.step # "delivering"
      BY <1>1, <3>2, IdleType DEF Polling
    <3> QED BY <1>12, <1>3, <2>1, <3>1, <3>2, <3>3 DEF ToNext, ToNextRetry
  <2> QED BY <1>1, <1>5, <1>12, <2>1 DEF ToNext
<1>13. CASE MarkDelivered(s)
  <2>1. Claimed /\ ~ InFlight(s) /\ ToNext(s) /\ UNCHANGED <<outboxVars, posted>>
    BY <1>1, <1>13 DEF MarkDelivered, At
  <2>2. poll[s].step \in AlertSteps
    BY <1>13 DEF MarkDelivered, At, AlertSteps
  <2> QED BY <1>2, <1>12, <2>1, <2>2 DEF outboxVars
<1>14. CASE Defer(s)
  <2>1. ~ InFlight(s) /\ ToNext(s) /\ UNCHANGED <<outboxVars, posted>>
    BY <1>1, <1>14 DEF Defer, At
  <2>2. poll[s].step \in AlertSteps
    BY <1>14 DEF Defer, At, AlertSteps
  <2>3. \A t \in Inbound : deposit'[t].status = "delivered" => deposit[t].status = "delivered"
    BY <1>14 DEF Defer, IInv, DataTypeOK
  <2> QED BY <1>2, <1>12, <2>1, <2>2, <2>3 DEF outboxVars
<1>15. CASE AlertThrows(s)
  BY <1>2, <1>4, <1>15 DEF AlertThrows, CallDies
<1>16. CASE MarkDeliveredFails(s) \/ PollFails(s)
  <2>1. ~ InFlight(s)
    BY <1>1, <1>16 DEF MarkDeliveredFails, PollFails, At, PollSteps
  <2>2. (Go(s, "deferring") \/ Go(s, "listing")) /\ UNCHANGED <<outboxVars, deposit, posted>>
    BY <1>16 DEF MarkDeliveredFails, PollFails
  <2> QED BY <1>2, <1>4, <2>1, <2>2 DEF outboxVars
<1>17. CASE SweepDies(s)
  BY <1>2, <1>17, <1>3, IdleType DEF SweepDies
<1> QED BY <1>6, <1>7, <1>8, <1>10, <1>11, <1>13, <1>14, <1>15, <1>16, <1>17 DEF SweepStep

LEMMA InitAlertInv == Init => AlertInv
<1> SUFFICES ASSUME Init PROVE AlertInv
  OBVIOUS
<1>1. OutboxTypeOK
  BY OutboxAssumption DEF Init, OutboxInit, OutboxTypeOK, NoRow, RowStates
<1>2. OneSender /\ RowReserved
  BY DEF Init, OutboxInit, OneSender, RowReserved, InFlight, Sends, NoRow
<1>3. PostsWithinAlert /\ OutcomeIsOfPost /\ ToldIsClaimed
  BY IdleType DEF Init, OutboxInit, PostsWithinAlert, OutcomeIsOfPost, ToldIsClaimed, InFlight, Sends, At,
                  Sweeper, NoRow, Rank
<1> QED BY <1>1, <1>2, <1>3 DEF AlertInv

LEMMA NextAlertInv == IInv /\ AlertInv /\ [Next]_vars => AlertInv'
<1> SUFFICES ASSUME IInv, AlertInv, [Next]_vars PROVE AlertInv'
  OBVIOUS
<1>1. CASE UNCHANGED <<outboxVars, deposit, poll, posted>>
  BY <1>1 DEF outboxVars, AlertInv, OutboxTypeOK, OneSender, RowReserved, PostsWithinAlert, OutcomeIsOfPost,
              ToldIsClaimed, InFlight, Sends, At, Claimed
<1>2. ASSUME NEW s \in Sweeper,
             SweepStep(s) \/ AlertThrows(s) \/ MarkDeliveredFails(s) \/ PollFails(s) \/ SweepDies(s)
      PROVE  AlertInv'
  BY <1>2, AlertStepKeeps, PollKeepsAlertInv
<1>3. CASE Sweep /\ UNCHANGED pollerVars
  <2>1. Claimed /\ Claimed' /\ notification'.status \notin DOMAIN Rank /\ UNCHANGED <<send, accepted, deposit, poll, posted>>
    BY <1>3 DEF Sweep, Unresolved, Claimed, Rank, pollerVars, AlertInv, OutboxTypeOK
  <2>2. notification' \in [status : RowStates, provider : Nat, last : 0 .. MaxStamp]
    BY <1>3 DEF Sweep, Unresolved, AlertInv, OutboxTypeOK, RowStates
  <2> QED BY <2>1, <2>2 DEF AlertInv, OutboxTypeOK, OneSender, RowReserved, PostsWithinAlert, OutcomeIsOfPost,
                            ToldIsClaimed, InFlight, Sends, At, Claimed, Rank
<1> QED BY <1>1, <1>2, <1>3 DEF Next, NewPayment, vars, pollerVars

\* A deposit that is called delivered although its alert was never posted is
\* one whose notification was used up: by another deposit of the wallet, or by
\* a call that claimed it and came to no outcome.
THEOREM SpecDeliveredIsTold == Spec => []DeliveredIsTold
<1>1. AlertInv => DeliveredIsTold
  BY DEF AlertInv, ToldIsClaimed, OutcomeIsOfPost, Claimed, DeliveredIsTold, OutboxTypeOK, RowStates
<1> QED BY <1>1, InitIInv, NextIInv, InitAlertInv, NextAlertInv, PTL DEF Spec

\* Of the calls that the sweeps make with the key of the wallet, at most one
\* posts.
THEOREM SpecOneSenderOfAlerts == Spec => []OneSender
<1>1. AlertInv => OneSender
  BY DEF AlertInv
<1> QED BY <1>1, InitIInv, NextIInv, InitAlertInv, NextAlertInv, PTL DEF Spec
=============================================================================
