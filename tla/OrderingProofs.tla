--------------------------- MODULE OrderingProofs ---------------------------
(***************************************************************************)
(* For any messages, timestamps, workers and bounds: the queue of a sender *)
(* is well typed, a message is only skipped for another one, the cursor    *)
(* does not move back, and runs that keep their lock are alone.            *)
(***************************************************************************)
EXTENDS Ordering, TLAPS

\* A job that somebody holds is active, and one that is not settled has
\* attempts left.
JobsConsistent ==
  \A m \in Message :
    /\ job[m].by # NoWorker => job[m].state = "active"
    /\ job[m].state \in {"none", "waiting", "active"} => job[m].attempts < MaxAttempts

\* The cursor is the timestamp of a message whose processing began, and so is
\* what processes remember and the message of every run past that point.
CursorIsBegun ==
  /\ remembered \subseteq begun
  /\ cursor # NoCursor => cursor.m \in begun /\ cursor.ts = Timestamp[cursor.m]
  /\ \A w \in Worker :
       run[w].step \in {"handling", "recording", "advancing", "releasing"} => run[w].m \in begun

\* A run that needs the lock has it.
LockHeld == LockTrusted => \A w \in Worker : InUse(w) => lock = w

IInv == OrdTypeOK /\ JobsConsistent /\ CursorIsBegun /\ LockHeld /\ SkippedForNewer
-----------------------------------------------------------------------------
LEMMA InitIInv == OrdInit => IInv
BY OrderingAssumption
DEF OrdInit, IInv, OrdTypeOK, JobsConsistent, CursorIsBegun, LockHeld, SkippedForNewer,
    JobStates, RunSteps, Idle, InUse, LockTrusted

\* What a run knows when it finds its message stale.
LEMMA StaleIsOlder ==
  ASSUME OrdTypeOK, CursorIsBegun, NEW m \in Message, NEW seen \in CursorsSeen, Stale(m, seen)
  PROVE  \E n \in begun : Timestamp[n] >= Timestamp[m]
<1>1. seen # NoCursor
  BY OrderingAssumption DEF Stale, NoCursor, CursorAt
<1>2. seen.m \in begun /\ seen.ts = Timestamp[seen.m] /\ seen.m \in Message
  <2>1. CASE seen = cursor
    BY <1>1, <2>1 DEF OrdTypeOK, CursorIsBegun
  <2>2. CASE \E n \in remembered : seen = CursorAt(n)
    BY <2>2 DEF OrdTypeOK, CursorIsBegun, CursorAt
  <2> QED BY <1>1, <2>1, <2>2 DEF CursorsSeen
<1>3. Timestamp[m] \in Nat /\ Timestamp[seen.m] \in Nat
  BY <1>2, OrderingAssumption
<1>4. Timestamp[seen.m] >= Timestamp[m]
  BY <1>2, <1>3 DEF Stale, CursorAt
<1> QED BY <1>2, <1>4

\* The run of a worker that is doing something.
LEMMA RunType ==
  ASSUME OrdTypeOK, NEW w \in Worker, run[w] # Idle
  PROVE  run[w].m \in Message /\ run[w] \in [step : RunSteps, m : Message]
BY DEF OrdTypeOK

\* Every step keeps the state well typed and the jobs consistent.
LEMMA StepTypeOK ==
  ASSUME IInv, OrdNext
  PROVE  OrdTypeOK' /\ JobsConsistent'
<1> USE OrderingAssumption DEF OrdTypeOK, JobsConsistent, JobStates, RunSteps, At, Goto, Stop
<1>1. ASSUME NEW m \in Message, Arrive(m) PROVE OrdTypeOK' /\ JobsConsistent'
  BY <1>1 DEF IInv, Arrive, AddJob
<1>2. ASSUME NEW w \in Worker, Advance(w) PROVE OrdTypeOK' /\ JobsConsistent'
  <2>1. ASSUME NEW m \in Message, Take(w, m) PROVE OrdTypeOK' /\ JobsConsistent'
    BY <2>1 DEF IInv, Take, Idle
  <2> DEFINE Runs == run[w].m \in Message /\ run[w] \in [step : RunSteps, m : Message]
  <2>2. CASE SkipStale(w)
    <3>1. Runs
      BY <2>2, RunType DEF IInv, SkipStale, Idle
    <3> QED BY <2>2, <3>1 DEF IInv, SkipStale, Report
  <2>3. CASE ReadCursor(w) \/ Acquire(w) \/ MarkProcessing(w) \/ HandlerReturns(w)
             \/ HandlerThrows(w) \/ MarkCompleted(w)
    <3>1. Runs
      BY <2>3, RunType
      DEF IInv, ReadCursor, Acquire, MarkProcessing, HandlerReturns, HandlerThrows,
          MarkCompleted, Idle
    <3> QED BY <2>3, <3>1
      DEF IInv, ReadCursor, Acquire, MarkProcessing, HandlerReturns, HandlerThrows, MarkCompleted
  <2>4. CASE Requeue(w)
    <3>1. Runs
      BY <2>4, RunType DEF IInv, Requeue, Idle
    <3> QED BY <2>4, <3>1 DEF IInv, Requeue, Report
  <2>5. CASE AdvanceCursor(w)
    <3>1. Runs
      BY <2>5, RunType DEF IInv, AdvanceCursor, Idle
    <3> QED BY <2>5, <3>1 DEF IInv, AdvanceCursor, CursorAt
  <2>6. CASE Finish(w)
    <3>1. Runs
      BY <2>6, RunType DEF IInv, Finish, Idle
    <3> QED BY <2>6, <3>1, SMTT(60) DEF IInv, Finish, Report, ReleaseLock
  <2>7. CASE Fail(w)
    <3>1. Runs
      BY <2>7, RunType DEF IInv, Fail, Idle
    <3> QED BY <2>7, <3>1 DEF IInv, Fail, ReleaseLock
  <2> QED BY <1>2, <2>1, <2>2, <2>3, <2>4, <2>5, <2>6, <2>7 DEF Advance, Process
<1>3. ASSUME NEW w \in Worker, Crash(w) \/ Stall(w) PROVE OrdTypeOK' /\ JobsConsistent'
  <2>1. run[w].m \in Message
    BY <1>3, RunType DEF IInv, Crash, Stall
  <2> QED BY <1>3, <2>1, SMTT(60) DEF IInv, Crash, Stall, TakeBack
<1>4. CASE LockExpires
  BY <1>4 DEF IInv, LockExpires
<1> QED BY <1>1, <1>2, <1>3, <1>4 DEF OrdNext

\* Every step keeps the cursor at a message that was begun.
LEMMA StepCursor ==
  ASSUME IInv, OrdNext
  PROVE  CursorIsBegun'
<1> USE DEF OrdTypeOK, RunSteps, CursorIsBegun, At, Goto, Stop, Idle
<1>1. ASSUME NEW w \in Worker, Advance(w) PROVE CursorIsBegun'
  <2>1. CASE AdvanceCursor(w)
    BY <2>1, OrderingAssumption DEF IInv, AdvanceCursor, NoCursor, CursorAt
  <2>2. CASE MarkProcessing(w)
    BY <2>2 DEF IInv, MarkProcessing
  <2>3. ASSUME NEW m \in Message, Take(w, m) PROVE CursorIsBegun'
    BY <2>3 DEF IInv, Take
  <2>4. CASE SkipStale(w) \/ Requeue(w) \/ Finish(w) \/ Fail(w)
    BY <2>4 DEF IInv, SkipStale, Requeue, Finish, Fail
  <2>5. CASE ReadCursor(w) \/ Acquire(w) \/ HandlerReturns(w) \/ HandlerThrows(w) \/ MarkCompleted(w)
    BY <2>5 DEF IInv, ReadCursor, Acquire, HandlerReturns, HandlerThrows, MarkCompleted
  <2> QED BY <1>1, <2>1, <2>2, <2>3, <2>4, <2>5 DEF Advance, Process
<1>2. ASSUME NEW w \in Worker, Crash(w) \/ Stall(w) PROVE CursorIsBegun'
  BY <1>2 DEF IInv, Crash, Stall
<1>3. CASE LockExpires \/ \E m \in Message : Arrive(m)
  BY <1>3 DEF IInv, LockExpires, Arrive
<1> QED BY <1>1, <1>2, <1>3 DEF OrdNext

\* The lock leaves a run that needs it only when it expires under that run.
LEMMA StepLock ==
  ASSUME IInv, OrdNext
  PROVE  LockHeld'
<1> SUFFICES ASSUME LockTrusted, NEW v \in Worker, InUse(v)' PROVE lock' = v
  BY DEF LockHeld
<1> USE OrderingAssumption DEF LockTrusted, OrdTypeOK, RunSteps, LockHeld, InUse, At, Goto, Stop, Idle
<1>1. ASSUME NEW w \in Worker, Advance(w) PROVE lock' = v
  <2>1. ASSUME NEW m \in Message, Take(w, m) PROVE lock' = v
    BY <2>1 DEF IInv, Take
  <2>2. CASE Acquire(w)
    BY <2>2 DEF IInv, Acquire
  <2>3. CASE Finish(w) \/ Fail(w)
    BY <2>3 DEF IInv, Finish, Fail, ReleaseLock
  <2>4. CASE SkipStale(w) \/ Requeue(w)
    BY <2>4 DEF IInv, SkipStale, Requeue
  <2>5. CASE ReadCursor(w) \/ MarkProcessing(w) \/ HandlerReturns(w) \/ HandlerThrows(w)
             \/ MarkCompleted(w) \/ AdvanceCursor(w)
    BY <2>5 DEF IInv, ReadCursor, MarkProcessing, HandlerReturns, HandlerThrows,
      MarkCompleted, AdvanceCursor
  <2> QED BY <1>1, <2>1, <2>2, <2>3, <2>4, <2>5 DEF Advance, Process
<1>2. ASSUME NEW w \in Worker, Crash(w) \/ Stall(w) PROVE lock' = v
  BY <1>2 DEF IInv, Crash, Stall
<1>3. CASE LockExpires \/ \E m \in Message : Arrive(m)
  BY <1>3 DEF IInv, LockExpires, Arrive
<1> QED BY <1>1, <1>2, <1>3 DEF OrdNext

\* Only a run that finds its message stale skips it.
LEMMA StepSkipped ==
  ASSUME IInv, OrdNext
  PROVE  SkippedForNewer'
<1> SUFFICES ASSUME NEW k \in Message, job'[k].state = "skipped"
             PROVE  \E n \in begun' : Timestamp[n] >= Timestamp[k]
  BY SMTT(60) DEF SkippedForNewer
<1>1. begun \subseteq begun'
  BY DEF OrdNext, Advance, Process, Arrive, Take, SkipStale, ReadCursor, Acquire, Requeue,
    MarkProcessing, HandlerReturns, HandlerThrows, MarkCompleted, AdvanceCursor, Finish, Fail,
    Crash, Stall, LockExpires
<1>2. CASE job[k].state = "skipped"
  BY <1>1, <1>2 DEF IInv, SkippedForNewer
<1>3. CASE job[k].state # "skipped"
  <2> USE <1>3 DEF OrdTypeOK, At, Goto, Stop
  <2>1. ASSUME NEW w \in Worker, Advance(w) PROVE SkipStale(w) /\ run[w].m = k
    <3>1. ASSUME NEW m \in Message, Take(w, m) PROVE FALSE
      BY <3>1 DEF IInv, Take
    <3>2. ~ UNCHANGED job
      OBVIOUS
    <3>3. ~ (ReadCursor(w) \/ Acquire(w) \/ MarkProcessing(w) \/ HandlerReturns(w)
             \/ HandlerThrows(w) \/ MarkCompleted(w) \/ AdvanceCursor(w))
      BY <3>2 DEF ReadCursor, Acquire, MarkProcessing, HandlerReturns, HandlerThrows,
        MarkCompleted, AdvanceCursor
    <3>4. ~ (Requeue(w) \/ Finish(w) \/ Fail(w))
      BY DEF IInv, Requeue, Finish, Fail, Report
    <3>5. SkipStale(w)
      BY <2>1, <3>1, <3>3, <3>4 DEF Advance, Process
    <3> QED BY <3>5 DEF IInv, SkipStale, Report
  <2>2. ASSUME NEW w \in Worker, Crash(w) \/ Stall(w) PROVE FALSE
    <3>1. run[w].m \in Message
      BY <2>2, RunType DEF IInv, Crash, Stall
    <3> QED BY <2>2, <3>1 DEF IInv, Crash, Stall, TakeBack
  <2>3. ASSUME LockExpires \/ \E m \in Message : Arrive(m) PROVE FALSE
    BY <2>3 DEF IInv, LockExpires, Arrive, AddJob
  <2>4. PICK w \in Worker : SkipStale(w) /\ run[w].m = k
    BY <2>1, <2>2, <2>3 DEF OrdNext
  <2>5. \E seen \in CursorsSeen : Stale(k, seen)
    BY <2>4 DEF SkipStale
  <2> QED BY <1>1, <2>5, StaleIsOlder DEF IInv
<1> QED BY <1>2, <1>3

LEMMA NextIInv == IInv /\ [OrdNext]_ordVars => IInv'
<1> SUFFICES ASSUME IInv, [OrdNext]_ordVars PROVE IInv'
  OBVIOUS
<1>1. CASE OrdNext
  BY <1>1, StepTypeOK, StepCursor, StepLock, StepSkipped DEF IInv
<1>2. CASE UNCHANGED ordVars
  BY <1>2 DEF IInv, ordVars, OrdTypeOK, JobsConsistent, CursorIsBegun, LockHeld,
    SkippedForNewer, InUse, LockTrusted
<1> QED BY <1>1, <1>2

LEMMA InvariantHolds == OrdSpec => []IInv
BY InitIInv, NextIInv, PTL DEF OrdSpec
-----------------------------------------------------------------------------
\* The jobs, the runs, the lock and the cursor are what they should be; a job
\* has no more attempts than it may.
THEOREM SpecOrdTypeOK == OrdSpec => []OrdTypeOK
BY InvariantHolds, PTL DEF IInv

\* A message is skipped only for one sent at the same time or later.
THEOREM SpecSkippedForNewer == OrdSpec => []SkippedForNewer
BY InvariantHolds, PTL DEF IInv

\* Runs that do not outlast their lock in a Redis that answers process a
\* sender's messages one by one.
THEOREM SpecOneAtATime == OrdSpec => []OneAtATime
<1>1. IInv => OneAtATime
  BY SMTT(60) DEF IInv, LockHeld, OneAtATime
<1> QED BY <1>1, InvariantHolds, PTL

\* The cursor does not move back.
THEOREM SpecCursorAdvances == OrdSpec => CursorAdvances
<1>1. IInv /\ [OrdNext]_ordVars => [cursor'.ts >= cursor.ts]_ordVars
  <2> SUFFICES ASSUME IInv, OrdNext PROVE cursor'.ts >= cursor.ts
    OBVIOUS
  <2>1. cursor.ts \in Int
    BY DEF IInv, OrdTypeOK, NoCursor
  <2>2. CASE UNCHANGED cursor
    BY <2>1, <2>2
  <2>3. ASSUME NEW w \in Worker, AdvanceCursor(w) PROVE cursor'.ts >= cursor.ts
    <3>1. Timestamp[run[w].m] \in Nat
      BY <2>3, RunType, OrderingAssumption DEF IInv, AdvanceCursor, At, Idle
    <3> QED BY <2>1, <2>3, <3>1 DEF AdvanceCursor, Stale, CursorAt
  <2> QED BY <2>2, <2>3 DEF OrdNext, Advance, Process, Arrive, Take, SkipStale, ReadCursor,
    Acquire, Requeue, MarkProcessing, HandlerReturns, HandlerThrows, MarkCompleted, Finish,
    Fail, Crash, Stall, LockExpires
<1> QED BY <1>1, InvariantHolds, PTL DEF OrdSpec, CursorAdvances

\* Together: the order that the queue keeps of a sender's messages.
THEOREM SpecOrderKept == OrdSpec => OrderKept
BY SpecSkippedForNewer, SpecCursorAdvances, PTL DEF OrderKept
=============================================================================
