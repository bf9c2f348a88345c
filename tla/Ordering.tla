------------------------------ MODULE Ordering ------------------------------
(***************************************************************************)
(* The messages of one sender on the queue 'messaging-inbound' and the     *)
(* workers that process them (queues/ordering.service.js, withOrdering     *)
(* over the shared Redis store; jobs/inbound.jobs.js).  The lock and the   *)
(* cursor are kept per sender, so senders do not meet here.                *)
(*                                                                         *)
(* BullMQ gives a job to one worker, and to another one when the first     *)
(* stops renewing its hold on it: it died or, if Slow, it was paused and   *)
(* goes on later.  If Slow, handling a message may also outlast the TTL of *)
(* the sender's lock, which is never renewed.                              *)
(*                                                                         *)
(* If RedisFails, any command of the store may fail, and the memory of the *)
(* process takes its place: it has its own lock, which the runs of other   *)
(* processes do not see, and the last message that this process finished.  *)
(* Which runs share a process, and when one is restarted, is left open: a  *)
(* memory may know of any run that still needs its lock, or of none, and   *)
(* remember any message that some process has finished, or none.           *)
(***************************************************************************)
EXTENDS Integers

CONSTANTS Message,      \* the messages of the sender, each the job of its id
          Timestamp,    \* providerTimestamp of each message
          Worker,       \* job runs that can be in progress at once
          NoWorker,     \* nobody
          MaxAttempts,  \* attempts of a job
          Slow,         \* whether a run may outlast its lock or its hold
          RedisFails    \* whether commands to the shared store may fail

ASSUME OrderingAssumption ==
  /\ Timestamp \in [Message -> Nat]
  /\ NoWorker \notin Worker
  /\ MaxAttempts \in Nat \ {0}
  /\ Slow \in BOOLEAN
  /\ RedisFails \in BOOLEAN

VARIABLES job,     \* each message's job on the queue
          run,     \* what each worker is doing
          lock,    \* the worker the sender's lock in Redis belongs to
          cursor,  \* the last message whose processing ended, or none yet
          remembered,  \* the messages some process has had as its own cursor
          begun    \* the messages whose processing has begun

ordVars == <<job, run, lock, cursor, remembered, begun>>

JobStates == {"none", "waiting", "active", "completed", "skipped", "failed"}
RunSteps == {"evaluating", "acquiring", "marking", "handling", "recording",
             "advancing", "releasing", "failing"}

Idle == [step |-> "idle"]
NoCursor == [ts |-> -1]

OrdTypeOK ==
  /\ job \in [Message -> [state : JobStates, by : Worker \cup {NoWorker},
                          attempts : 0 .. MaxAttempts, stalled : BOOLEAN]]
  /\ run \in [Worker -> {Idle} \cup [step : RunSteps, m : Message]]
  /\ lock \in Worker \cup {NoWorker}
  /\ cursor \in {NoCursor} \cup [ts : Nat, m : Message]
  /\ remembered \subseteq Message
  /\ begun \subseteq Message

OrdInit ==
  /\ job = [m \in Message |-> [state |-> "none", by |-> NoWorker, attempts |-> 0, stalled |-> FALSE]]
  /\ run = [w \in Worker |-> Idle]
  /\ lock = NoWorker
  /\ cursor = NoCursor
  /\ remembered = {}
  /\ begun = {}

At(w, step) == run[w].step = step
Goto(w, step) == run' = [run EXCEPT ![w].step = step]
Stop(w) == run' = [run EXCEPT ![w] = Idle]
Settled(m) == job[m].state \in {"completed", "skipped", "failed"}

\* The queue only believes the worker that holds the job.
Report(w, state) ==
  LET m == run[w].m
  IN job' = IF job[m].by = w THEN [job EXCEPT ![m].state = state, ![m].by = NoWorker] ELSE job

\* queue.add with the message id as job id: a second add changes nothing.
AddJob(m) == job' = IF job[m].state = "none" THEN [job EXCEPT ![m].state = "waiting"] ELSE job
-----------------------------------------------------------------------------
Take(w, m) ==
  /\ run[w] = Idle
  /\ job[m].state = "waiting"
  /\ job' = [job EXCEPT ![m].state = "active", ![m].by = w]
  /\ run' = [run EXCEPT ![w] = [step |-> "evaluating", m |-> m]]
  /\ UNCHANGED <<lock, cursor, remembered, begun>>

CursorAt(m) == [ts |-> Timestamp[m], m |-> m]
Stale(m, seen) == Timestamp[m] < seen.ts \/ seen = CursorAt(m)

\* getCursor: what Redis has or, if the command fails, what the process remembers.
CursorsSeen ==
  {cursor} \cup IF RedisFails THEN {NoCursor} \cup {CursorAt(m) : m \in remembered} ELSE {}

\* evaluateOrdering reads the cursor: a message that is older, or already
\* processed, is skipped ...
SkipStale(w) ==
  /\ At(w, "evaluating")
  /\ \E seen \in CursorsSeen : Stale(run[w].m, seen)
  /\ Report(w, "skipped")
  /\ Stop(w)
  /\ UNCHANGED <<lock, cursor, remembered, begun>>

ReadCursor(w) ==
  /\ At(w, "evaluating")
  /\ \E seen \in CursorsSeen : ~ Stale(run[w].m, seen)
  /\ Goto(w, "acquiring")
  /\ UNCHANGED <<job, lock, cursor, remembered, begun>>

\* ... and then, in another call to Redis, takes the lock, or that of the memory.
Acquire(w) ==
  /\ At(w, "acquiring")
  /\ \/ lock = NoWorker /\ lock' = w
     \/ RedisFails /\ UNCHANGED lock
  /\ Goto(w, "marking")
  /\ UNCHANGED <<job, cursor, remembered, begun>>

\* (Mutant: the run ends without moving the job back.)
RequeueForgets(w) ==
  /\ At(w, "acquiring")
  /\ lock # NoWorker
  /\ Stop(w)
  /\ UNCHANGED <<job, lock, cursor, remembered, begun>>

\* The run needs the lock, wherever it has taken it.
InUse(w) == run[w] # Idle /\ run[w].step \notin {"evaluating", "acquiring"}

\* The lock is taken: the job is moved to 'delayed' and comes back.  The bound
\* on requeues is only logged.
Requeue(w) ==
  /\ At(w, "acquiring")
  /\ lock # NoWorker \/ (RedisFails /\ \E v \in Worker : InUse(v))
  /\ Report(w, "waiting")
  /\ Stop(w)
  /\ UNCHANGED <<lock, cursor, remembered, begun>>

\* processInboundMessage: mark the message 'processing', or throw.
MarkProcessing(w) ==
  /\ At(w, "marking")
  /\ \/ Goto(w, "handling") /\ begun' = begun \cup {run[w].m}
     \/ Goto(w, "failing") /\ UNCHANGED begun
  /\ UNCHANGED <<job, lock, cursor, remembered>>

\* processMessage or processVoiceMessage returns or throws.
HandlerReturns(w) ==
  /\ At(w, "handling")
  /\ Goto(w, "recording")
  /\ UNCHANGED <<job, lock, cursor, remembered, begun>>

HandlerThrows(w) ==
  /\ At(w, "handling")
  /\ Goto(w, "failing")
  /\ UNCHANGED <<job, lock, cursor, remembered, begun>>

\* Mark it 'completed'; an error of that update is swallowed.
MarkCompleted(w) ==
  /\ At(w, "recording")
  /\ Goto(w, "advancing")
  /\ UNCHANGED <<job, lock, cursor, remembered, begun>>

\* (Mutant: the cursor is set without comparing.)
SetCursor(w) ==
  /\ At(w, "advancing")
  /\ cursor' = CursorAt(run[w].m)
  /\ remembered' = remembered \cup {run[w].m}
  /\ Goto(w, "releasing")
  /\ UNCHANGED <<job, lock, begun>>

\* advanceCursor: one script on Redis, that never moves the cursor back, and
\* the memory of the process, alone if the script fails.
AdvanceCursor(w) ==
  /\ At(w, "advancing")
  /\ LET m == run[w].m
     IN /\ \/ cursor' = IF Stale(m, cursor) THEN cursor ELSE CursorAt(m)
           \/ RedisFails /\ UNCHANGED cursor
        /\ remembered' = remembered \cup {m}
  /\ Goto(w, "releasing")
  /\ UNCHANGED <<job, lock, begun>>

\* release: the lock is deleted if it is still this run's; where that fails it
\* stays for the rest of its time to live.
ReleaseLock(w) ==
  \/ lock' = IF lock = w THEN NoWorker ELSE lock
  \/ RedisFails /\ UNCHANGED lock

Finish(w) ==
  /\ At(w, "releasing")
  /\ ReleaseLock(w)
  /\ Report(w, "completed")
  /\ Stop(w)
  /\ UNCHANGED <<cursor, remembered, begun>>

\* The run throws: the lock is released, the job is tried again or given up
\* (and copied to the dead letter queue).
Fail(w) ==
  /\ At(w, "failing")
  /\ ReleaseLock(w)
  /\ LET m == run[w].m
         attempts == job[m].attempts + 1
     IN job' = IF job[m].by # w THEN job
               ELSE [job EXCEPT ![m].attempts = attempts, ![m].by = NoWorker,
                       ![m].state = IF attempts < MaxAttempts THEN "waiting" ELSE "failed"]
  /\ Stop(w)
  /\ UNCHANGED <<cursor, remembered, begun>>

Process(w) ==
  \/ \E m \in Message : Take(w, m)
  \/ SkipStale(w) \/ ReadCursor(w) \/ Acquire(w) \/ Requeue(w)
  \/ AdvanceCursor(w) \/ Finish(w) \/ Fail(w)
-----------------------------------------------------------------------------
\* The queue takes an active job back once, and fails it the second time; the
\* run that had it is over, or goes on if it was only paused.
TakeBack(m) ==
  job' = [job EXCEPT ![m].by = NoWorker, ![m].stalled = TRUE,
            ![m].state = IF job[m].stalled THEN "failed" ELSE "waiting"]

Crash(w) ==
  /\ run[w] # Idle
  /\ IF job[run[w].m].by = w THEN TakeBack(run[w].m) ELSE UNCHANGED job
  /\ Stop(w)
  /\ UNCHANGED <<lock, cursor, remembered, begun>>

Stall(w) ==
  /\ Slow
  /\ run[w] # Idle
  /\ job[run[w].m].by = w
  /\ TakeBack(run[w].m)
  /\ UNCHANGED <<run, lock, cursor, remembered, begun>>

\* The lock's time to live is over.
LockExpires ==
  /\ lock # NoWorker
  /\ Slow \/ ~ InUse(lock)
  /\ lock' = NoWorker
  /\ UNCHANGED <<job, run, cursor, remembered, begun>>
-----------------------------------------------------------------------------
(***************************************************************************)
(* The queue by itself: messages arrive in any order, and processing one   *)
(* returns or throws.                                                      *)
(***************************************************************************)
Arrive(m) == AddJob(m) /\ UNCHANGED <<run, lock, cursor, remembered, begun>>

Advance(w) ==
  \/ Process(w) \/ MarkProcessing(w) \/ HandlerReturns(w) \/ HandlerThrows(w) \/ MarkCompleted(w)

OrdNext ==
  \/ \E m \in Message : Arrive(m)
  \/ \E w \in Worker : Advance(w) \/ Crash(w) \/ Stall(w)
  \/ LockExpires

OrdSpec == OrdInit /\ [][OrdNext]_ordVars

\* Workers take waiting jobs and go on with those they have; a lock that
\* nobody releases expires.
FairOrdSpec ==
  /\ OrdSpec
  /\ \A w \in Worker : WF_ordVars(Advance(w))
  /\ WF_ordVars(LockExpires)
-----------------------------------------------------------------------------
(***************************************************************************)
(* What must hold.                                                         *)
(***************************************************************************)

\* A message is skipped as stale only if it, or one the customer sent later (or
\* at the same time), was processed; nothing is lost to a mere requeue.
SkippedForNewer ==
  \A m \in Message : job[m].state = "skipped" =>
    \E n \in begun : Timestamp[n] >= Timestamp[m]

\* Redis answers and no run outlasts its lock.
LockTrusted == ~ Slow /\ ~ RedisFails

\* As long as that is so, the sender's messages are processed one at a time,
\* through crashes, retries and expired locks.
OneAtATime == LockTrusted => \A v, w \in Worker : InUse(v) /\ InUse(w) => v = w

\* The cursor never moves back, so that a message that was processed is not
\* processed again by a late retry.
CursorAdvances == [][cursor'.ts >= cursor.ts]_ordVars

\* A message gives way to newer ones only, and never again to an older one
\* (queues/ordering.service.js).
OrderKept == []SkippedForNewer /\ CursorAdvances

\* Every job comes to an end, whatever crashes, stalls or keeps the lock.
JobsSettle == <>[](\A m \in Message : job[m].state # "none" => Settled(m))

\* jobs/inbound.jobs.js: "same-sender jobs run strictly in provider-timestamp
\* order": no message is begun once a newer one has moved the cursor.  (A run
\* compares with the cursor before it takes the lock, and not again under it.)
InProviderOrder == [][\A m \in begun' \ begun : ~ (Timestamp[m] < cursor.ts)]_ordVars
=============================================================================
