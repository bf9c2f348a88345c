---------------------------- MODULE DeadLetters ----------------------------
(***************************************************************************)
(* The dead letters of one message (queues/dlq.service.js): its job fails  *)
(* for good (queues/queue.service.js), a record is kept in Redis and in    *)
(* the memory of the process that wrote it, and operators replay or        *)
(* discard it from the API or from scripts/whatsapp-dlq.js. Nobody can see *)
(* what only the worker remembers, so that memory is left out.  What the   *)
(* ordering of messages does with a run (Ordering) is reduced to that it   *)
(* may skip it.                                                            *)
(***************************************************************************)
EXTENDS Integers, FiniteSets

CONSTANTS Operator,    \* requests of operators
          Runner,      \* runs of the job under way at once
          Letter,      \* records that may be written
          MaxFailures  \* attempts after which a job has failed for good

ASSUME DeadLetterAssumption == MaxFailures \in Nat \ {0}

VARIABLES processed,  \* status of the ProcessedMessage row
          task,       \* the queue's job of the message, whose id is the message's
          stored,     \* the records in Redis
          memory,     \* and in the memory of the API
          op,         \* what each operator's request is doing
          working,    \* what each run of the job is doing
          late,       \* the runs that go on although the queue took the job back
          runs,       \* times the handler has run to its end, up to 2
          excused     \* why it may have run again

letterVars == <<processed, task, working, late, stored, memory, op, runs, excused>>

Resting == [step |-> "idle"]
NoJob == [state |-> "none", tries |-> 0]
Enqueued == [state |-> "waiting", tries |-> 0]

LetterInit ==
  /\ processed = "queued"
  /\ task = Enqueued
  /\ working = [r \in Runner |-> "idle"]
  /\ late = {}
  /\ stored = [l \in Letter |-> "none"]
  /\ memory = stored
  /\ op = [o \in Operator |-> Resting]
  /\ runs = 0
  /\ excused = FALSE

\* saveDlqRecord: memory first; Redis may fail. The whole record is written,
\* whatever has become of it. A script's memory ends with the script.
Save(process, l, status) ==
  /\ memory' = IF process = "api" THEN [memory EXCEPT ![l] = status] ELSE memory
  /\ stored' \in {stored, [stored EXCEPT ![l] = status]}

\* getDeadLetterJob: Redis, or what this process remembers.
Seen(process, l) ==
  (IF stored[l] # "none" THEN {stored[l]} ELSE {}) \cup
  (IF process = "api" THEN {memory[l]} ELSE {"none"})

jobVars == <<processed, task, working, late, runs>>
-----------------------------------------------------------------------------
(* The worker. *)

Works(r, step) == working[r] = step
WorkOn(r, step) == working' = [working EXCEPT ![r] = step]

\* A run is over.  The queue only believes the one that holds the job.
EndTask(r, state) ==
  /\ WorkOn(r, "idle")
  /\ late' = late \ {r}
  /\ task' = IF r \in late THEN task ELSE [task EXCEPT !.state = state]

Start(r) ==
  /\ Works(r, "idle")
  /\ task.state = "waiting"
  /\ task' = [task EXCEPT !.state = "active"]
  /\ WorkOn(r, "starting")
  /\ UNCHANGED <<processed, late, stored, memory, op, runs, excused>>

\* The sender's cursor has reached this message or a newer one.  Where Redis
\* does not say so, the run goes on all the same.
SkipTask(r) ==
  /\ Works(r, "starting")
  /\ EndTask(r, "completed")
  /\ UNCHANGED <<processed, stored, memory, op, runs, excused>>

\* Whether the message was completed before is not looked at.
StartHandler(r) ==
  /\ Works(r, "starting")
  /\ processed' = "processing"
  /\ excused' = (excused \/ r \in late)
  /\ WorkOn(r, "handling")
  /\ UNCHANGED <<task, late, stored, memory, op, runs>>

EndHandler(r) ==
  /\ Works(r, "handling")
  /\ runs' = IF runs < 2 THEN runs + 1 ELSE runs
  /\ excused' = (excused \/ r \in late)
  /\ WorkOn(r, "recording")
  /\ UNCHANGED <<processed, task, late, stored, memory, op>>

\* The update that says so may fail, which is only logged.
MarkCompletion(r, marked) ==
  /\ Works(r, "recording")
  /\ processed' = IF marked THEN "completed" ELSE processed
  /\ excused' = (excused \/ ~ marked)
  /\ WorkOn(r, "ending")
  /\ UNCHANGED <<task, late, stored, memory, op, runs>>

FinishTask(r) ==
  /\ Works(r, "ending")
  /\ EndTask(r, "completed")
  /\ UNCHANGED <<processed, stored, memory, op, runs, excused>>

MoveToDeadLetters ==
  \E l \in Letter : stored[l] = "none" /\ memory[l] = "none" /\ Save("worker", l, "pending")

\* An attempt fails. After the last one the job is kept as failed, and the
\* handler of that event writes a record, which may come to nothing.
Fault(r) ==
  /\ Works(r, "starting") \/ Works(r, "handling")
  /\ WorkOn(r, "idle")
  /\ late' = late \ {r}
  /\ task' = IF r \in late THEN task
             ELSE [state |-> IF task.tries + 1 < MaxFailures THEN "waiting" ELSE "failed",
                   tries |-> task.tries + 1]
  /\ \/ r \notin late /\ task'.state = "failed" /\ MoveToDeadLetters
     \/ UNCHANGED <<stored, memory>>
  /\ UNCHANGED <<processed, op, runs, excused>>

\* The worker dies, or is paused and goes on: the stalled job runs again, once;
\* then it fails without a record, as its attempts are not used up.
StallTask(r) ==
  /\ ~ Works(r, "idle") /\ r \notin late
  /\ task' \in {[task EXCEPT !.state = "waiting"], [task EXCEPT !.state = "failed"]}
  /\ \/ WorkOn(r, "idle") /\ UNCHANGED late
     \/ late' = late \cup {r} /\ UNCHANGED working
  /\ excused' = (excused \/ Works(r, "recording") \/ Works(r, "ending"))
  /\ UNCHANGED <<processed, stored, memory, op, runs>>

\* The queue keeps the last 1000 completed and 5000 failed jobs.
Trim ==
  /\ task.state \in {"failed", "completed"}
  /\ task' = NoJob
  /\ UNCHANGED <<processed, working, late, stored, memory, op, runs, excused>>

RestartApi ==
  /\ memory' = [l \in Letter |-> "none"]
  /\ UNCHANGED <<jobVars, stored, op, excused>>
-----------------------------------------------------------------------------
(* replayDeadLetterJob. *)

OpAt(o, step) == op[o].step = step
Rest(o) == op' = [op EXCEPT ![o] = Resting]

\* The admin API and the script.
Callers == {"api", "script"}

Look(o, process, l) ==
  /\ OpAt(o, "idle")
  /\ \E status \in Seen(process, l) \ {"none", "replayed"} :
       op' = [op EXCEPT ![o] = [step |-> "check", process |-> process, letter |-> l]]
  /\ UNCHANGED <<jobVars, stored, memory, excused>>

GoOn(o, saw) ==
  op' = [op EXCEPT ![o] = [step |-> "send", process |-> op[o].process, letter |-> op[o].letter, saw |-> saw]]

\* (Mutant: whether the message was completed is not asked.)
ReplayUnchecked(o) ==
  /\ OpAt(o, "check")
  /\ GoOn(o, processed)
  /\ UNCHANGED <<jobVars, stored, memory, excused>>

\* A message that was completed is not replayed, but its record is marked; a
\* database that fails is ignored.
CheckReplay(o) ==
  /\ OpAt(o, "check")
  /\ \E saw \in {processed, "nothing"} :
       IF saw = "completed" THEN Save(op[o].process, op[o].letter, "replayed") /\ Rest(o)
       ELSE GoOn(o, saw) /\ UNCHANGED <<stored, memory>>
  /\ UNCHANGED <<jobVars, excused>>

\* Only the script gives a queue. A job whose id the queue still holds is not
\* added. The ghost notes a replay that goes on with an answer out of date.
ReplayJob(o) ==
  /\ OpAt(o, "send")
  /\ IF op[o].process = "script" /\ task = NoJob
     THEN /\ task' = Enqueued
          /\ excused' = (excused \/ (processed = "completed" /\ op[o].saw # "completed"))
     ELSE UNCHANGED <<task, excused>>
  /\ op' = [op EXCEPT ![o].step = "mark"]
  /\ UNCHANGED <<processed, working, late, stored, memory, runs>>

Mark(o) ==
  /\ OpAt(o, "mark")
  /\ Save(op[o].process, op[o].letter, "replayed")
  /\ Rest(o)
  /\ UNCHANGED <<jobVars, excused>>

\* discardDeadLetterJob, whatever the status.
Discard(o, l) ==
  /\ OpAt(o, "idle")
  /\ Seen("api", l) # {"none"}
  /\ op' = [op EXCEPT ![o] = [step |-> "discard", process |-> "api", letter |-> l]]
  /\ UNCHANGED <<jobVars, stored, memory, excused>>

Discarded(o) ==
  /\ OpAt(o, "discard")
  /\ Save("api", op[o].letter, "discarded")
  /\ Rest(o)
  /\ UNCHANGED <<jobVars, excused>>

OperatorDies(o) ==
  /\ ~ OpAt(o, "idle")
  /\ Rest(o)
  /\ UNCHANGED <<jobVars, stored, memory, excused>>

LetterNext ==
  \/ \E r \in Runner :
       \/ Start(r) \/ SkipTask(r) \/ StartHandler(r) \/ EndHandler(r)
       \/ \E marked \in BOOLEAN : MarkCompletion(r, marked)
       \/ FinishTask(r) \/ Fault(r) \/ StallTask(r)
  \/ Trim \/ RestartApi
  \/ \E o \in Operator :
       \/ CheckReplay(o) \/ ReplayJob(o) \/ Mark(o) \/ Discarded(o) \/ OperatorDies(o)
       \/ \E l \in Letter : Discard(o, l) \/ \E process \in Callers : Look(o, process, l)

LetterSpec == LetterInit /\ [][LetterNext]_letterVars
-----------------------------------------------------------------------------
\* However often a dead letter is replayed, discarded and replayed again, by
\* whom and from whichever copy of it, its message is handled to the end once
\* ("Duplicate payment execution prevented", dlq.service.js:195-203), unless
\* the completion was not written, the database did not answer the check, the
\* message was completed between a replay's check and its job, or the queue
\* took the job back from a run that had handled the message or went on to.
DoneOnce == runs > 1 => excused
=============================================================================
