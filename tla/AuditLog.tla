------------------------------ MODULE AuditLog ------------------------------
(***************************************************************************)
(* The two hash chains: the audit log (common/audit.service.js) and the    *)
(* workflow events (common/event.service.js). A writer reads the row with  *)
(* the greatest id and stores, in the same transaction but without a lock, *)
(* a row that holds that row's hash and its own. Both columns are unique.  *)
(*                                                                         *)
(* A hash is a number, 0 for a null column. An id is the time of the       *)
(* writing process, so the rows are a sequence in the order of their ids;  *)
(* the row of a process whose clock is behind may come before older ones.  *)
(***************************************************************************)
EXTENDS Integers, Sequences, FiniteSets, SequencesExt

CONSTANTS Writer,   \* transactions that add a row, one at a time each
          Lagging,  \* writers of a process whose clock is behind
          MaxRows   \* bound of the runs: rows of one log

ASSUME AuditAssumption == Lagging \subseteq Writer /\ MaxRows \in Nat \ {0}

VARIABLES ledger,   \* which of the two chains this is
          rows,     \* the rows, in the order of their ids
          pen,      \* the hash each writer has read, or NoPen
          seals,    \* hashes computed so far
          mixed     \* what has disturbed the chain

auditVars == <<ledger, rows, pen, seals, mixed>>

NoPen == -1
Undisturbed == [unsealed |-> FALSE, raced |-> FALSE, lagged |-> FALSE]

AuditInit ==
  /\ ledger \in {"audit", "events"}
  /\ rows = <<>>
  /\ pen = [w \in Writer |-> NoPen]
  /\ seals = 0
  /\ mixed = Undisturbed

LastHash == IF rows = <<>> THEN 0 ELSE Last(rows).hash

ReadLast(w) ==
  /\ pen[w] = NoPen
  /\ pen' = [pen EXCEPT ![w] = LastHash]
  /\ UNCHANGED <<ledger, rows, seals, mixed>>

\* Ids drawn after the row that was read are greater than its id, by the same
\* clock.
Places(w) ==
  {i \in 1 .. Len(rows) + 1 :
     w \in Lagging \/ pen[w] = 0 \/ \E j \in 1 .. i - 1 : rows[j].hash = pen[w]}

\* (Mutant: the column is not unique.)
StoreAnyway(w) ==
  /\ pen[w] # NoPen /\ Len(rows) < MaxRows
  /\ seals' = seals + 1
  /\ \E i \in Places(w) : rows' = InsertAt(rows, i, [hash |-> seals', prev |-> pen[w]])
  /\ mixed' = [mixed EXCEPT !.raced = @ \/ (pen[w] = 0 /\ rows # <<>>),
                            !.lagged = @ \/ w \in Lagging]
  /\ pen' = [pen EXCEPT ![w] = NoPen]
  /\ UNCHANGED ledger

\* A second row on one predecessor is refused by the unique column; both
\* services log that, answer null, and their callers go on.
Store(w) ==
  /\ pen[w] # NoPen
  /\ IF pen[w] # 0 /\ \E i \in DOMAIN rows : rows[i].prev = pen[w]
     THEN UNCHANGED <<rows, seals, mixed>>
     ELSE /\ Len(rows) < MaxRows
          /\ seals' = seals + 1
          /\ \E i \in Places(w) : rows' = InsertAt(rows, i, [hash |-> seals', prev |-> pen[w]])
          /\ mixed' = [mixed EXCEPT !.raced = @ \/ (pen[w] = 0 /\ rows # <<>>),
                                    !.lagged = @ \/ w \in Lagging]
  /\ pen' = [pen EXCEPT ![w] = NoPen]
  /\ UNCHANGED ledger

\* The writer's transaction fails, or its process dies.
AppendFails(w) ==
  /\ pen[w] # NoPen
  /\ pen' = [pen EXCEPT ![w] = NoPen]
  /\ UNCHANGED <<ledger, rows, seals, mixed>>

\* Consent, PIN, compliance, retention, the reconciler and the dead-letter
\* queue create audit rows of their own, which have neither hash.
CreateUnsealed ==
  /\ ledger = "audit" /\ Len(rows) < MaxRows
  /\ rows' = Append(rows, [hash |-> 0, prev |-> 0])
  /\ mixed' = [mixed EXCEPT !.unsealed = TRUE]
  /\ UNCHANGED <<ledger, pen, seals>>

AuditNext ==
  \/ \E w \in Writer : ReadLast(w) \/ Store(w) \/ AppendFails(w)
  \/ CreateUnsealed

AuditSpec == AuditInit /\ [][AuditNext]_auditVars
-----------------------------------------------------------------------------
Genesis == {i \in DOMAIN rows : rows[i].prev = 0}

\* What the two verifications say of the links. (Both also recompute each
\* hash, from columns that hold null, or reordered keys, where the writer had
\* nothing, or its own order: see the README.)
EventErrors ==
  (IF \E i \in DOMAIN rows : rows[i].prev \notin {0} \cup {rows[j].hash : j \in DOMAIN rows}
   THEN {"broken"} ELSE {})
  \cup (IF Cardinality(Genesis) > 1 THEN {"many"} ELSE {})
AuditErrors == EventErrors \cup (IF rows # <<>> /\ Genesis = {} THEN {"none"} ELSE {})

ChainErrors == IF ledger = "audit" THEN AuditErrors ELSE EventErrors

\* However the writers interleave, the log is one chain in the order of its
\* ids and the hourly check finds its links whole, unless the first writers
\* raced, a row was created without a hash, or a clock is behind
\* (audit.service.js:22-39, event.service.js:116-138).
LogIsChain ==
  mixed = Undisturbed =>
    /\ \A i \in 2 .. Len(rows) : rows[i].prev = rows[i - 1].hash
    /\ ChainErrors = {}

\* A writer alone always stores its row: nothing is chained yet on the row it
\* will read. With a clock behind there may be, and then no row is ever
\* stored again (audit.service.js:45-48 only logs that).
HeadIsFree ==
  ~ mixed.lagged => LastHash = 0 \/ \A i \in DOMAIN rows : rows[i].prev # LastHash

\* The log is whole and goes on (audit.service.js, event.service.js).
LogStands == LogIsChain /\ HeadIsFree
=============================================================================
