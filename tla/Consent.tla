------------------------------ MODULE Consent ------------------------------
(***************************************************************************)
(* Messaging consent: the keywords STOP and START, changes by category,    *)
(* and the question a message asks before it is sent                       *)
(* (compliance/consent.service.js, compliance/messagingConsent.js).        *)
(*                                                                         *)
(* A keyword writes the flag of the user and then a record for each        *)
(* optional category, each followed by its row of the audit log, one       *)
(* update after another. The flag's column is in the database, but not in  *)
(* schema.prisma: a client generated from it refuses the update, and never *)
(* reads the column. The model has either client.                          *)
(***************************************************************************)
EXTENDS Integers, FiniteSets, Sequences

CONSTANT Keyword  \* keywords the customer sends, and requests by category

Required == {"transactional", "security"}
Optional == {"service", "product", "marketing"}
Categories == Required \cup Optional

\* Service messages are on until refused, the others off until allowed.
DefaultStatus(category) == IF category \in {"product", "marketing"} THEN "denied" ELSE "granted"

Order == <<"service", "product", "marketing">>

VARIABLES flagged,  \* whether the client knows the flag of the user
          flag,     \* User.messagingConsent, or "unset" when it is not read
          record,   \* status of each category's record, or "unset"
          audited,  \* audit rows of the categories
          keyword,  \* progress of each request: what it says, what is next
          settled,  \* what the last keyword that ended said
          broken    \* requests overlapped, or one died

consentVars == <<flagged, flag, record, audited, keyword, settled, broken>>

NotSent == [says |-> "nothing", next |-> 0, todo |-> << >>]

ConsentInit ==
  /\ flagged \in BOOLEAN
  /\ flag = IF flagged THEN "opted_in" ELSE "unset"
  /\ record = [c \in Optional |-> "unset"]
  /\ audited = [c \in Optional |-> "unset"]
  /\ keyword = [k \in Keyword |-> NotSent]
  /\ settled = "nothing" /\ broken = FALSE

\* resolveCategoryStatus: required, then the record, the flag, the default.
ResolveCategoryStatus(category) ==
  CASE category \in Required -> "granted"
    [] category \in Optional /\ record[category] # "unset" -> record[category]
    [] category \in Optional /\ record[category] = "unset" ->
         IF flag = "opted_out" THEN "denied"
         ELSE IF flag = "opted_in" THEN "granted" ELSE DefaultStatus(category)

\* isMessagePermitted; unknown categories are refused.
Permitted(category) == category \in Categories /\ ResolveCategoryStatus(category) = "granted"

Running == {k \in Keyword : keyword[k].todo # << >>}
Says(consent) == IF consent = "opted_out" THEN "denied" ELSE "granted"

\* A keyword arrives: the flag is written first. Without it in the client the
\* update throws, and nothing else happens.
Receive(k, consent) ==
  /\ keyword[k] = NotSent
  /\ IF flagged
     THEN /\ flag' = consent
          /\ keyword' = [keyword EXCEPT ![k] = [says |-> Says(consent), next |-> 1, todo |-> Order]]
     ELSE /\ keyword' = [keyword EXCEPT ![k].says = "refused"]
          /\ UNCHANGED flag
  /\ broken' = (broken \/ Running # {})
  /\ settled' = "nothing"
  /\ UNCHANGED <<flagged, record, audited>>

\* setCategoryConsent of one category, by the customer or an agent. A required
\* category cannot be refused, so the request is dropped.
SetCategory(k, category, status) ==
  /\ keyword[k] = NotSent
  /\ IF category \in Required
     THEN keyword' = [keyword EXCEPT ![k].says = "refused"]
     ELSE keyword' = [keyword EXCEPT ![k] = [says |-> status, next |-> 1, todo |-> <<category>>]]
  /\ broken' = (broken \/ Running # {})
  /\ settled' = "nothing"
  /\ UNCHANGED <<flagged, flag, record, audited>>

Category(k) == keyword[k].todo[(keyword[k].next + 1) \div 2]

\* The record of the next category ...
Upsert(k) ==
  /\ k \in Running /\ keyword[k].next % 2 = 1
  /\ record' = [record EXCEPT ![Category(k)] = keyword[k].says]
  /\ keyword' = [keyword EXCEPT ![k].next = @ + 1]
  /\ UNCHANGED <<flagged, flag, audited, settled, broken>>

\* (Mutant: the first category is the last.)
AuditOnce(k) ==
  /\ k \in Running /\ keyword[k].next % 2 = 0
  /\ audited' = [audited EXCEPT ![Category(k)] = keyword[k].says]
  /\ keyword' = [keyword EXCEPT ![k].todo = << >>]
  /\ settled' = IF Len(keyword[k].todo) = 3 THEN keyword[k].says ELSE settled
  /\ UNCHANGED <<flagged, flag, record, broken>>

\* ... and its row of the audit log, in an update of its own.
Audit(k) ==
  /\ k \in Running /\ keyword[k].next % 2 = 0
  /\ audited' = [audited EXCEPT ![Category(k)] = keyword[k].says]
  /\ LET last == keyword[k].next = 2 * Len(keyword[k].todo)
         all == Len(keyword[k].todo) = Cardinality(Optional)
     IN /\ keyword' = [keyword EXCEPT ![k].next = @ + 1,
                                      ![k].todo = IF last THEN << >> ELSE @]
        /\ settled' = IF last /\ all THEN keyword[k].says ELSE settled
  /\ UNCHANGED <<flagged, flag, record, broken>>

\* The process ends, or an update fails.
KeywordDies(k) ==
  /\ k \in Running
  /\ keyword' = [keyword EXCEPT ![k].todo = << >>]
  /\ broken' = TRUE
  /\ UNCHANGED <<flagged, flag, record, audited, settled>>

ConsentNext ==
  \E k \in Keyword :
    \/ \E consent \in {"opted_out", "opted_in"} : Receive(k, consent)
    \/ \E c \in Categories : \E status \in {"granted", "denied"} :
         (c \in Required => status = "denied") /\ SetCategory(k, c, status)
    \/ Upsert(k) \/ Audit(k) \/ KeywordDies(k)

ConsentSpec == ConsentInit /\ [][ConsentNext]_consentVars
-----------------------------------------------------------------------------
\* After a keyword every optional category is as it says, and the required
\* ones still permitted (consent.service.js "Apply a STOP/START keyword across
\* every optional category"); and what a category's record says is in the audit
\* log. Both but for requests that overlapped or died on the way, and while
\* one runs.
KeywordApplies ==
  Running = {} =>
    \/ broken
    \/ /\ settled # "nothing" =>
            \A c \in Categories : Permitted(c) = (c \in Required \/ settled = "granted")
       /\ \A c \in Optional : audited[c] = record[c]
=============================================================================
