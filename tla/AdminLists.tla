----------------------------- MODULE AdminLists -----------------------------
(***************************************************************************)
(* The lists of the admin dashboard: keyset pages of a table that grows    *)
(* and moves meanwhile (utils/cursorPagination.js, the list handlers of    *)
(* controllers/admin.controller.js) and the page that shows them           *)
(* (apps/admin: useListQuery, Pagination, Users, Transactions, Wallets,    *)
(* KycReview), whose requests may be answered in any order; and the        *)
(* dialogs of the Users page.                                              *)
(***************************************************************************)
EXTENDS Integers, FiniteSets, Sequences

CONSTANTS Ids,         \* ids of rows, which say nothing of their age
          Matching,    \* those whose row matches the filter
          PageSize,    \* rows of a page
          MaxStamp,    \* bound: the clock
          MaxFetches,  \* bound: requests of the page
          Listed,      \* customers whose rows have buttons
          MaxLookups   \* bound: how often an onboarding status is looked up

ASSUME ListAssumption ==
  /\ Ids \subseteq Nat /\ IsFiniteSet(Ids) /\ Matching \subseteq Ids /\ "nobody" \notin Listed
  /\ PageSize \in Nat \ {0} /\ {MaxStamp, MaxFetches, MaxLookups} \subseteq Nat

VARIABLES sortedBy, \* the time each row is sorted by
          clockNow, \* the time
          list,     \* the list that is looked at
          fetches,  \* its requests, the last for the address of the browser
          loading,  \* is the table hidden behind the spinner
          shown,    \* the answer in the table, with what was asked
          walk,     \* (ghost) what the pages since the first one have shown
          panel,    \* the dialog with the onboarding status of a customer
          lookups,  \* the requests for one
          forms,    \* the dialogs that ask before an account is changed
          order     \* the change that is being sent

listVars == <<sortedBy, clockNow, list, fetches, loading, shown, walk>>
dialogVars == <<panel, lookups, forms, order>>

(* The lists: the time they are sorted by; their filters, on columns       *)
(* ("field") or an OR of several (the phone of a wallet, an identifier);   *)
(* and whether the page drops the answers of requests it has left.         *)

UsersList == [sort |-> "createdAt", filters |-> {"none", "field"}, guarded |-> FALSE]
WalletsList == [sort |-> "createdAt", filters |-> {"none", "field", "or"}, guarded |-> FALSE]
TransactionsList == [sort |-> "createdAt", filters |-> {"none", "field", "or"}, guarded |-> FALSE]
AuditLogsList == [sort |-> "createdAt", filters |-> {"none", "field", "or"}, guarded |-> FALSE]
KycProfilesList == [sort |-> "updatedAt", filters |-> {"none", "field"}, guarded |-> TRUE]

Lists == {UsersList, WalletsList, TransactionsList, AuditLogsList, KycProfilesList}

NotListed == -1
NoKey == <<-1, -1>>

FirstPage(filter) == [filter |-> filter, dir |-> "first", cursor |-> NoKey]
Requested(q, from) == [step |-> "asked", url |-> q, from |-> from]

ListInit ==
  /\ sortedBy \in [Ids -> {NotListed, 0}]
  /\ clockNow = 0
  /\ list \in Lists
  /\ fetches \in {<<Requested(FirstPage(filter), 0)>> : filter \in list.filters}
  /\ loading = TRUE
  /\ shown = [url |-> FirstPage("none"), items |-> {}, next |-> NoKey, prev |-> NoKey, number |-> 0]
  /\ walk = [owed |-> {}, seen |-> {}, twice |-> FALSE, broken |-> TRUE]

ListedRows == {r \in Ids : sortedBy[r] # NotListed}
Key(r) == <<sortedBy[r], r>>
Matches(filter, r) == filter = "none" \/ r \in Matching
-----------------------------------------------------------------------------
(* The table. *)

TimeTicks ==
  /\ clockNow < MaxStamp
  /\ clockNow' = clockNow + 1
  /\ UNCHANGED <<sortedBy, list, fetches, loading, shown, walk>>

\* Rows may carry the same time, and one committed later an earlier one.
InsertRow(r, age) ==
  /\ sortedBy[r] = NotListed
  /\ clockNow - age >= 0
  /\ sortedBy' = [sortedBy EXCEPT ![r] = clockNow - age]
  /\ UNCHANGED <<clockNow, list, fetches, loading, shown, walk>>

\* A row that is sorted by its last update moves.
TouchRow(r) ==
  /\ list.sort = "updatedAt"
  /\ r \in ListedRows
  /\ sortedBy' = [sortedBy EXCEPT ![r] = clockNow]
  /\ UNCHANGED <<clockNow, list, fetches, loading, shown, walk>>
-----------------------------------------------------------------------------
(* cursorQuery. *)

Older(k, l) == k[1] < l[1] \/ (k[1] = l[1] /\ k[2] < l[2])

\* (Mutant: rows of one time are not told apart.)
BeyondByTime(q, k) ==
  \/ q.dir = "first"
  \/ (q.dir = "after" /\ k[1] < q.cursor[1])
  \/ (q.dir = "before" /\ k[1] > q.cursor[1])

Beyond(q, k) ==
  \/ q.dir = "first"
  \/ (q.dir = "after" /\ Older(k, q.cursor))
  \/ (q.dir = "before" /\ Older(q.cursor, k))

\* The OR of the cursor takes the place of the filter's own.
Where(q) ==
  {Key(r) : r \in {x \in ListedRows :
     /\ Beyond(q, Key(x))
     /\ Matches(q.filter, x) \/ (q.filter = "or" /\ q.dir # "first")}}

\* limit + 1 rows are read, the one too many tells that there are more.
Nearest(q, keys) ==
  {k \in keys : Cardinality({l \in keys : IF q.dir = "before" THEN Older(l, k) ELSE Older(k, l)}) < PageSize}
Newest(keys) == CHOOSE k \in keys : \A l \in keys \ {k} : Older(l, k)
Oldest(keys) == CHOOSE k \in keys : \A l \in keys \ {k} : Older(k, l)

CursorQuery(q) ==
  LET keys == Where(q)
      page == Nearest(q, keys)
      hasMore == page # keys
  IN IF page = {} THEN [items |-> {}, next |-> NoKey, prev |-> NoKey]
     ELSE [items |-> page,
           next |-> IF q.dir = "before" \/ hasMore THEN Oldest(page) ELSE NoKey,
           prev |-> IF q.dir = "after" \/ (q.dir = "before" /\ hasMore) THEN Newest(page) ELSE NoKey]

\* The handler's query; with it the ghost takes what the table then has to show.
ServeList(n) ==
  /\ n \in DOMAIN fetches /\ fetches[n].step = "asked"
  /\ LET q == fetches[n].url
     IN fetches' = [fetches EXCEPT ![n] =
          [step |-> "served", url |-> q, from |-> fetches[n].from, answer |-> CursorQuery(q),
           owed |-> {Key(r) : r \in {x \in ListedRows : Matches(q.filter, x)}}]]
  /\ UNCHANGED <<sortedBy, clockNow, list, loading, shown, walk>>
-----------------------------------------------------------------------------
(* The page. A change of the address asks anew.                            *)

Url == fetches[Len(fetches)].url

GoTo(q) ==
  /\ Len(fetches) < MaxFetches /\ q # Url
  /\ fetches' = Append(fetches, Requested(q, shown.number))
  /\ loading' = TRUE
  /\ UNCHANGED <<sortedBy, clockNow, list, shown, walk>>

\* The filters stay within reach while the page loads (KycReview hides its own);
\* the browser's Back does always.
SetFilter(filter) == (list.guarded => ~ loading) /\ GoTo(FirstPage(filter))
GoBack(n) == n \in DOMAIN fetches /\ GoTo(fetches[n].url)

\* The cursors are those of the table, the filter is that of the address.
Cursored(dir, cursor) == [filter |-> Url.filter, dir |-> dir, cursor |-> cursor]
GoNext == ~ loading /\ shown.next # NoKey /\ GoTo(Cursored("after", shown.next))
GoPrev == ~ loading /\ shown.prev # NoKey /\ GoTo(Cursored("before", shown.prev))

\* A walk is a first page and what Next and Prev lead to from the page before.
Walked(f) ==
  LET follows == f.from = shown.number /\ f.url.filter = shown.url.filter
  IN CASE f.url.dir = "first" ->
            [owed |-> f.owed, seen |-> f.answer.items, twice |-> FALSE, broken |-> FALSE]
       [] f.url.dir = "after" /\ follows /\ f.url.cursor = shown.next ->
            [walk EXCEPT !.seen = @ \cup f.answer.items, !.twice = @ \/ f.answer.items \cap walk.seen # {}]
       [] f.url.dir = "before" /\ follows /\ f.url.cursor = shown.prev ->
            [walk EXCEPT !.seen = {k \in @ \cup f.answer.items : ~ Older(k, f.answer.next)}]
       [] OTHER -> [walk EXCEPT !.broken = TRUE]

Show(n) ==
  LET f == fetches[n]
  IN /\ shown' = [url |-> f.url, items |-> f.answer.items, next |-> f.answer.next,
                  prev |-> f.answer.prev, number |-> n]
     /\ walk' = Walked(f)

Over(n) == fetches' = [fetches EXCEPT ![n] = [step |-> "over", url |-> @.url]]

\* KycReview drops the answer of a request it has left; the others show it.
ShowAnswer(n) ==
  /\ n \in DOMAIN fetches /\ fetches[n].step = "served"
  /\ IF list.guarded /\ n # Len(fetches)
     THEN UNCHANGED <<loading, shown, walk>>
     ELSE Show(n) /\ loading' = FALSE
  /\ Over(n)
  /\ UNCHANGED <<sortedBy, clockNow, list>>

\* What was in the table stays there.
FetchFails(n) ==
  /\ n \in DOMAIN fetches /\ fetches[n].step \in {"asked", "served"}
  /\ fetches' = [fetches EXCEPT ![n] = [step |-> "failed", url |-> @.url]]
  /\ loading' = (loading /\ list.guarded /\ n # Len(fetches))
  /\ UNCHANGED <<sortedBy, clockNow, list, shown, walk>>

ListNext ==
  \/ TimeTicks
  \/ \E r \in Ids : \/ TouchRow(r)
                    \/ \E age \in {0, 1} : InsertRow(r, age)
  \/ \E n \in 1 .. MaxFetches : ServeList(n) \/ ShowAnswer(n) \/ FetchFails(n) \/ GoBack(n)
  \/ \E filter \in list.filters : SetFilter(filter)
  \/ GoNext \/ GoPrev

ListSpec == ListInit /\ [][ListNext]_listVars
-----------------------------------------------------------------------------
(* The dialogs over the list of users (Users). An open one covers the rows *)
(* and their buttons, and can be closed while its request is under way.    *)

Nobody == "nobody"
Changes == {"deactivate", "reactivate"}

\* notes: for whom they were written; kept: they are those of a dialog called off.
EmptyForm == [of |-> Nobody, notes |-> Nobody, kept |-> FALSE]
NoOrder == [step |-> "none"]

DialogInit ==
  /\ panel = [of |-> Nobody, data |-> Nobody, loading |-> FALSE]
  /\ lookups = << >>
  /\ forms = [c \in Changes |-> EmptyForm]
  /\ order = NoOrder

Uncovered == panel.of = Nobody /\ \A c \in Changes : forms[c].of = Nobody

ViewOnboarding(u) ==
  /\ Uncovered /\ Len(lookups) < MaxLookups
  /\ panel' = [panel EXCEPT !.of = u, !.loading = TRUE]
  /\ lookups' = Append(lookups, [of |-> u, step |-> "asked"])
  /\ UNCHANGED <<forms, order>>

\* The data go with the dialog, the request does not.
CloseOnboarding ==
  /\ panel.of # Nobody
  /\ panel' = [panel EXCEPT !.of = Nobody, !.data = Nobody]
  /\ lookups' = [n \in DOMAIN lookups |->
       IF lookups[n].step = "asked" THEN [lookups[n] EXCEPT !.step = "left"] ELSE lookups[n]]
  /\ UNCHANGED <<forms, order>>

\* Whose stage, next step and checkpoints are in the open dialog.
PanelShows == IF panel.of = Nobody \/ panel.loading THEN Nobody ELSE panel.data

UnderWay(n) == n \in DOMAIN lookups /\ lookups[n].step \in {"asked", "left"}

\* Whatever dialog is open now, it shows what comes.
OnboardingComes(n) ==
  /\ UnderWay(n)
  /\ panel' = [panel EXCEPT !.data = lookups[n].of, !.loading = FALSE]
  /\ lookups' = [lookups EXCEPT ![n].step = IF @ = "left" THEN "late" ELSE "over"]
  /\ UNCHANGED <<forms, order>>

OnboardingFails(n) ==
  /\ UnderWay(n)
  /\ panel' = [panel EXCEPT !.loading = FALSE]
  /\ lookups' = [lookups EXCEPT ![n].step = "failed"]
  /\ UNCHANGED <<forms, order>>

\* Which of the two buttons a row has depends on how old the table is.
AskChange(c, u) ==
  /\ Uncovered
  /\ forms' = [forms EXCEPT ![c].of = u]
  /\ UNCHANGED <<panel, lookups, order>>

WriteNotes(c) ==
  /\ forms[c].of # Nobody
  /\ forms' = [forms EXCEPT ![c].notes = forms[c].of, ![c].kept = FALSE]
  /\ UNCHANGED <<panel, lookups, order>>

\* Cancel leaves the notes for whoever is next.
CallOff(c) ==
  /\ forms[c].of # Nobody
  /\ forms' = [forms EXCEPT ![c].of = Nobody, ![c].kept = forms[c].notes # Nobody]
  /\ UNCHANGED <<panel, lookups, order>>

\* One change at a time, of either kind; a reactivation has to be explained.
SendChange(c) ==
  /\ forms[c].of # Nobody /\ order = NoOrder
  /\ c = "reactivate" => forms[c].notes # Nobody
  /\ order' = [step |-> "sent", change |-> c, form |-> forms[c]]
  /\ UNCHANGED <<panel, lookups, forms>>

\* The dialog of its kind is closed and emptied, whoever it is about by now;
\* then the list is read again.
ChangeSucceeds ==
  /\ order.step = "sent"
  /\ forms' = [forms EXCEPT ![order.change] = EmptyForm]
  /\ order' = [order EXCEPT !.step = "reading"]
  /\ UNCHANGED <<panel, lookups>>

ChangeRefused ==
  /\ order.step = "sent"
  /\ order' = NoOrder
  /\ UNCHANGED <<panel, lookups, forms>>

ListRead ==
  /\ order.step = "reading"
  /\ order' = NoOrder
  /\ UNCHANGED <<panel, lookups, forms>>

DialogNext ==
  \/ \E u \in Listed : ViewOnboarding(u) \/ \E c \in Changes : AskChange(c, u)
  \/ CloseOnboarding
  \/ \E n \in 1 .. MaxLookups : OnboardingComes(n) \/ OnboardingFails(n)
  \/ \E c \in Changes : WriteNotes(c) \/ CallOff(c) \/ SendChange(c)
  \/ ChangeSucceeds \/ ChangeRefused \/ ListRead

DialogSpec == DialogInit /\ [][DialogNext]_dialogVars
-----------------------------------------------------------------------------
\* Who walks from the first page to one without a next has seen every matching
\* row the table had at the start and that was not updated since, and none
\* twice ("new inserts never shift the window", cursorPagination.js:6), at
\* whatever pace rows come in, and also if some of the steps went back. A row
\* that does not match is only seen where the cursor has displaced an OR.
WalkIsWhole ==
  ~ walk.broken =>
    /\ shown.next = NoKey =>
         \A k \in walk.owed : k \in walk.seen \/ sortedBy[k[2]] # k[1]
    /\ ~ walk.twice
    /\ \A k \in shown.items : \/ Matches(shown.url.filter, k[2])
                              \/ shown.url.filter = "or" /\ shown.url.dir # "first"

\* A page that drops what it has left shows, once nothing is under way, what its
\* address asks for, or what it showed before a failure.
AddressIsShown ==
  list.guarded /\ fetches[Len(fetches)].step = "over" => shown.url = Url

\* A dialog shows the onboarding of the customer it is about, unless the answer
\* for another came after that one's dialog was closed, and it does not wait for
\* nothing.
DialogTells ==
  /\ PanelShows \notin {Nobody, panel.of} =>
       \E n \in DOMAIN lookups : lookups[n].step = "late" /\ lookups[n].of = PanelShows
  /\ panel.loading => \E n \in DOMAIN lookups : UnderWay(n)

\* An account is changed with the notes written about it, unless those of a
\* dialog called off were left standing.
NotesBelong ==
  order.step = "sent" => order.form.notes \in {Nobody, order.form.of} \/ order.form.kept

\* What the list and the dialogs over it show is what was asked for.
ListsTell == WalkIsWhole /\ AddressIsShown /\ DialogTells /\ NotesBelong
=============================================================================
