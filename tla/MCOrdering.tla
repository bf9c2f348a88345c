----------------------------- MODULE MCOrdering -----------------------------
(***************************************************************************)
(* Instances for TLC, for what must come to an end: two messages of one    *)
(* sender and two runs of their jobs at once, or two sweeps of the deposit *)
(* poller at one deposit. The two share no state, so a behaviour is one of *)
(* one of them, chosen at the start.                                       *)
(***************************************************************************)
EXTENDS Ordering

CONSTANTS older, newer,
          Call, MaxPosts, MaxStamp, MaxToken, Deposit, PageSize, MaxFaults

VARIABLES part, notification, send, accepted, ledger, depositCursor, starts, deposit, poll,
          posted, faults

Poller == INSTANCE Deposits WITH cursor <- depositCursor, Inbound <- Deposit

Times == [m \in {older, newer} |-> IF m = older THEN 1 ELSE 2]

depositVars ==
  <<notification, send, accepted, ledger, depositCursor, starts, deposit, poll, posted, faults>>
MCVars == <<part, ordVars, depositVars>>

MCInit == part \in {"jobs", "deposits"} /\ OrdInit /\ Poller!Init

Only(name) == part = name /\ UNCHANGED part

MCNext ==
  \/ Only("jobs") /\ OrdNext /\ UNCHANGED depositVars
  \/ Only("deposits") /\ Poller!Next /\ UNCHANGED ordVars

MCSpec == MCInit /\ [][MCNext]_MCVars

\* The fairness of FairOrdSpec and of Deposits!FairSpec, each for its part.
FairMCSpec ==
  /\ MCSpec
  /\ \A w \in Worker : WF_MCVars(Only("jobs") /\ Advance(w) /\ UNCHANGED depositVars)
  /\ WF_MCVars(Only("jobs") /\ LockExpires /\ UNCHANGED depositVars)
  /\ \A s \in Call : WF_MCVars(Only("deposits") /\ Poller!SweepStep(s) /\ UNCHANGED ordVars)

DepositsSettle == Poller!DepositsSettle
=============================================================================
