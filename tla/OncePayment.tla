---------------------------- MODULE OncePayment ----------------------------
(***************************************************************************)
(* What an idempotency key promises: of all the requests that carry it, at *)
(* most one ever asks the wallet to pay.                                   *)
(***************************************************************************)
CONSTANT Request
VARIABLE payer  \* the requests that asked the wallet to pay

Init == payer = {}

Pay(r) ==
  /\ payer = {}
  /\ payer' = {r}

Next == \E r \in Request : Pay(r)

Spec == Init /\ [][Next]_payer
=============================================================================
