------------------------------- MODULE MCSend -------------------------------
(***************************************************************************)
(* Three requests with one key, one of them with other parameters, in two  *)
(* processes.                                                              *)
(***************************************************************************)
EXTENDS IdempotentSend

CONSTANTS r1, r2, r3, api1, api2

Requests == {r1, r2, r3}
Parameters == [r \in Requests |-> IF r = r3 THEN "edited" ELSE "original"]
Processes == [r \in Requests |-> IF r = r1 THEN api1 ELSE api2]
=============================================================================
