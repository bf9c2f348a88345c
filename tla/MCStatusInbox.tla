--------------------------- MODULE MCStatusInbox ---------------------------
(***************************************************************************)
(* Two callbacks of the first message, with different stamps.              *)
(***************************************************************************)
EXTENDS StatusInbox

Delivered == [id |-> 1, status |-> "delivered"]
Read == [id |-> 1, status |-> "read"]

TwoCallbacks == {Delivered, Read}
Stamps == [sent |-> 0, delivered |-> 0, read |-> 1, failed |-> 1]
=============================================================================
