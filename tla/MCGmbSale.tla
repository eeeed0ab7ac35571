------------------------------ MODULE MCGmbSale ------------------------------
(***************************************************************************)
(* GmbSale for TLC: two orders of 1 GMB for 5 cents, one of them for a     *)
(* contract that may refuse the coins.                                     *)
(***************************************************************************)
EXTENDS GmbSale

\* The price, a webhook without the fields, and what must be refused.
Paid(a, c) == [amount |-> a, currency |-> c]
MCPayments == {Paid({5}, {"EUR"}), Paid({}, {}), Paid({3}, {"EUR"})}

MCBuyer == [o \in Orders |-> IF o = "o2" THEN "contract" ELSE "wallet"]

\* server.js 121: the webhook is "idempotent": an order is paid out once.
DispensedOnce == \A o \in Orders : dispensed[o] <= 1
=============================================================================
