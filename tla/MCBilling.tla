------------------------------- MODULE MCBilling ------------------------------
(***************************************************************************)
(* Billing on a small instance: two subscriptions, one of which may end,   *)
(* and two requests at a time.                                             *)
(***************************************************************************)
EXTENDS Billing, TLC

===============================================================================
