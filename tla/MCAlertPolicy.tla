---------------------------- MODULE MCAlertPolicy -----------------------------
(***************************************************************************)
(* AlertPolicy on a small instance: two backend instances, one tick each.  *)
(***************************************************************************)
EXTENDS AlertPolicy, TLC

CONSTANTS t1, t2, i1, i2

OneTickEach == (t1 :> i1) @@ (t2 :> i2)

===============================================================================
