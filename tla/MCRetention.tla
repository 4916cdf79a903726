----------------------------- MODULE MCRetention ------------------------------
(***************************************************************************)
(* Retention on a small instance: three backend instances, one tick each.  *)
(***************************************************************************)
EXTENDS Retention, TLC

CONSTANTS t1, t2, t3, i1, i2, i3

OneTickEach == (t1 :> i1) @@ (t2 :> i2) @@ (t3 :> i3)

===============================================================================
