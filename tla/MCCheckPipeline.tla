---------------------------- MODULE MCCheckPipeline ---------------------------
(***************************************************************************)
(* CheckPipeline on small instances: two instances with one tick each.     *)
(***************************************************************************)
EXTENDS CheckPipeline, TLC

CONSTANTS t1, t2, i1, i2

OneTickEach == (t1 :> i1) @@ (t2 :> i2)

JustOne == t1 :> i1

Interchangeable == Permutations(Ids) \cup Permutations(Monitors) \cup Permutations(Consumers)

===============================================================================
