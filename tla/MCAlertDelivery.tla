--------------------------- MODULE MCAlertDelivery ----------------------------
(***************************************************************************)
(* AlertDelivery on a small instance: two alerts for a channel, one of     *)
(* them for a webhook as well.                                             *)
(***************************************************************************)
EXTENDS AlertDelivery

CONSTANTS a1, a2, c1, h1

Interests == {<<a1, c1>>, <<a2, c1>>, <<a1, h1>>}

\* Bound: the retry worker has one job at a time, and one at a time has outlived a worker.
OneJobAtWork ==
    \A d, x \in Subscribed :
        d # x => /\ ~(stalled[d] /\ stalled[x])
                 /\ ~({stage[d], stage[x]} \subseteq {"trying", "noted"})

===============================================================================
