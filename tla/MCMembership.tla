----------------------------- MODULE MCMembership -----------------------------
(***************************************************************************)
(* Membership on a small instance: three accounts, two workspaces, a link  *)
(* and an invite by e-mail, two requests at a time.                        *)
(***************************************************************************)
EXTENDS Membership, TLC

===============================================================================
