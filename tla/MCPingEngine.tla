------------------------------ MODULE MCPingEngine -----------------------------
(***************************************************************************)
(* PingEngine with channels short enough to fill and batches short enough  *)
(* to be cut by each of size, timer and closed channel.                    *)
(***************************************************************************)
EXTENDS PingEngine

===============================================================================
