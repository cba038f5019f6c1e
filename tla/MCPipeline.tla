----------------------------- MODULE MCPipeline -----------------------------
(* The instance of GatewayPipeline for TLC.                                 *)
EXTENDS GatewayPipeline

Files == {"store", "gateway_events", "health_events"}
Sizes == [w \in Files |-> IF w = "store" THEN 2 ELSE 1]
=============================================================================
