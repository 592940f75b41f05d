--------------------------- MODULE MCGatewayDrain ---------------------------
(* Instance of GatewayProcess for TLC.                                      *)
EXTENDS GatewayProcess
=============================================================================
