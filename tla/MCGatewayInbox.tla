--------------------------- MODULE MCGatewayInbox ---------------------------
(* Small instances of GatewayInbox for TLC.                                *)
EXTENDS GatewayInbox

CONSTANTS g1

OneGroup == [e \in Events |-> g1]
=============================================================================
