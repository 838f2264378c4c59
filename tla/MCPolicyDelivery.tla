--------------------------- MODULE MCPolicyDelivery ---------------------------
(* One wanted channel: the claims of two channels never meet.                *)
EXTENDS PolicyDelivery
=============================================================================
