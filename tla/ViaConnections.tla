--------------------------- MODULE ViaConnections ---------------------------
(***************************************************************************)
(* What is connected to the system VIA: the keyboard provides port A and   *)
(* CA2 and listens to port A, the CRTC provides CA1, and the addressable   *)
(* latch listens to port B.                                                *)
(***************************************************************************)
EXTENDS DataConnectors

VARIABLES pa_provider, ca1_provider, ca2_provider, pa_sub, pb_sub
=============================================================================
