-------------------------------- MODULE MCHub --------------------------------
(* Model-checking instances of Hub: HubSafety, HubLive and HubDrain.cfg. *)
EXTENDS Hub
=============================================================================
