--------------------------- MODULE PinHandlerMC ---------------------------
(* PinHandler, composed with PinEventDumper, on small instances. *)
EXTENDS PinHandler
=============================================================================
