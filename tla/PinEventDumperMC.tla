------------------------- MODULE PinEventDumperMC -------------------------
(* PinEventDumper on small instances; events are model values. *)
EXTENDS PinEventDumper
=============================================================================
