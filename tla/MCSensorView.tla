---------------------------- MODULE MCSensorView ----------------------------
(* Two keys and two modes, the second of which waits with a timeout.        *)
EXTENDS SensorView

MCModes == <<"ACC", "MAG">>
=============================================================================
