--------------------------- MODULE MCConfigEntry ---------------------------
(***************************************************************************)
(* Two addresses and up to three hubs: enough for the hub to move, for     *)
(* another one to take its address, for official entries to be out of      *)
(* date, and for a twin with the same device ID and another MAC.           *)
(***************************************************************************)
EXTENDS ConfigEntry

CONSTANTS hub, other, twin, h1, h2

Three == {hub, other, twin}
Twins == {hub, twin}
Two   == {h1, h2}
=============================================================================
