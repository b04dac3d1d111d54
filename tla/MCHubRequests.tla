--------------------------- MODULE MCHubRequests ---------------------------
(***************************************************************************)
(* Two buttons and two refreshes under way at once, so that one can be a   *)
(* button ahead of the other, with an event poll and a press in between.   *)
(***************************************************************************)
EXTENDS HubRequests
=============================================================================
