--------------------------- MODULE MCLiveUpdates ---------------------------
(* An instance of LiveUpdates: the page of a proctor. *)
EXTENDS LiveUpdates

CONSTANT proctor
=============================================================================
