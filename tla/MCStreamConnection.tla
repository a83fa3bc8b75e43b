--------------------------- MODULE MCStreamConnection ---------------------------
(***************************************************************************)
(* StreamConnection for TLC: two streams in one of two orders, so that a   *)
(* reconnect can find the video elsewhere and the audio gone, or appeared. *)
(***************************************************************************)
EXTENDS StreamConnection

MCLayouts == {<<"video", "audio">>, <<"data", "video">>}
=============================================================================
