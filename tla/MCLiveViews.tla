---------------------------- MODULE MCLiveViews ----------------------------
(* An instance of LiveViews for TLC. *)
EXTENDS LiveViews

CONSTANTS viewer, alerts, s1, s2, k1, k2

=============================================================================
