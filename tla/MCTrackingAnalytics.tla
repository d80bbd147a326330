-------------------------- MODULE MCTrackingAnalytics --------------------------
(* An instance of TrackingAnalytics: two batches of hour 0, the second of    *)
(* them stored again in hour 1 under another key.                            *)
EXTENDS TrackingAnalytics, TLC

MCHourOf == <<0, 0, 1>>
MCEventOf == <<1, 2, 2>>
RunSymmetry == Permutations(Runs)
=============================================================================
