---------------------------- MODULE MCLiveJourney -----------------------------
(* One Journey over a way of three places, its two parties and its device.   *)
EXTENDS LiveJourney, TLC

\* At every place and time up to one step ahead of the clock; a poor one at the end.
SomeReadings ==
  [place : 0..2, observed : 0..3, good : {TRUE}] \cup [place : {2}, observed : {1, 2}, good : {FALSE}]

SomeSignals == {"SILENT_ASSISTANCE", "FEEL_UNSAFE"}

SameToAll == Permutations(Reports) \cup Permutations(People)
=============================================================================
