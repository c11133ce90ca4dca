--------------------------- MODULE MCLegacyCrank ----------------------------
(***************************************************************************)
(* TLC instance of LegacyCrank: a board of three tiles, two sessions.      *)
(***************************************************************************)
EXTENDS LegacyCrank

\* One and two mines; which tiles they are on does not matter.
SmallLayouts == {{0}, {0, 1}}

\* One board of each kind.
OneOfEachInit == CrankInit /\ game[1].layout = {0, 1} /\ game[2].layout = {0}

OneOfEachSpec == OneOfEachInit /\ [][CrankNext]_<<vars, crankVars>> /\ CrankFairness

=============================================================================
