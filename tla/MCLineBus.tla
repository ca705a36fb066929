------------------------------ MODULE MCLineBus ------------------------------
(***************************************************************************)
(* Instances of LineBus for TLC.                                           *)
(***************************************************************************)
EXTENDS FeedRefinement

\* A rule with both levels, one without a reset level, one with its line under
\* the documented name and one that no trigger function exists for.
Both    == [line |-> 1, trigger_level |-> 1, reset_level |-> 2]
NoReset == [line |-> 1, trigger_level |-> 1]

MCRequests == {
    [channel |-> "light", trigger_name |-> "light_level_falls_below",
     addins |-> Both],
    [channel |-> "distance", trigger_name |-> "distance_rises_above",
     addins |-> NoReset],
    [channel |-> "light", trigger_name |-> "light_level_rises_above",
     addins |-> [line_id |-> 1, trigger_level |-> 1]],
    [channel |-> "unknown", trigger_name |-> "light_level_rises_above",
     addins |-> Both]}

\* Two rules are enough where the values do not matter: one that works, whose
\* addins leave nothing to chance, and one that is rejected.
MCFewRequests == {
    [channel |-> "light", trigger_name |-> "light_level_falls_below",
     addins |-> [line |-> 1, trigger_level |-> 1, reset_level |-> 1]],
    [channel |-> "light", trigger_name |-> "light_level_falls_below",
     addins |-> [trigger_level |-> 1]]}
=============================================================================
