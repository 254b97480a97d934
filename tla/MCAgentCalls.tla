---------------------------- MODULE MCAgentCalls ----------------------------
(* An instance of AgentCalls for TLC: the batches, and of their durations,   *)
(* in units of thirty seconds, only the shortest and the longest.            *)
EXTENDS AgentCalls

MCBatches   == {<<"research", "qualify">>, <<"plan">>, <<"draft">>}
MCDurations == {0, Timeout, PostTimeout, WaitSeconds}
=============================================================================
