---------------------------- MODULE MCProbeTuning ----------------------------
(***************************************************************************)
(* The reports in the states of a small instance with three lists.         *)
(***************************************************************************)
EXTENDS MCIvfIndex, ProbeTuning

MCTuningSamples == {<<0, 6, 18>>, <<6, 0, 6>>}

MCCoverages == {<<-1, 4>>, <<0, 1>>, <<1, 3>>, <<1, 2>>, <<2, 3>>, <<3, 4>>, <<1, 1>>, <<5, 4>>}
=============================================================================
