---------------------------- MODULE MCFanControl ----------------------------
(* Instance of FanControl for TLC: two pairs of thresholds, with and without *)
(* a band between them.                                                      *)
EXTENDS FanControl

MCThresholds == {<<0, 0>>, <<0, 1>>}
=============================================================================
