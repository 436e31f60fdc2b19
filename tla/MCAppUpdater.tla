---------------------------- MODULE MCAppUpdater ----------------------------
(* Instance of AppUpdater for TLC: the factory image has one unit, version 1 *)
(* takes two blocks, the second one short, and version 2 one short block.    *)
EXTENDS AppUpdater

MCSize      == [v \in Versions |-> IF v = 1 THEN 3 ELSE 1]
MCSmallSize == [v \in Versions |-> IF v = 1 THEN 2 ELSE 1]
=============================================================================
