--------------------------- MODULE MCClickPipeline ---------------------------
(* An instance of ClickPipeline for TLC: the clicks of one link on one date. *)
EXTENDS ClickPipeline, TLC

CONSTANT today

SameKey == [m \in Clicks |-> today]
=============================================================================
