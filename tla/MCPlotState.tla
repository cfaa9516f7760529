---------------------------- MODULE MCPlotState ----------------------------
(* Instances of PlotState for TLC. *)
EXTENDS PlotState

MCGroup == <<"p", "q", "r">>
MCBad == {"q"}
MCNone == {}
============================================================================
