----------------------------- MODULE MCScreens -----------------------------
(* Two windows, and any kind in the upper of two panes.                    *)
EXTENDS Screens, TLC

MCCombos == {"SPLIT2"} \X {"TOP"} \X Kinds

\* A window is compared with other windows only.
MCSymmetry == Permutations(Windows)
=============================================================================
