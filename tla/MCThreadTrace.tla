--------------------------- MODULE MCThreadTrace ---------------------------
(* Instances of ThreadTrace for TLC. *)
EXTENDS ThreadTrace

MCGroup == <<"p", "q", "r">>
MCBad == {"p", "q"}
============================================================================
