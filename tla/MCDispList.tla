----------------------------- MODULE MCDispList -----------------------------
(* Instances of DispList for TLC: five traces, screens of two or three. *)
EXTENDS DispList

MCTrcs == 1 .. 5
MCEpochs == <<3, 0, 4, 1, 9>>
MCInstID == <<2, 1, 1, 3, 2>>
MCSortKeys == {[x \in MCTrcs |-> x], [x \in MCTrcs |-> IF x \in {1, 4} THEN 0 ELSE 1]}
\* All nine criteria that can be combined, the last two instrument and start.
MCCriteria == [i \in 1 .. 9 |-> IF i = 8 THEN MCInstID ELSE IF i = 9 THEN MCEpochs ELSE [x \in MCTrcs |-> x]]
MCOneCriterion == <<[x \in MCTrcs |-> x]>>
MCLoadsFew == {<<>>, <<1, 2, 3, 4>>}
MCLoadsAll == {<<>>, <<1, 2, 3, 4, 5>>}
MCOneKey == {[x \in MCTrcs |-> x]}
=============================================================================
