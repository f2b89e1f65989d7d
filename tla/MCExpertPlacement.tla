-------------------------- MODULE MCExpertPlacement --------------------------
(* Small instances of ExpertPlacement for TLC.                                *)
EXTENDS ExpertPlacement

(* Two ranks with room for two of three experts each.  The ranks swap what    *)
(* they hold, so that one receives two experts while it sends one, and two    *)
(* layers that change in this way do not fit in one round; at first one layer *)
(* has a second copy of an expert to lose.                                    *)
Copied == <<{1, 2}, {2, 3}>>
First  == <<{1}, {2, 3}>>
Second == <<{2, 3}, {1}>>

MCStart   == <<Copied, First>>
MCTargets == {<<First, First>>, <<Second, Second>>}

(* Three ranks.                                                               *)
Alone == <<{1}, {2}, {3}>>
Grown == <<{2, 3}, {2}, {1}>>

WideStart   == <<Alone, Alone>>
WideTargets == {<<Alone, Alone>>, <<Grown, Grown>>}
=============================================================================
