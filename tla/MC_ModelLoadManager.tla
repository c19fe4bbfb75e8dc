------------------------ MODULE MC_ModelLoadManager ------------------------
(* Two registrations of one generative id at different paths, and two typed *)
(* models, one of which lives in a directory of the generative one.         *)
EXTENDS ModelLoadManager

CONSTANTS gen1, gen2, rank, decide, p1, p2

MCHandles == {gen1, gen2, rank, decide}
MCIdOf == [h \in MCHandles |-> IF h \in {gen1, gen2} THEN "g" ELSE IF h = rank THEN "r" ELSE "d"]
MCPathOf == [h \in MCHandles |-> IF h \in {gen1, rank} THEN p1 ELSE p2]
=============================================================================
