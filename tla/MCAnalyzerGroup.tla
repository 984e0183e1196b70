--------------------------- MODULE MCAnalyzerGroup ---------------------------
(* The condition table of a group cut to two types: start of frame of the frame *)
(* itself and AE statistics of two frames before.                               *)
EXTENDS AnalyzerGroup

CONSTANTS sof, aec

MCDelay == [t \in Deps |-> IF t = aec THEN 2 ELSE 0]
MCFirst == [t \in Deps |-> IF t = sof THEN 1 ELSE 0]
=============================================================================
