-------------------------- MODULE MCAnalyzePipeline --------------------------
(* The four groups of the ISP 3.x tables: a session with one frame that has    *)
(* statistics and a post left out, and a session with two.                     *)
EXTENDS AnalyzePipeline

MCLastFrame == <<2, 3>>
MCMaxSkipped == <<1, 0>>
=============================================================================
