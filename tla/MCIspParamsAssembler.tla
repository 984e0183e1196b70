------------------------- MODULE MCIspParamsAssembler -------------------------
(* IspParamsAssembler with two result types, as of two analyzer groups. *)
EXTENDS IspParamsAssembler, TLC

CONSTANTS ka, kb

Symmetry == Permutations(Kinds)

Mode(noReadback, prompt) == [noReadback |-> noReadback, prompt |-> prompt]

\* The TNR, NR and FEC units; the ISP with readback, whose consumer may stall; and
\* the ISP without.
MCModes == {Mode(FALSE, TRUE), Mode(FALSE, FALSE), Mode(TRUE, TRUE)}

MCStalled == {Mode(FALSE, FALSE)}

MCForced == {Mode(TRUE, TRUE)}
=============================================================================
