--------------------------- MODULE MCAttribHandle ---------------------------
(* Two setters and two contents, one of which is all zeros. *)
EXTENDS AttribHandle

CONSTANTS s1, s2, zero, a1

MCSetters == {s1, s2}
MCValues == {zero, a1}
=============================================================================
