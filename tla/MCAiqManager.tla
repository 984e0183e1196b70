---------------------------- MODULE MCAiqManager ----------------------------
(* Two modes; the callers are polite or not. *)
EXTENDS AiqManager

CONSTANTS normal, hdr

MCModes == {normal, hdr}
MCPoliteness == BOOLEAN
=============================================================================
