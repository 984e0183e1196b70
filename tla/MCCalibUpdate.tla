---------------------------- MODULE MCCalibUpdate ----------------------------
(* Two groups, one with two handles around that of the other in the order of   *)
(* the table, the application and the tuning server, polite or not; one        *)
(* algorithm is switched off and on. *)
EXTENDS CalibUpdate

CONSTANTS g1, g2, app, tool

MCGroups == {g1, g2}
MCHandles == 1..3
MCGroupOf == <<g1, g2, g1>>
MCSwitchable == {1}
MCCallers == {app, tool}
MCPoliteness == BOOLEAN
=============================================================================
