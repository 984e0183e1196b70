----------------------------- MODULE MCSensorExp -----------------------------
(* SensorExp with the delays of the calibration files (2,2,1), (2,2,2), no dcg  *)
(* mode, and those of a sensor whose gain is one frame faster than its time.    *)
EXTENDS SensorExp

Delays(t, g, d) == [time |-> t, gain |-> g, dcg |-> d]

MCConfigs == {Delays(2, 2, 1), Delays(2, 2, 2), Delays(2, 1, 1), Delays(2, 1, 2), Delays(2, 2, -1), Delays(2, 1, -1)}

\* Two that set_exp_delay_info refuses as well.
MCAnyConfigs == MCConfigs \cup {Delays(1, 2, 1), Delays(2, 2, 3)}

\* Two working modes of which one has the dcg mode faster than the gain.
MCSwitch == {Delays(2, 2, 1), Delays(2, 1, 1)}
=============================================================================
