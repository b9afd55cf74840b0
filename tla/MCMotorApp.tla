------------------------------- MODULE MCMotorApp -------------------------------
(* Command sets of the runs. *)
EXTENDS MotorApp

CONSTANTS v1, v2

Vals == {v1, v2}
Of(m, v) == [mode |-> m, value |-> v]

All == {Of("STOP_MOTOR", Zero), Of("SINUSOIDAL_VELOCITY", Zero), Of("SET_ZERO", Zero),
        Of("BACK_AND_FORTH_VELOCITY", Zero), Of("CSV", v1), Of("CST", v2),
        Of("PPM", v1), Of("PPM", v2)}
StopAndZero == {Of("STOP_MOTOR", Zero), Of("SET_ZERO", Zero)}
StopAndCSV == {Of("STOP_MOTOR", Zero), Of("CSV", v1)}
Positions == {Of("PPM", v1), Of("PPM", v2)}
JunkIsUnknown == {"unknown"}
================================================================================
