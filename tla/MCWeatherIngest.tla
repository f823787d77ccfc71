-------------------------- MODULE MCWeatherIngest ---------------------------
(* Four packets of two stations: x reports three times, y once; one packet *)
(* has no position and one no data.                                        *)
EXTENDS WeatherIngest, TLC

MCPackets == {"x1", "x2", "x3", "y1"}
MCCallOf  == [m \in MCPackets |-> IF m = "y1" THEN "y" ELSE "x"]

=============================================================================
