--------------------------- MODULE MCMeasurement ---------------------------
(* Three CPUs, two of them in one package, for checking Measurement.        *)
EXTENDS Measurement

MCPackageOf == [c \in CPUs |-> IF c = 0 THEN 0 ELSE 1]

=============================================================================
