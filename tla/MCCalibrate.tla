---------------------------- MODULE MCCalibrate ----------------------------
(* A calibration with and without TLS in which a few chunks are received.    *)
EXTENDS Calibrate
=============================================================================
