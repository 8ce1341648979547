----------------------------- MODULE MCDetector -----------------------------
(***************************************************************************)
(* Small instances of Detector.                                            *)
(***************************************************************************)
EXTENDS Detector

OneServer == <<1>>
TwoServers == <<1, 2>>
=============================================================================
