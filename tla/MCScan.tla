------------------------------- MODULE MCScan -------------------------------
(* Instances of Scan for TLC.                                              *)
EXTENDS Scan
=============================================================================
