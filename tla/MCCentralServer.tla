-------------------------- MODULE MCCentralServer --------------------------
(* Instances of CentralServer for TLC.                                     *)
EXTENDS CentralServer, TLC
=============================================================================
