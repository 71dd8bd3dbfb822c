-------------------------- MODULE MCVehicleService --------------------------
(* A small instance of VehicleService for TLC.                              *)
EXTENDS VehicleService

CONSTANTS ann, ben, s1, c1, c2
=============================================================================
