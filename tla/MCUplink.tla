------------------------------ MODULE MCUplink ------------------------------
(* The run of SensorNodes; the bounds are in the .cfg file.                 *)
EXTENDS SensorNodes
=============================================================================
