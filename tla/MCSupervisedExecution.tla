----------------------- MODULE MCSupervisedExecution -----------------------
(* The module is finite as it stands; the constants choose the world.          *)
EXTENDS SupervisedExecution
=============================================================================
