------------------------- MODULE MCGuardedExecution -------------------------
(* One download and any number of uploads, of which two files are allowed, and  *)
(* an intervention of another program, at every step of every execution.       *)
EXTENDS GuardedExecution

CONSTANTS t1, foreign
=============================================================================
