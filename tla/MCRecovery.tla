------------------------------- MODULE MCRecovery -------------------------------
(* Instances of Recovery for TLC.                                          *)
EXTENDS Recovery

(* Every property of the run but TypeOK and DiskHoldsMemory claims nothing *)
(* once there is a disturbance other than "cut": the step to it is taken,  *)
(* what follows is not.                                                    *)
Followed == OnlyCut
=============================================================================
