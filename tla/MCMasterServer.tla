------------------------- MODULE MCMasterServer -------------------------
(* Instances of MasterServer for TLC.                                      *)
EXTENDS MasterServer, TLC

CONSTANTS s1, s2, s3, t1, t2

(* Three servers, a tablet on all of them and one on two of them: as in    *)
(* the code, two tablets share some replicas and not others.               *)
MCReplicas == (t1 :> {s1, s2, s3}) @@ (t2 :> {s1, s2})

CallSymmetry == Permutations(Calls)
=============================================================================
