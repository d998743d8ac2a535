----------------------- MODULE MCReplicatedWrites -----------------------
(* Instances of ReplicatedWrites for TLC.                                  *)
EXTENDS ReplicatedWrites, TLC

CONSTANTS v1, v2

MCValues == {v1, v2}

Cmd(t, a, b) == [type |-> t, v1 |-> a, v2 |-> b]

(* Every kind of command, and CPUTs that can undo each other.              *)
AllCommands == {Cmd("PUT", v1, v1), Cmd("PUT", v2, v1), Cmd("CPUT", v1, v2),
                Cmd("CPUT", v2, v1), Cmd("DELETE", v1, v1)}

(* Order matters, the values do not: one command.                          *)
OneCommand == {Cmd("PUT", v1, v1)}

RequestSymmetry == Permutations(Requests)
=============================================================================
