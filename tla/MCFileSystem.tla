-------------------------- MODULE MCFileSystem --------------------------
(* Instances of FileSystem for TLC.                                        *)
EXTENDS FileSystem, TLC

CONSTANTS d

(* The root, its two directories and a folder of the user's.               *)
MCPaths == {<<>>, <<"Trash">>, <<"Recents">>, <<d>>}

RequestSymmetry == Permutations(NewIds) \cup Permutations(Threads)
=============================================================================
