------------------------------ MODULE MCWatcher ------------------------------
(* Two files: one the walk is at, one whose event is drained meanwhile.    *)
EXTENDS Watcher, TLC
CONSTANTS f1, f2
MCFiles == {f1, f2}
Symmetry == Permutations(MCFiles)
MCOne == {f1}
Either == BOOLEAN
FreshOnly == {FALSE}
=============================================================================
