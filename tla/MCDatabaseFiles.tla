-------------------------- MODULE MCDatabaseFiles --------------------------
(* Symmetry for the safety runs of DatabaseFiles: requests are             *)
(* interchangeable, and so are names when none is registered at first.     *)
(* Inodes and contents are not, since fresh ones are chosen.               *)
EXTENDS DatabaseFiles, TLC

AdminSymmetry == Permutations(Admin)
Symmetry == Permutations(Name) \cup AdminSymmetry
=============================================================================
