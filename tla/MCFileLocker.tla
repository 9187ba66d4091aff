---------------------------- MODULE MCFileLocker ----------------------------
(* Small instances of FileLocker for TLC.                                   *)
EXTENDS FileLocker, TLC

\* Tasks run the same code, inodes are only compared.
Symmetry == Permutations(Tasks) \cup Permutations(Inodes)
=============================================================================
