--------------------------- MODULE MCMemoryLocker ---------------------------
(* Small instances of MemoryLocker for TLC.                                 *)
EXTENDS MemoryLocker
=============================================================================
