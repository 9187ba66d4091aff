------------------------- MODULE MCUploadLifecycle -------------------------
(* Small instances of UploadLifecycle for TLC.                              *)
EXTENDS UploadLifecycle, TLC

\* Requests are served by the same code and named nowhere else.
Symmetry == Permutations(Requests)
=============================================================================
