--------------------------- MODULE MCFinalUpload ---------------------------
(* Small instances of FinalUpload for TLC.                                  *)
EXTENDS FinalUpload, TLC

\* Two parts out of the order of their IDs, one of them named twice.
PartList == <<2, 1, 2>>

\* Requests are served by the same code and named nowhere else.
Symmetry == Permutations(Requests)
=============================================================================
