--------------------------- MODULE MCUploadQueue ---------------------------
(* The upload queue for TLC: a file of one or two chunks, two workers or     *)
(* one, and a bounded number of items and of other calls by the user.        *)
EXTENDS UploadQueue
=============================================================================
