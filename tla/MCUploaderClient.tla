-------------------------- MODULE MCUploaderClient --------------------------
(* The uploader client for TLC: a source of three bytes in parts of two and *)
(* one.  With an initial body of one byte the last part rides on its        *)
(* creation and the first does not.                                         *)
EXTENDS UploaderClient
=============================================================================
