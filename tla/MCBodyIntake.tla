---------------------------- MODULE MCBodyIntake ----------------------------
(* Instance of BodyIntake for TLC: bodies of up to three bytes, two          *)
(* algorithms, configurations with both, one or none of them, limits and     *)
(* intake caps above, at and below the size of a body, and none.             *)
EXTENDS BodyIntake

MCAlgorithms == {"sha1", "md5"}
MCSupported == {{"sha1", "md5"}, {"sha1"}}
MCLimits == {None, 0, 2}
MCCaps == {None, 1}
=============================================================================
