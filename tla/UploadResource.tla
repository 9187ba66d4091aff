--------------------------- MODULE UploadResource ---------------------------
(***************************************************************************)
(* What a tus server promises a client about one upload, whatever requests, *)
(* failures, crashes and recoveries lie behind it: the upload is there from *)
(* its creation until its removal, its offset only grows and stays within   *)
(* its length, its length is declared once, every response reports the      *)
(* offset on record, and an upload the client has been told of does not     *)
(* come back once it is gone.  UploadLifecycle implements this.             *)
(***************************************************************************)
EXTENDS Integers

CONSTANTS
  MaxSize,    \* Config::max_size
  Deferred    \* the length of an upload that has not declared one

VARIABLES
  live,       \* the upload has a record and nobody has deleted its bytes
  offset,     \* the offset on record, 0 if it is not live
  length,     \* the length on record, Deferred if it is not live
  known,      \* a response has told the client the upload's URL
  acked       \* the largest Upload-Offset a response has reported

resourceVars == <<live, offset, length, known, acked>>

TypeOK ==
  /\ live \in BOOLEAN
  /\ offset \in 0 .. MaxSize
  /\ length \in Nat \cup {Deferred}
  /\ known \in BOOLEAN
  /\ acked \in 0 .. MaxSize

Init ==
  /\ ~live /\ offset = 0 /\ length = Deferred
  /\ ~known /\ acked = 0

\* POST records a new upload, before anybody knows of it.
Create ==
  /\ ~live /\ ~known
  /\ live' /\ offset' = 0
  /\ length' \in Nat \cup {Deferred}
  /\ UNCHANGED <<known, acked>>

\* Received or recovered bytes, or a deferred length, go on record.
Advance ==
  /\ live /\ live'
  /\ offset' \in offset .. MaxSize
  /\ length' = length \/ (length = Deferred /\ length' \in Nat)
  /\ length' # Deferred => offset' <= length'
  /\ UNCHANGED <<known, acked>>

\* A response reports the offset on record.
Report ==
  /\ live
  /\ known' /\ acked' = offset
  /\ UNCHANGED <<live, offset, length>>

\* DELETE, the sweeper or the rollback of a creation.
Remove ==
  /\ live
  /\ ~live' /\ offset' = 0 /\ length' = Deferred
  /\ UNCHANGED <<known, acked>>

Next == Create \/ Advance \/ Report \/ Remove

Spec == Init /\ [][Next]_resourceVars
=============================================================================
