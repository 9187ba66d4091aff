--------------------------- MODULE OpendalStaging ---------------------------
(***************************************************************************)
(* OpendalStorage (crates/tus-storage-opendal) for one upload: every PATCH *)
(* becomes a part object, the completing one writes a marker first and     *)
(* then materializes all parts into the main object.  The handle in the    *)
(* upload's record carries a cursor and a size the next append relies on.  *)
(*                                                                         *)
(* The storage expects one writer at a time, so one handler runs at a time *)
(* here (the lifecycle's lock); it is the sequence of requests to the      *)
(* object store, each a step of its own, that can stop anywhere: a request *)
(* fails, the handler is dropped, the process dies.  Temporary objects are *)
(* never read by anybody else and appear only as the handler's buf.        *)
(*                                                                         *)
(* A byte is represented by its position in the client's file.  A body     *)
(* may be damaged, which its checksum or its length shows only at its end: *)
(* the append must then fail, and a byte of it that stays stored is        *)
(* spoilt.                                                                 *)
(*                                                                         *)
(* A definition marked "Faulty" is the one below it with a plausible bug;  *)
(* nothing uses it.  Each shows that some property notices the bug.        *)
(***************************************************************************)
EXTENDS Integers, Sequences, FiniteSetsExt

CONSTANTS
  Lengths,          \* values of Upload-Length the clients declare
  BodySizes,        \* sizes of the bodies the clients send
  Deferrable,       \* whether an upload may be created without a length
  TornWrites,       \* the backend shows an object that is being written
  FinalizeRetries,  \* FINALIZE_RETRIES
  MaxParts          \* bound on part numbers

ASSUME ConstantsAssumption ==
  /\ Lengths \subseteq Nat
  /\ BodySizes \subseteq Nat
  /\ {Deferrable, TornWrites} \subseteq BOOLEAN
  /\ FinalizeRetries \in Nat
  /\ MaxParts \in Nat \ {0}

VARIABLES
  hasRecord, record,  \* the persisted upload state with its storage handle
  hasMain, main,      \* the deliverable object
  parts,              \* the staged parts, by part number
  marker,             \* the part number in the completion marker
  pc,                 \* where the handler is
  st,                 \* its local upload state
  body,               \* the request body
  at,                 \* the part number and staged size append_position found
  buf,                \* what it has written to the current object
  tries,              \* failed attempts to finalize
  acked,              \* the largest offset a response has reported
  doomed,             \* a deletion of the upload has begun
  lost,               \* a promotion took effect although it was answered with an error
  spoilt              \* the positions at which bytes of a damaged body are stored

objects == <<hasMain, main, parts, marker>>
local   == <<st, body, at, buf, tries>>
vars    == <<hasRecord, record, objects, pc, local, acked, doomed, lost, spoilt>>

Deferred == -1
NoMarker == 0
NoBody   == [size |-> 0, damaged |-> FALSE]
Nowhere  == [part |-> 1, staged |-> 0]

State == [offset : Nat, length : Nat \cup {Deferred}, next : Nat, staged : Nat]

\* The steps of an append, a read and a deletion.
Points == {"idle", "place", "mark", "stage", "promote", "unmark", "write",
           "finalize", "cleanup", "commit", "refuse", "read", "serve",
           "delMarker", "delMain", "delParts", "delRecord"}

\* The types of the objects, of the record and of the running request.
TypeOK ==
  /\ hasRecord \in BOOLEAN /\ record \in State
  /\ hasMain \in BOOLEAN /\ main \in Seq(Nat)
  /\ DOMAIN parts \subseteq 1 .. MaxParts
  /\ \A n \in DOMAIN parts : parts[n] \in Seq(Nat)
  /\ marker \in 0 .. MaxParts
  /\ pc \in Points
  /\ st \in State
  /\ body \in [size : Nat, damaged : BOOLEAN]
  /\ at \in [part : 1 .. MaxParts, staged : Nat]
  /\ buf \in Seq(Nat)
  /\ tries \in 0 .. FinalizeRetries
  /\ acked \in Nat
  /\ doomed \in BOOLEAN /\ lost \in BOOLEAN
  /\ spoilt \subseteq Nat

-----------------------------------------------------------------------------
(* What the objects say.                                                   *)

Complete(s) == s.length # Deferred /\ s.offset >= s.length

\* The content of the parts ps up to number n, in the order of their numbers.
Join(ps, n) ==
  LET join[k \in 0 .. MaxParts] ==
        IF k = 0 THEN << >>
        ELSE IF k \in DOMAIN ps THEN join[k - 1] \o ps[k] ELSE join[k - 1]
  IN join[n]

Joined == Join(parts, MaxParts)

StagedSize == Len(Joined)

Larger(a, b) == IF a > b THEN a ELSE b

\* stored_size(..).unwrap_or(0): main or the staged parts, whichever is larger.
Size == IF hasMain THEN Larger(StagedSize, Len(main)) ELSE StagedSize

\* Faulty: the cursor is always believed.
PositionByHint(s) == [part |-> s.next, staged |-> s.staged, offset |-> s.staged]

\* Faulty: the offset is recovered but not the cursor, and the part is overwritten.
PositionByCursor(s) == [part |-> s.next, staged |-> StagedSize, offset |-> Size]

\* append_position: the handle's cursor and size if the cursor's part does not
\* exist, or else recovered_position from what is staged.
Position(s) ==
  IF s.next \notin DOMAIN parts
  THEN [part |-> s.next, staged |-> s.staged, offset |-> s.staged]
  ELSE [part |-> Larger(s.next, 1 + Max(DOMAIN parts)),
        staged |-> StagedSize, offset |-> Size]

\* The marker and every part up to the marked one are there.
Repairable == marker # NoMarker /\ 1 .. marker \subseteq DOMAIN parts

-----------------------------------------------------------------------------
(* Steps of the handler.                                                   *)

Goto(point) == pc' = point

\* The request is over; whatever was in memory is gone.
Done ==
  /\ Goto("idle")
  /\ st' = [offset |-> 0, length |-> Deferred, next |-> 1, staged |-> 0]
  /\ body' = NoBody /\ at' = Nowhere /\ buf' = << >> /\ tries' = 0

KeepRecord == UNCHANGED <<hasRecord, record>>
KeepMain   == UNCHANGED <<hasMain, main>>
KeepHist   == UNCHANGED <<acked, doomed, lost, spoilt>>
KeepParts  == UNCHANGED <<parts, marker>>

With(ps, n, content) == [m \in DOMAIN ps \cup {n} |-> IF m = n THEN content ELSE ps[m]]
Without(ps, n) == [m \in DOMAIN ps \ {n} |-> ps[m]]

Put(n, content) == parts' = With(parts, n, content)
Discard(n) == parts' = Without(parts, n)

\* The recorded offset after recovery has compared it with the stored bytes.
Reconciled(s) == [s EXCEPT !.offset = Size]

\* Recovery refuses an object that is longer than declared.
Consistent(s) == s.length = Deferred \/ Size <= s.length

\* The lifecycle's access to the record, with recovery, under the lock.
Access ==
  /\ pc = "idle" /\ hasRecord /\ Consistent(record)
  /\ record' = Reconciled(record)
  /\ UNCHANGED <<hasRecord, doomed, lost, spoilt>> /\ UNCHANGED objects

\* HEAD reports the reconciled offset.
HeadRequest ==
  /\ Access
  /\ acked' = Larger(acked, record'.offset)
  /\ UNCHANGED <<pc, local>>

\* PATCH: the checks of the lifecycle before it calls Storage::append.
Patch ==
  /\ Access
  /\ \E length \in Lengths \cup {Deferred}, size \in BodySizes, damaged \in BOOLEAN :
       LET s == [record' EXCEPT !.length = IF @ = Deferred THEN length ELSE @]
       IN /\ ~Complete(record')
          /\ length # Deferred => length = s.length
          /\ s.length # Deferred => s.offset + size <= s.length
          /\ s.length = Deferred => \E l \in Lengths : s.offset + size <= l
          /\ st' = s
          /\ body' = [size |-> size, damaged |-> damaged]
  /\ Goto("place")
  /\ UNCHANGED <<at, buf, tries, acked>>

Completes == st.offset + body.size = st.length

\* append_part begins: where does the part go, and does the offset agree?
Place ==
  /\ pc = "place"
  /\ LET p == Position(st)
     IN IF p.offset # st.offset
        THEN Goto("refuse") /\ UNCHANGED local
        ELSE /\ p.part <= MaxParts
             /\ at' = [part |-> p.part, staged |-> p.staged]
             /\ Goto(IF Completes THEN "mark" ELSE "write")
             /\ UNCHANGED <<st, body, buf, tries>>
  /\ KeepRecord /\ KeepHist /\ UNCHANGED objects

\* The append fails with an internal error.
Refuse == pc = "refuse" /\ Done /\ KeepRecord /\ KeepHist /\ UNCHANGED objects

\* The k-th byte of the body, and the positions of all.
Byte(k) == st.offset + k
Positions == st.offset + 1 .. st.offset + body.size

\* write_part: one more chunk, which some backends show at once.
WriteChunk ==
  /\ pc = "write" /\ Len(buf) < body.size
  /\ buf' = Append(buf, Byte(Len(buf) + 1))
  /\ IF TornWrites THEN Put(at.part, buf') ELSE UNCHANGED parts
  /\ spoilt' = IF TornWrites /\ body.damaged THEN spoilt \cup {st.offset + Len(buf')} ELSE spoilt
  /\ KeepRecord /\ KeepMain
  /\ UNCHANGED <<marker, pc, st, body, at, tries, acked, doomed, lost>>

\* The stream or the writer fails: discard_partial_part, best effort.
WriteError ==
  /\ pc = "write"
  /\ \/ Discard(at.part) /\ spoilt' = spoilt \ Positions
     \/ TornWrites /\ UNCHANGED <<parts, spoilt>>
  /\ Done
  /\ KeepRecord /\ KeepMain /\ UNCHANGED <<marker, acked, doomed, lost>>

\* The body ended well; the writer is closed and the handle advanced.
WriteClose ==
  /\ pc = "write" /\ Len(buf) = body.size /\ ~body.damaged
  /\ Put(at.part, buf)
  /\ Goto("commit")
  /\ KeepRecord /\ KeepMain /\ KeepHist /\ UNCHANGED <<marker, local>>

\* Faulty: no marker is written.
MarkNothing ==
  /\ pc = "mark" /\ Goto("stage")
  /\ KeepRecord /\ KeepMain /\ KeepHist /\ UNCHANGED <<parts, marker, local>>

\* Faulty: the marker names the part after the completing one.
MarkNext ==
  /\ pc = "mark" /\ Goto("stage")
  /\ marker' = at.part + 1
  /\ KeepRecord /\ KeepMain /\ KeepHist /\ UNCHANGED <<parts, local>>

\* write_completion_marker; a failed write leaves the old marker, none, or the
\* new one if only its answer was lost.
Mark ==
  /\ pc = "mark"
  /\ \/ marker' = at.part /\ Goto("stage") /\ UNCHANGED local
     \/ marker' \in {marker, NoMarker} /\ Done
     \/ marker' = at.part /\ Done
  /\ KeepRecord /\ KeepMain /\ KeepHist /\ UNCHANGED parts

\* Faulty: the completing body goes straight to the part object.
StageAtPart ==
  /\ pc = "stage"
  /\ buf' = [k \in 1 .. body.size |-> Byte(k)]
  /\ Put(at.part, buf')
  /\ spoilt' = IF body.damaged THEN spoilt \cup Positions ELSE spoilt
  /\ Goto(IF body.damaged THEN "unmark" ELSE "promote")
  /\ KeepRecord /\ KeepMain
  /\ UNCHANGED <<marker, st, body, at, tries, acked, doomed, lost>>

\* stage_final_part: the body goes to a temporary object; a damaged one fails
\* at its end.
Stage ==
  /\ pc = "stage"
  /\ \/ ~body.damaged /\ Goto("promote") /\ buf' = [k \in 1 .. body.size |-> Byte(k)]
     \/ Goto("unmark") /\ UNCHANGED buf
  /\ KeepRecord /\ KeepMain /\ KeepHist /\ KeepParts /\ UNCHANGED <<st, body, at, tries>>

\* promote_object: the temporary object becomes the part, which a
\* failed request may have done as well.
Promote ==
  /\ pc = "promote"
  /\ \/ Put(at.part, buf) /\ Goto("finalize") /\ UNCHANGED lost
     \/ UNCHANGED parts /\ Goto("unmark") /\ UNCHANGED lost
     \/ Put(at.part, buf) /\ Goto("unmark") /\ lost' = TRUE
  /\ KeepRecord /\ KeepMain /\ UNCHANGED <<marker, local, acked, doomed, spoilt>>

\* The marker is removed after a failed completing append, best effort.
Unmark ==
  /\ pc = "unmark"
  /\ marker' \in {marker, NoMarker}
  /\ Done
  /\ KeepRecord /\ KeepMain /\ KeepHist /\ UNCHANGED parts

\* finalize: all staged parts become the main object, with inline retries.
Finalize ==
  /\ pc = "finalize"
  /\ \/ /\ hasMain' = TRUE /\ main' = Joined
        /\ Goto("cleanup") /\ UNCHANGED local
     \/ /\ tries < FinalizeRetries /\ tries' = tries + 1
        /\ KeepMain /\ UNCHANGED <<pc, st, body, at, buf>>
     \/ tries = FinalizeRetries /\ Done /\ KeepMain
  /\ KeepRecord /\ KeepHist /\ KeepParts

\* The parts are deleted in order, then the marker; failures are ignored.
Cleanup ==
  /\ pc = "cleanup"
  /\ \/ DOMAIN parts # {} /\ Discard(Min(DOMAIN parts)) /\ UNCHANGED <<pc, marker>>
     \/ marker' \in {marker, NoMarker} /\ Goto("commit") /\ UNCHANGED parts
  /\ KeepRecord /\ KeepMain /\ KeepHist /\ UNCHANGED local

\* commit_receive_body persists offset, length and handle, and PATCH answers.
Commit ==
  /\ pc = "commit"
  /\ \/ /\ record' = [st EXCEPT !.offset = @ + body.size, !.next = at.part + 1,
                                !.staged = at.staged + body.size]
        /\ acked' = Larger(acked, record'.offset)
     \/ UNCHANGED <<record, acked>>
  /\ Done
  /\ UNCHANGED <<hasRecord, objects, doomed, lost, spoilt>>

-----------------------------------------------------------------------------
(* GET and DELETE.                                                         *)

\* GET of a complete upload asks the storage for a stream, unless it is empty.
Get ==
  /\ Access
  /\ Complete(record') /\ record'.length > 0
  /\ st' = record'
  /\ Goto("read")
  /\ UNCHANGED <<body, at, buf, tries, acked>>

\* The upload is a source of another one's concat, which goes by the record and
\* knows no empty upload: one of length 0 has no main object and the concat fails.
ConcatSource ==
  /\ pc = "idle" /\ hasRecord /\ Complete(record)
  /\ st' = record
  /\ Goto("read")
  /\ KeepRecord /\ KeepHist /\ UNCHANGED <<objects, body, at, buf, tries>>

\* Faulty: repair takes whatever parts there are.
ReadGapped ==
  /\ pc = "read"
  /\ hasMain \/ (marker # NoMarker /\ marker \in DOMAIN parts)
  /\ hasMain' = TRUE /\ main' = IF hasMain THEN main ELSE Joined
  /\ Goto("serve")
  /\ KeepRecord /\ KeepHist /\ KeepParts /\ UNCHANGED local

\* stream_from: ensure_materialized, which may repair, then the main object.
Read ==
  /\ pc = "read"
  /\ \/ hasMain /\ Goto("serve") /\ KeepMain /\ UNCHANGED local
     \/ /\ ~hasMain /\ Repairable
        /\ hasMain' = TRUE /\ main' = Join(parts, marker)
        /\ Goto("serve") /\ UNCHANGED local
     \/ Done /\ KeepMain
  /\ KeepRecord /\ KeepHist /\ KeepParts

\* The main object is streamed to the client, or copied by the concat.
Serve == pc = "serve" /\ Done /\ KeepRecord /\ KeepHist /\ UNCHANGED objects

\* DELETE, or the sweeper, starts to delete.
Delete ==
  /\ pc = "idle" /\ hasRecord
  /\ Goto("delMarker")
  /\ KeepRecord /\ KeepHist /\ UNCHANGED <<objects, local>>

\* delete_all: the marker first, then the main object ...
DelMarker ==
  /\ pc = "delMarker"
  /\ marker' = NoMarker /\ doomed' = TRUE
  /\ Goto("delMain")
  /\ KeepRecord /\ KeepMain /\ UNCHANGED <<parts, local, acked, lost, spoilt>>

DelMain ==
  /\ pc = "delMain"
  /\ hasMain' = FALSE /\ main' = << >>
  /\ Goto("delParts")
  /\ KeepRecord /\ KeepHist /\ KeepParts /\ UNCHANGED local

\* ... then the parts in order, and then the lifecycle removes the record.
DelParts ==
  /\ pc = "delParts"
  /\ IF DOMAIN parts # {}
     THEN Discard(Min(DOMAIN parts)) /\ UNCHANGED pc
     ELSE Goto("delRecord") /\ UNCHANGED parts
  /\ KeepRecord /\ KeepMain /\ KeepHist /\ UNCHANGED <<marker, local>>

DelRecord ==
  /\ pc = "delRecord"
  /\ hasRecord' = FALSE
  /\ Done
  /\ UNCHANGED <<record, objects, acked, doomed, lost, spoilt>>

\* A request of the handler fails for good, the handler is dropped or the
\* process dies.
Interrupt ==
  /\ pc # "idle" /\ Done
  /\ KeepRecord /\ KeepHist /\ UNCHANGED objects

-----------------------------------------------------------------------------
\* A new upload: create found nothing at its key and made a fresh handle.
Init ==
  /\ hasRecord = TRUE
  /\ \E length \in Lengths \cup (IF Deferrable THEN {Deferred} ELSE {}) :
       record = [offset |-> 0, length |-> length, next |-> 1, staged |-> 0]
  /\ hasMain = FALSE /\ main = << >>
  /\ parts = << >> /\ marker = NoMarker
  /\ pc = "idle"
  /\ st = [offset |-> 0, length |-> Deferred, next |-> 1, staged |-> 0]
  /\ body = NoBody /\ at = Nowhere /\ buf = << >> /\ tries = 0
  /\ acked = 0 /\ doomed = FALSE /\ lost = FALSE /\ spoilt = {}

Next ==
  \/ HeadRequest \/ Patch \/ Place \/ Refuse
  \/ WriteChunk \/ WriteError \/ WriteClose
  \/ Mark \/ Stage \/ Promote \/ Unmark \/ Finalize \/ Cleanup \/ Commit
  \/ Get \/ ConcatSource \/ Read \/ Serve
  \/ Delete \/ DelMarker \/ DelMain \/ DelParts \/ DelRecord
  \/ Interrupt

Spec == Init /\ [][Next]_vars

-----------------------------------------------------------------------------
(* Properties.                                                             *)

File(n) == [i \in 1 .. n |-> i]

\* What is stored has the bytes of the client's file in their order, from the
\* first one on and without a gap: the main object if there is one, and what the
\* parts join to until then, whatever appends, torn writes and interruptions
\* came before.  The bytes may be spoilt: see TornPartIsResumeSafe.
StoredPrefix ==
  ~doomed => /\ main = File(Len(main))
             /\ ~hasMain => Joined = File(StagedSize)

\* A complete upload that is not empty can be read: its main object exists or
\* the marker and the parts allow ensure_materialized to repair it.  Excepted is
\* an upload whose completing part was promoted by a request that failed: its
\* marker is removed although its bytes are all there.
CompleteIsReadable ==
  hasRecord /\ Complete(record) /\ record.length > 0 /\ pc = "idle" /\ ~doomed /\ ~lost
    => hasMain \/ Repairable

\* Whoever reads a complete upload, to download it or to concatenate it, is
\* served all of the file, in order, never a stale or gapped main object.  What the
\* read itself repairs is whole even if a delete stopped halfway, left parts with a
\* gap, and the upload was then resumed and completed once more
\* (ensure_materialized asks for every part up to the completing one).  A body that
\* completes an upload is never served if it was damaged (stage_final_part), and
\* other damaged bodies only from a backend that shows an unfinished object.
ServedIsWhole ==
  [][pc = "read" /\ pc' = "serve" /\ (~doomed \/ ~hasMain)
       => /\ main' = File(st.length)
          /\ st.length \notin spoilt
          /\ spoilt # {} => TornWrites]_vars

\* "A torn non-completing part is resume-safe" (staging.rs:152): an upload that was
\* resumed behind a torn part and completed holds only what the storage accepted.
\* The code does not do this: it is violated if OpendalSafety.cfg checks it.
TornPartIsResumeSafe == hasMain /\ ~doomed => spoilt = {}

\* The upload can be resumed: the size the storage reports never falls below what
\* a response has acknowledged, although parts are deleted while main replaces
\* them, and the offset that recovery took from that size is accepted by the next
\* append (append_position).
Resumable == ~doomed => acked <= Size /\ pc # "refuse"
=============================================================================
