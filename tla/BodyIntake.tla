----------------------------- MODULE BodyIntake -----------------------------
(***************************************************************************)
(* The intake of one request body                                          *)
(* (crates/tus-protocol/src/lifecycle/receive/body.rs) and the append and  *)
(* commit it feeds (receive.rs, storage/file.rs): a body with a            *)
(* Content-Length is streamed to the storage and is judged while, and      *)
(* after, its bytes are written; any other body is judged in memory first. *)
(*                                                                         *)
(* Bytes are counted, and the digest of a body is its number of bytes: a   *)
(* digest that is some other number is one that does not match.  A         *)
(* definition marked "Faulty" is the one below it with a plausible bug;    *)
(* nothing uses it.                                                        *)
(***************************************************************************)
EXTENDS Integers, FiniteSets

CONSTANTS
  MaxBody,    \* bound: bytes of a body
  Algorithms, \* the checksum algorithms the code knows
  Supported,  \* sets of configured algorithms, one per configuration
  Limits,     \* values of the limit the caller computes (receive_body_limit)
  Caps        \* values of Config::max_intake_buffer

ASSUME ConstantsAssumption ==
  /\ MaxBody \in Nat
  /\ {"", "none"} \cap Algorithms = {}
  /\ Supported \subseteq SUBSET Algorithms
  /\ Limits \cup Caps \subseteq Nat \cup {-1}

None == -1

\* Upload-Checksum as it is parsed; alg "" is a value that does not parse.
Digests == [alg : Algorithms \cup {""}, of : 0 .. MaxBody]
NoDigest == [alg |-> "none", of |-> 0]

VARIABLES
  conf,     \* [checksum, trailer : BOOLEAN, algs, cap]: the configuration
  req,      \* [body, length, digest, limit]: the request and its limit
  pc,
  buffer,   \* bytes collected in memory
  seen,     \* StreamingBodyState::bytes_seen
  hashers,  \* the algorithms hashed while streaming
  hashed,   \* the bytes they have seen
  trailers, \* the digest in the trailers
  stored,   \* bytes appended to the object
  advance,  \* how far the committed record moved the offset
  sent,     \* history: the bytes the client sent before the body ended
  broken,   \* history: the body ended in an error
  fault,    \* history: the storage failed, or the handler was dropped; "kept" if
            \* what the body had written may have stayed
  reply

vars == <<conf, req, pc, buffer, seen, hashers, hashed, trailers, stored, advance,
          sent, broken, fault, reply>>

Replies == {"none", "ok", "size", "mismatch", "checksum", "unsupported", "malformed",
            "lengthRequired", "io", "internal", "dropped"}

\* The types of the intake's state.
TypeOK ==
  /\ conf \in [checksum : BOOLEAN, trailer : BOOLEAN, algs : Supported, cap : Caps]
  /\ req \in [body : {"absent", "bytes", "stream"}, length : None .. MaxBody,
              digest : Digests \cup {NoDigest}, limit : Limits]
  /\ pc \in {"validate", "collect", "buffered", "stream", "finish", "commit", "done"}
  /\ {buffer, seen, hashed, stored, advance, sent} \subseteq 0 .. MaxBody
  /\ hashers \subseteq Algorithms
  /\ trailers \in Digests \cup {NoDigest}
  /\ broken \in BOOLEAN /\ fault \in {"none", "undone", "kept"} /\ reply \in Replies

Init ==
  /\ conf \in [checksum : BOOLEAN, trailer : BOOLEAN, algs : Supported, cap : Caps]
  /\ req \in [body : {"absent", "bytes", "stream"}, length : None .. MaxBody,
              digest : Digests \cup {NoDigest}, limit : Limits]
  /\ pc = "validate" /\ reply = "none"
  /\ buffer = 0 /\ seen = 0 /\ hashed = 0 /\ stored = 0 /\ advance = 0 /\ sent = 0
  /\ hashers = {} /\ trailers = NoDigest /\ broken = FALSE
  /\ fault = "none"

-----------------------------------------------------------------------------

Within(n, limit) == limit = None \/ n <= limit
Tighter(a, b) == IF a = None \/ (b # None /\ b < a) THEN b ELSE a

Answer(r) == pc' = "done" /\ reply' = r

\* validate_checksum_algorithm
Known(digest) == ~conf.checksum \/ digest.alg \in conf.algs

\* headers.upload_checksum: a value that does not parse is kept apart, as
\* upload_checksum_error.
HeaderDigest == IF req.digest.alg = "" THEN NoDigest ELSE req.digest

\* streaming_hashers: the header's algorithm, or any a trailer may name.
Hashers ==
  IF ~conf.checksum THEN {}
  ELSE IF HeaderDigest # NoDigest THEN {HeaderDigest.alg}
  ELSE IF conf.trailer THEN conf.algs ELSE {}

\* The limit of a body that is buffered: collect_frames is given the tighter
\* of the caller's and the configured one.
BufferLimit == IF req.body = "stream" THEN Tighter(req.limit, conf.cap) ELSE req.limit

\* effective_checksum: the header wins, a trailer counts if it is enabled.
Effective ==
  IF HeaderDigest # NoDigest THEN HeaderDigest
  ELSE IF conf.trailer THEN trailers ELSE NoDigest

\* What validate_content_length, effective_checksum and verify_checksum, in
\* this order, say of a body of n bytes; calculable are the algorithms there is
\* a digest for, and calculated is that digest.
FaultyJudgement(n, calculable, calculated) ==
  IF req.length # None /\ n > req.length THEN "mismatch"
  ELSE IF Effective.alg = "" THEN "malformed"
  ELSE IF Effective = NoDigest \/ ~conf.checksum THEN "ok"
  ELSE IF ~Known(Effective) THEN "unsupported"
  ELSE IF Effective.alg \notin calculable THEN "internal"
  ELSE IF calculated # Effective.of THEN "checksum"
  ELSE "ok"
Judgement(n, calculable, calculated) ==
  IF req.length \notin {None, n} THEN "mismatch"
  ELSE IF Effective.alg = "" THEN "malformed"
  ELSE IF Effective = NoDigest \/ ~conf.checksum THEN "ok"
  ELSE IF ~Known(Effective) THEN "unsupported"
  ELSE IF Effective.alg \notin calculable THEN "internal"
  ELSE IF calculated # Effective.of THEN "checksum"
  ELSE "ok"

\* validate_before_polling, and prepare's choice of the path.
Validate ==
  /\ pc = "validate"
  /\ \/ conf.checksum /\ req.digest.alg = "" /\ Answer("malformed") /\ UNCHANGED hashers
     \/ /\ conf.checksum /\ req.digest # NoDigest /\ req.digest.alg # ""
        /\ ~Known(req.digest) /\ Answer("unsupported") /\ UNCHANGED hashers
     \/ /\ conf.checksum => req.digest = NoDigest \/ (req.digest.alg # "" /\ Known(req.digest))
        /\ \/ /\ req.length # None /\ ~Within(req.length, req.limit)
              /\ Answer("size") /\ UNCHANGED hashers
           \/ /\ req.length = None \/ Within(req.length, req.limit)
              /\ \/ /\ req.body = "stream" /\ req.length # None
                    /\ hashers' = Hashers
                    /\ pc' = "stream" /\ UNCHANGED reply
                 \/ /\ req.body = "stream" /\ req.length = None /\ BufferLimit = None
                    /\ Answer("lengthRequired") /\ UNCHANGED hashers
                 \/ /\ req.body # "stream" \/ (req.length = None /\ BufferLimit # None)
                    /\ pc' = "collect" /\ UNCHANGED <<hashers, reply>>
  /\ UNCHANGED <<conf, req, buffer, seen, hashed, trailers, stored, advance, sent, broken, fault>>

-----------------------------------------------------------------------------
(* A buffered body.  A Bytes body is one frame; the frames of a stream are  *)
(* collected up to the limit.                                               *)

CollectData ==
  /\ pc = "collect" /\ req.body # "absent"
  /\ req.body = "bytes" => buffer = 0
  /\ \E n \in 1 .. MaxBody - sent :
       /\ sent' = sent + n
       /\ \/ ~Within(buffer + n, BufferLimit) /\ Answer("size") /\ UNCHANGED buffer
          \/ /\ Within(buffer + n, BufferLimit)
             /\ buffer' = buffer + n /\ UNCHANGED <<pc, reply>>
  /\ UNCHANGED <<conf, req, seen, hashers, hashed, trailers, stored, advance, broken, fault>>

Broken(point) ==
  /\ pc = point /\ req.body = "stream"
  /\ broken' = TRUE

CollectError ==
  /\ Broken("collect") /\ Answer("io")
  /\ UNCHANGED <<conf, req, buffer, seen, hashers, hashed, trailers, stored, advance, sent, fault>>

\* Trailers end a body.
CollectEnd ==
  /\ pc = "collect"
  /\ \/ req.body = "stream" /\ trailers' \in Digests
     \/ UNCHANGED trailers
  /\ pc' = "buffered"
  /\ UNCHANGED <<conf, req, buffer, seen, hashers, hashed, stored, advance, sent, broken, fault,
                 reply>>

\* The append's write of n bytes fails, perhaps with some of them written: it
\* truncates the object to the old offset, which may fail too.
WriteFails(n) ==
  /\ Answer("io")
  /\ \/ stored' = 0 /\ fault' = "undone"
     \/ stored' \in stored .. stored + n /\ fault' = "kept"

\* collect_buffered, and the append of one chunk.
Buffered ==
  /\ pc = "buffered"
  /\ LET verdict == Judgement(buffer, Algorithms, buffer)
     IN  \/ verdict # "ok" /\ Answer(verdict) /\ UNCHANGED <<stored, fault>>
         \/ /\ verdict = "ok"
            /\ \/ stored' = buffer /\ pc' = "commit" /\ UNCHANGED <<fault, reply>>
               \/ WriteFails(buffer)
  /\ UNCHANGED <<conf, req, buffer, seen, hashers, hashed, trailers, advance, sent, broken>>

-----------------------------------------------------------------------------
(* A streamed body: next_chunk, and the storage's append that polls it.     *)

\* The body is refused while it is written: the append truncates the object in the
\* same way, and the request is answered with the deferred error.
Fail(r) ==
  /\ Answer(r)
  /\ \/ stored' = 0 /\ UNCHANGED fault
     \/ fault' = "kept" /\ UNCHANGED stored

\* accept_data, and the write of the chunk.
StreamData ==
  /\ pc = "stream"
  /\ \E n \in 1 .. MaxBody - sent :
       /\ sent' = sent + n
       /\ \/ /\ ~Within(seen + n, req.limit)
             /\ Fail("size") /\ UNCHANGED <<seen, hashed>>
          \/ /\ Within(seen + n, req.limit) /\ seen + n > req.length
             /\ Fail("mismatch") /\ UNCHANGED <<seen, hashed>>
          \/ /\ Within(seen + n, req.limit) /\ seen + n <= req.length
             /\ seen' = seen + n /\ hashed' = hashed + n
             /\ \/ stored' = stored + n /\ UNCHANGED <<pc, fault, reply>>
                \/ WriteFails(n)
  /\ UNCHANGED <<conf, req, buffer, hashers, trailers, advance, broken>>

\* A broken stream is answered with an error of its own kind ("io").
StreamError ==
  /\ Broken("stream") /\ Fail("io")
  /\ UNCHANGED <<conf, req, buffer, seen, hashers, hashed, trailers, advance, sent>>

StreamEnd ==
  /\ pc = "stream"
  /\ trailers' \in Digests \cup {NoDigest}
  /\ pc' = "finish"
  /\ UNCHANGED <<conf, req, buffer, seen, hashers, hashed, stored, advance, sent, broken, fault,
                 reply>>

\* finish: the body is judged when all of it has been written.
Finish ==
  /\ pc = "finish"
  /\ LET verdict == Judgement(seen, hashers, hashed)
     IN  \/ verdict # "ok" /\ Fail(verdict)
         \/ verdict = "ok" /\ pc' = "commit" /\ UNCHANGED <<stored, fault, reply>>
  /\ UNCHANGED <<conf, req, buffer, seen, hashers, hashed, trailers, advance, sent, broken>>

\* IntakeBody::size, the declared length of a body that is streamed.
IntakeSize == IF req.body = "stream" /\ req.length # None THEN req.length ELSE buffer

\* commit_receive_body: the offset moves by the size that intake reported.
Commit ==
  /\ pc = "commit"
  /\ advance' = IntakeSize
  /\ Answer("ok")
  /\ UNCHANGED <<conf, req, buffer, seen, hashers, hashed, trailers, stored, sent, broken, fault>>

\* The append's sync_data fails with all bytes written; or the handler is dropped.
SyncFails == pc = "commit" /\ Answer("io")
Dropped   == pc \notin {"validate", "done"} /\ Answer("dropped")
GivesUp ==
  /\ SyncFails \/ Dropped
  /\ fault' = "kept"
  /\ UNCHANGED <<conf, req, buffer, seen, hashers, hashed, trailers, stored, advance, sent, broken>>

Next ==
  \/ Validate \/ CollectData \/ CollectError \/ CollectEnd \/ Buffered
  \/ StreamData \/ StreamError \/ StreamEnd \/ Finish \/ Commit \/ GivesUp

Spec == Init /\ [][Next]_vars

-----------------------------------------------------------------------------
(* Properties.                                                              *)

\* The digest the client asks to be checked.
Digest ==
  IF req.digest # NoDigest THEN req.digest
  ELSE IF conf.trailer THEN trailers ELSE NoDigest

\* The request, and the body as the client sent it, are in order: it ended,
\* has the declared length, keeps the limits, and matches the digest that
\* counts, which is of an algorithm that is configured.
InOrder ==
  /\ ~broken /\ req.length \in {None, sent} /\ Within(sent, req.limit)
  /\ req.body = "stream" /\ req.length = None =>
       Within(sent, conf.cap) /\ ~(req.limit = None /\ conf.cap = None)
  /\ conf.checksum /\ Digest # NoDigest => Digest.alg \in conf.algs /\ Digest.of = sent

\* What is acknowledged is in order and the committed offset counts exactly the
\* bytes in the object, although a streamed body's length is taken from its
\* header before a byte of it is read.
AcceptedIsInOrder == reply = "ok" => InOrder /\ stored = sent /\ advance = sent

\* A body is refused only for a reason: streaming and buffering, which check
\* at different moments, both take everything that is in order, if the storage
\* does.  (A trailer that does not parse is a reason even if checksums are off.)
RefusedForAReason ==
  reply \notin {"none", "ok", "dropped"} =>
    \/ ~InOrder
    \/ reply = "malformed" /\ trailers.alg = ""
    \/ reply = "io" /\ fault # "none"

\* The offset moves only for a body that is acknowledged.  Any other leaves nothing
\* in the object, whatever was written before the reason was found, unless the
\* truncation or the last sync fails as well, or the handler is dropped.
RefusedLeavesNothing == reply # "ok" => advance = 0 /\ (pc = "done" => stored = 0 \/ fault = "kept")

\* Streamed or buffered, a body is taken as a whole or not at all, as far as the
\* storage obeys.
AllOrNothing == AcceptedIsInOrder /\ RefusedLeavesNothing

\* The digest that is asked for at the end of a stream was being computed from
\* its start: the internal error of verify_streamed_checksum never happens.
DigestWasComputed == reply # "internal"

\* A body of unknown length never takes more memory than max_intake_buffer.
BufferBounded == req.body = "stream" /\ conf.cap # None => buffer <= conf.cap
=============================================================================
