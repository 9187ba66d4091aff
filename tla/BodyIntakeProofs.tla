-------------------------- MODULE BodyIntakeProofs --------------------------
(***************************************************************************)
(* The properties of BodyIntake for bodies, limits and sets of algorithms  *)
(* of any size.                                                            *)
(***************************************************************************)
EXTENDS BodyIntake, TLAPS

\* The headers passed validate_before_polling.
Validated ==
  /\ conf.checksum /\ req.digest # NoDigest =>
       req.digest.alg # "" /\ req.digest.alg \in conf.algs
  /\ req.length = None \/ Within(req.length, req.limit)

\* What has been read and written while a request is at each point.
Fresh ==
  pc = "validate" =>
    /\ buffer = 0 /\ sent = 0 /\ stored = 0 /\ seen = 0 /\ hashed = 0
    /\ trailers = NoDigest /\ ~broken

InMemory ==
  pc \in {"collect", "buffered"} =>
    /\ req.body # "stream" \/ req.length = None
    /\ req.body = "stream" => ~(req.limit = None /\ conf.cap = None)
    /\ buffer = sent /\ stored = 0 /\ ~broken /\ Validated
    /\ buffer # 0 => Within(buffer, BufferLimit)
    /\ pc = "collect" => trailers = NoDigest

Streaming ==
  pc \in {"stream", "finish"} =>
    /\ req.body = "stream" /\ req.length # None
    /\ seen = sent /\ hashed = sent /\ stored = sent /\ buffer = 0 /\ ~broken
    /\ seen <= req.length /\ Within(seen, req.limit)
    /\ Validated /\ hashers = Hashers
    /\ pc = "stream" => trailers = NoDigest

Accepted ==
  pc = "commit" =>
    /\ InOrder /\ stored = sent
    /\ sent = IF req.body = "stream" /\ req.length # None THEN req.length ELSE buffer

Answered ==
  /\ pc = "done" <=> reply # "none"
  /\ pc # "done" => advance = 0

Inv ==
  /\ TypeOK
  /\ Fresh /\ InMemory /\ Streaming /\ Accepted /\ Answered
  /\ AcceptedIsInOrder /\ RefusedForAReason /\ RefusedLeavesNothing
  /\ DigestWasComputed /\ BufferBounded

-----------------------------------------------------------------------------
LEMMA SizeNat == MaxBody \in Nat
BY ConstantsAssumption

\* The numbers among the state and the fields of the request.
Numbers ==
  /\ conf.cap \in Nat \cup {-1}
  /\ req.length \in -1 .. MaxBody /\ req.limit \in Nat \cup {-1}
  /\ buffer \in 0 .. MaxBody /\ seen \in 0 .. MaxBody /\ hashed \in 0 .. MaxBody
  /\ stored \in 0 .. MaxBody /\ advance \in 0 .. MaxBody /\ sent \in 0 .. MaxBody
  /\ MaxBody \in Nat

\* The other fields; "none" and "" are no algorithms.
Names ==
  /\ conf.checksum \in BOOLEAN /\ conf.trailer \in BOOLEAN
  /\ conf.algs \subseteq Algorithms
  /\ req.body \in {"absent", "bytes", "stream"}
  /\ req.digest \in Digests \cup {NoDigest}
  /\ trailers \in Digests \cup {NoDigest}
  /\ NoDigest \notin Digests
  /\ \A d \in Digests : d.alg \in Algorithms \cup {""} /\ d.of \in 0 .. MaxBody
  /\ NoDigest.alg = "none" /\ NoDigest.of = 0
  /\ "" \notin Algorithms /\ "none" \notin Algorithms

LEMMA Fields == TypeOK => Numbers /\ Names
<1> SUFFICES ASSUME TypeOK PROVE Numbers /\ Names
  OBVIOUS
<1>1. /\ conf.checksum \in BOOLEAN /\ conf.trailer \in BOOLEAN
      /\ conf.algs \in Supported /\ conf.cap \in Caps
      /\ req.body \in {"absent", "bytes", "stream"}
      /\ req.length \in None .. MaxBody /\ req.limit \in Limits
      /\ req.digest \in Digests \cup {NoDigest}
      /\ trailers \in Digests \cup {NoDigest}
  BY DEF TypeOK
<1>2. conf.algs \subseteq Algorithms /\ conf.cap \in Nat \cup {-1} /\ req.limit \in Nat \cup {-1}
  BY <1>1, ConstantsAssumption
<1>3. /\ NoDigest \notin Digests
      /\ \A d \in Digests : d.alg \in Algorithms \cup {""} /\ d.of \in 0 .. MaxBody
      /\ NoDigest.alg = "none" /\ NoDigest.of = 0
      /\ "" \notin Algorithms /\ "none" \notin Algorithms
  BY ConstantsAssumption DEF Digests, NoDigest
<1>4. /\ buffer \in 0 .. MaxBody /\ seen \in 0 .. MaxBody /\ hashed \in 0 .. MaxBody
      /\ stored \in 0 .. MaxBody /\ advance \in 0 .. MaxBody /\ sent \in 0 .. MaxBody
  BY DEF TypeOK
<1>5. Numbers
  BY <1>1, <1>2, <1>4, SizeNat DEF Numbers, None
<1>6. Names
  BY <1>1, <1>2, <1>3 DEF Names
<1> QED
  BY <1>5, <1>6

LEMMA InitInv == Init => Inv
<1> SUFFICES ASSUME Init PROVE Inv
  OBVIOUS
<1>1. TypeOK
  <2>1. {buffer, seen, hashed, stored, advance, sent} \subseteq 0 .. MaxBody
    <3>1. buffer = 0 /\ seen = 0 /\ hashed = 0 /\ stored = 0 /\ advance = 0 /\ sent = 0
      BY DEF Init
    <3>2. 0 \in 0 .. MaxBody
      BY SizeNat
    <3> QED
      BY <3>1, <3>2
  <2> QED
    BY <2>1 DEF Init, TypeOK, Replies
<1>2. BufferBounded
  <2>1. conf.cap \in Nat \cup {-1}
    BY <1>1, Fields DEF Numbers
  <2> QED
    BY <2>1 DEF Init, BufferBounded, None
<1>3. /\ Fresh /\ InMemory /\ Streaming /\ Accepted /\ Answered
      /\ AcceptedIsInOrder /\ RefusedForAReason /\ RefusedLeavesNothing /\ DigestWasComputed
  BY DEF Init, Fresh, InMemory, Streaming, Accepted, Answered, AcceptedIsInOrder,
         RefusedForAReason, RefusedLeavesNothing, DigestWasComputed
<1> QED
  BY <1>1, <1>2, <1>3 DEF Inv

-----------------------------------------------------------------------------
\* What a judgement other than "ok" says of the body, and what "ok" says.
LEMMA JudgementSound ==
  ASSUME TypeOK, Validated, NEW n \in 0 .. MaxBody, NEW calculable,
         calculable = Algorithms \/ calculable = Hashers
  PROVE  LET verdict == Judgement(n, calculable, n)
         IN  /\ verdict \in Replies \ {"none", "internal"}
             /\ verdict = "ok" =>
                  /\ req.length \in {None, n}
                  /\ conf.checksum /\ Digest # NoDigest =>
                       Digest.alg \in conf.algs /\ Digest.of = n
             /\ verdict # "ok" =>
                  \/ req.length \notin {None, n}
                  \/ conf.checksum /\ Digest # NoDigest
                       /\ ~(Digest.alg \in conf.algs /\ Digest.of = n)
                  \/ verdict = "malformed" /\ trailers.alg = ""
<1> USE Fields DEF Names
<1>1. CASE conf.checksum
  <2>1. CASE req.digest # NoDigest
    <3>1. /\ Effective = req.digest /\ Digest = req.digest
          /\ req.digest.alg \in conf.algs /\ req.digest.alg # ""
      BY <1>1, <2>1 DEF Effective, HeaderDigest, Digest, Validated
    <3>2. Hashers = {req.digest.alg}
      BY <1>1, <2>1, <3>1 DEF Hashers, HeaderDigest
    <3> QED
      BY <1>1, <2>1, <3>1, <3>2 DEF Judgement, Known, Replies
  <2>2. CASE req.digest = NoDigest /\ conf.trailer
    <3>1. Effective = trailers /\ Digest = trailers
      BY <1>1, <2>2 DEF Effective, HeaderDigest, Digest
    <3>2. Hashers = conf.algs
      BY <1>1, <2>2 DEF Hashers, HeaderDigest
    <3> QED
      BY <1>1, <2>2, <3>1, <3>2 DEF Judgement, Known, Replies
  <2>3. CASE req.digest = NoDigest /\ ~conf.trailer
    <3>1. Effective = NoDigest /\ Digest = NoDigest
      BY <1>1, <2>3 DEF Effective, HeaderDigest, Digest
    <3> QED
      BY <1>1, <2>3, <3>1 DEF Judgement, Known, Replies
  <2> QED
    BY <2>1, <2>2, <2>3
<1>2. CASE ~conf.checksum
  <2>1. Effective.alg = "" => trailers.alg = ""
    BY DEF Effective, HeaderDigest
  <2> QED
    BY <1>2, <2>1 DEF Judgement, Replies
<1> QED
  BY <1>1, <1>2

-----------------------------------------------------------------------------
(* Every action keeps the invariant.                                        *)

LEMMA ValidateInv == ASSUME Inv, Validate PROVE Inv'
<1> USE DEF Inv
<1>n. Numbers
  BY Fields
<1>s. Names
  BY Fields
<1>1. TypeOK'
  <2>1. Hashers \subseteq Algorithms
    BY <1>s DEF Names, Hashers, HeaderDigest
  <2>2. hashers' \subseteq Algorithms
    BY <2>1 DEF TypeOK, Validate
  <2>3. pc' \in {"done", "stream", "collect"} /\ reply' \in Replies
    BY DEF TypeOK, Validate, Answer, Replies
  <2>4. UNCHANGED <<conf, req, buffer, seen, hashed, trailers, stored, advance, sent, broken, fault>>
    BY DEF Validate
  <2> QED
    BY <2>2, <2>3, <2>4 DEF TypeOK
<1>2. \/ /\ Validated' /\ BufferLimit' = BufferLimit
         /\ Hashers' = Hashers /\ InOrder' = InOrder
      \/ pc' = "done"
  BY <1>s DEF Names, Validate, Validated, Answer, BufferLimit, Hashers, HeaderDigest, Known, InOrder, Digest
<1>3. Fresh' /\ Accepted' /\ Answered'
  BY DEF Validate, Answer, Fresh, Accepted, Answered
<1>7. Streaming'
  <2>1. Within(0, req.limit) /\ (req.length # None => 0 <= req.length)
    BY <1>n DEF Numbers, Within, None
  <2> QED
    BY <1>2, <2>1 DEF Validate, Answer, Fresh, Streaming, Within
<1>4. InMemory'
  BY <1>2 DEF Validate, Answer, Fresh, InMemory, BufferLimit, Tighter, None
<1>5. AcceptedIsInOrder' /\ RefusedLeavesNothing' /\ DigestWasComputed' /\ BufferBounded'
  BY DEF Validate, Answer, Fresh, Answered, AcceptedIsInOrder, RefusedLeavesNothing,
         DigestWasComputed, BufferBounded
<1>6. RefusedForAReason'
  BY <1>n, <1>s
  DEF Numbers, Names, Validate, Answer, Fresh, RefusedForAReason, InOrder, Digest, Known,
      Within, BufferLimit, Tighter, None
<1> QED
  BY <1>1, <1>3, <1>4, <1>5, <1>6, <1>7

LEMMA CollectDataInv == ASSUME Inv, CollectData PROVE Inv'
<1> USE DEF Inv
<1>n. Numbers
  BY Fields
<1>s. Names
  BY Fields
<1>1. PICK n \in 1 .. MaxBody - sent :
        /\ sent' = sent + n
        /\ \/ ~Within(buffer + n, BufferLimit) /\ Answer("size") /\ UNCHANGED buffer
           \/ /\ Within(buffer + n, BufferLimit)
              /\ buffer' = buffer + n /\ UNCHANGED <<pc, reply>>
  BY DEF CollectData
<1>2. /\ pc = "collect" /\ buffer = sent /\ stored = 0 /\ advance = 0 /\ ~broken /\ Validated
      /\ trailers = NoDigest
      /\ UNCHANGED <<conf, req, seen, hashers, hashed, trailers, stored, advance, broken, fault>>
  BY DEF CollectData, InMemory, Answered
<1>3. TypeOK'
  <2>1. sent' \in 0 .. MaxBody /\ buffer' \in 0 .. MaxBody
    BY <1>1, <1>2, <1>n DEF Numbers
  <2> QED
    BY <1>1, <1>2, <2>1 DEF TypeOK, Answer, Replies
<1>4. BufferLimit' = BufferLimit /\ Validated'
  BY <1>2 DEF BufferLimit, Validated
<1>5. CASE ~Within(buffer + n, BufferLimit) /\ Answer("size") /\ UNCHANGED buffer
  <2>1. ~InOrder'
    BY <1>1, <1>2, <1>5, <1>n DEF Numbers, InOrder, Within, BufferLimit, Tighter, None, InMemory
  <2> QED
    BY <1>2, <1>3, <1>5, <2>1
    DEF Answer, Fresh, InMemory, Streaming, Accepted, Answered, AcceptedIsInOrder,
        RefusedForAReason, RefusedLeavesNothing, DigestWasComputed, BufferBounded
<1>6. CASE /\ Within(buffer + n, BufferLimit)
           /\ buffer' = buffer + n /\ UNCHANGED <<pc, reply>>
  <2>1. InMemory'
    BY <1>1, <1>2, <1>4, <1>6 DEF InMemory
  <2>2. BufferBounded'
    <3> SUFFICES ASSUME req.body = "stream", conf.cap # None PROVE buffer + n <= conf.cap
      BY <1>2, <1>6 DEF BufferBounded
    <3>1. Within(buffer + n, Tighter(req.limit, conf.cap)) /\ buffer + n \in Nat
      BY <1>1, <1>6, <1>n DEF Numbers, BufferLimit
    <3> QED
      BY <3>1, <1>n DEF Numbers, Within, Tighter, None
  <2> QED
    BY <1>2, <1>3, <1>6, <2>1, <2>2
    DEF Fresh, Streaming, Accepted, Answered, AcceptedIsInOrder,
        RefusedForAReason, RefusedLeavesNothing, DigestWasComputed
<1> QED
  BY <1>1, <1>5, <1>6

LEMMA CollectErrorInv == ASSUME Inv, CollectError PROVE Inv'
<1> USE DEF Inv
<1>1. TypeOK'
  BY DEF TypeOK, CollectError, Broken, Answer, Replies
<1>2. pc = "collect" /\ stored = 0 /\ advance = 0
  BY DEF CollectError, Broken, InMemory, Answered
<1> QED
  BY <1>1, <1>2
  DEF CollectError, Broken, Answer, Fresh, InMemory, Streaming, Accepted, Answered,
      AcceptedIsInOrder, RefusedForAReason, RefusedLeavesNothing, DigestWasComputed,
      BufferBounded, InOrder

LEMMA CollectEndInv == ASSUME Inv, CollectEnd PROVE Inv'
<1> USE DEF Inv
<1>1. TypeOK'
  BY DEF TypeOK, CollectEnd
<1>2. InMemory'
  BY DEF CollectEnd, InMemory, Validated, BufferLimit
<1> QED
  BY <1>1, <1>2
  DEF CollectEnd, Fresh, Streaming, Accepted, Answered, AcceptedIsInOrder,
      RefusedForAReason, RefusedLeavesNothing, DigestWasComputed, BufferBounded

\* What is buffered keeps the limits.
LEMMA BufferedWithin ==
  ASSUME Inv, pc = "buffered"
  PROVE  /\ Within(buffer, req.limit)
         /\ req.body = "stream" /\ req.length = None =>
              Within(buffer, conf.cap) /\ ~(req.limit = None /\ conf.cap = None)
<1>1. Numbers
  BY Fields DEF Inv
<1> QED
  BY <1>1 DEF Inv, InMemory, Numbers, Within, BufferLimit, Tighter, None

LEMMA BufferedInv == ASSUME Inv, Buffered PROVE Inv'
<1> USE DEF Inv
<1> DEFINE verdict == Judgement(buffer, Algorithms, buffer)
<1>n. Numbers
  BY Fields
<1>1. /\ pc = "buffered" /\ buffer = sent /\ stored = 0 /\ advance = 0 /\ ~broken /\ Validated
      /\ reply = "none" /\ (req.body # "stream" \/ req.length = None)
      /\ UNCHANGED <<conf, req, buffer, seen, hashers, hashed, trailers, advance, sent, broken>>
      /\ \/ verdict # "ok" /\ Answer(verdict) /\ UNCHANGED <<stored, fault>>
         \/ verdict = "ok" /\ stored' = buffer /\ pc' = "commit" /\ UNCHANGED <<fault, reply>>
         \/ verdict = "ok" /\ WriteFails(buffer)
  BY DEF Buffered, InMemory, Answered
<1>2. /\ verdict \in Replies \ {"none", "internal"}
      /\ verdict = "ok" =>
           /\ req.length \in {None, buffer}
           /\ conf.checksum /\ Digest # NoDigest => Digest.alg \in conf.algs /\ Digest.of = buffer
      /\ verdict # "ok" =>
           \/ req.length \notin {None, buffer}
           \/ conf.checksum /\ Digest # NoDigest
                /\ ~(Digest.alg \in conf.algs /\ Digest.of = buffer)
           \/ verdict = "malformed" /\ trailers.alg = ""
  BY <1>1, <1>n, JudgementSound DEF Numbers
<1> HIDE DEF verdict
<1>3. InOrder' = InOrder
  BY <1>1 DEF InOrder, Digest
<1>4. TypeOK'
  <2>1. stored' \in 0 .. MaxBody
    BY <1>1, <1>n DEF WriteFails, Numbers
  <2>2. pc' \in {"done", "commit"} /\ reply' \in Replies
    BY <1>1, <1>2 DEF Answer, WriteFails, Replies
  <2>3. fault' \in {"none", "undone", "kept"}
    BY <1>1 DEF TypeOK, WriteFails
  <2> QED
    BY <1>1, <2>1, <2>2, <2>3 DEF TypeOK
<1>7. CASE WriteFails(buffer)
  BY <1>1, <1>4, <1>7
  DEF WriteFails, Answer, Fresh, InMemory, Streaming, Accepted, Answered, AcceptedIsInOrder,
      RefusedForAReason, RefusedLeavesNothing, DigestWasComputed, BufferBounded
<1>5. CASE verdict # "ok" /\ Answer(verdict) /\ UNCHANGED <<stored, fault>>
  <2>1. ~InOrder' \/ (verdict = "malformed" /\ trailers'.alg = "")
    BY <1>1, <1>2, <1>3, <1>5 DEF InOrder
  <2> QED
    BY <1>1, <1>2, <1>4, <1>5, <2>1
    DEF Answer, Fresh, InMemory, Streaming, Accepted, Answered, AcceptedIsInOrder,
        RefusedForAReason, RefusedLeavesNothing, DigestWasComputed, BufferBounded
<1>6. CASE verdict = "ok" /\ stored' = buffer /\ pc' = "commit" /\ UNCHANGED <<fault, reply>>
  <2>1. InOrder'
    BY <1>1, <1>2, <1>3, <1>6, BufferedWithin DEF InOrder
  <2> QED
    BY <1>1, <1>4, <1>6, <2>1
    DEF Fresh, InMemory, Streaming, Accepted, Answered, AcceptedIsInOrder,
        RefusedForAReason, RefusedLeavesNothing, DigestWasComputed, BufferBounded
<1> QED
  BY <1>1, <1>5, <1>6, <1>7

LEMMA StreamDataInv == ASSUME Inv, StreamData PROVE Inv'
<1> USE DEF Inv
<1>n. Numbers
  BY Fields
<1>1. PICK n \in 1 .. MaxBody - sent :
        /\ sent' = sent + n
        /\ \/ ~Within(seen + n, req.limit) /\ Fail("size") /\ UNCHANGED <<seen, hashed>>
           \/ /\ Within(seen + n, req.limit) /\ seen + n > req.length
              /\ Fail("mismatch") /\ UNCHANGED <<seen, hashed>>
           \/ /\ Within(seen + n, req.limit) /\ seen + n <= req.length
              /\ seen' = seen + n /\ hashed' = hashed + n
              /\ \/ stored' = stored + n /\ UNCHANGED <<pc, fault, reply>>
                 \/ WriteFails(n)
  BY DEF StreamData
<1>2. /\ pc = "stream" /\ seen = sent /\ hashed = sent /\ stored = sent /\ buffer = 0
      /\ ~broken /\ Validated /\ hashers = Hashers /\ advance = 0 /\ reply = "none"
      /\ trailers = NoDigest /\ req.length # None /\ req.body = "stream"
      /\ UNCHANGED <<conf, req, buffer, hashers, trailers, advance, broken>>
  BY DEF StreamData, Streaming, Answered
<1>3. TypeOK'
  <2>1. /\ sent' \in 0 .. MaxBody /\ seen' \in 0 .. MaxBody /\ hashed' \in 0 .. MaxBody
        /\ stored' \in 0 .. MaxBody
    BY <1>1, <1>2, <1>n DEF Numbers, Fail, WriteFails
  <2>2. fault' \in {"none", "undone", "kept"}
    BY <1>1 DEF TypeOK, Fail, WriteFails
  <2> QED
    BY <1>1, <1>2, <2>1, <2>2 DEF TypeOK, Fail, WriteFails, Answer, Replies
<1>4. CASE (~Within(seen + n, req.limit) /\ Fail("size")) \/ (seen + n > req.length /\ Fail("mismatch"))
  <2>1. ~InOrder'
    BY <1>1, <1>2, <1>4, <1>n DEF Numbers, InOrder, Within, None
  <2> QED
    BY <1>2, <1>3, <1>4, <2>1
    DEF Fail, Answer, Fresh, InMemory, Streaming, Accepted, Answered, AcceptedIsInOrder,
        RefusedForAReason, RefusedLeavesNothing, DigestWasComputed, BufferBounded
<1>5. CASE /\ Within(seen + n, req.limit) /\ seen + n <= req.length
           /\ seen' = seen + n /\ hashed' = hashed + n /\ stored' = stored + n
           /\ UNCHANGED <<pc, fault, reply>>
  <2>1. Validated' /\ Hashers' = Hashers
    BY <1>2 DEF Validated, Hashers, HeaderDigest
  <2>2. Streaming'
    BY <1>1, <1>2, <1>5, <2>1 DEF Streaming
  <2> QED
    BY <1>2, <1>3, <1>5, <2>2
    DEF Fresh, InMemory, Accepted, Answered, AcceptedIsInOrder,
        RefusedForAReason, RefusedLeavesNothing, DigestWasComputed, BufferBounded
<1>6. CASE WriteFails(n)
  BY <1>2, <1>3, <1>6
  DEF WriteFails, Answer, Fresh, InMemory, Streaming, Accepted, Answered, AcceptedIsInOrder,
      RefusedForAReason, RefusedLeavesNothing, DigestWasComputed, BufferBounded
<1> QED
  BY <1>1, <1>4, <1>5, <1>6

LEMMA StreamErrorInv == ASSUME Inv, StreamError PROVE Inv'
<1> USE DEF Inv
<1>1. TypeOK'
  BY SizeNat DEF TypeOK, StreamError, Broken, Fail, Answer, Replies
<1>2. pc = "stream" /\ advance = 0 /\ buffer = 0
  BY DEF StreamError, Broken, Streaming, Answered
<1> QED
  BY <1>1, <1>2
  DEF StreamError, Broken, Fail, Answer, Fresh, InMemory, Streaming, Accepted, Answered,
      AcceptedIsInOrder, RefusedForAReason, RefusedLeavesNothing, DigestWasComputed,
      BufferBounded, InOrder

LEMMA StreamEndInv == ASSUME Inv, StreamEnd PROVE Inv'
<1> USE DEF Inv
<1>1. TypeOK'
  BY DEF TypeOK, StreamEnd
<1>2. Streaming'
  BY DEF StreamEnd, Streaming, Validated, Hashers, HeaderDigest
<1> QED
  BY <1>1, <1>2
  DEF StreamEnd, Fresh, InMemory, Accepted, Answered, AcceptedIsInOrder,
      RefusedForAReason, RefusedLeavesNothing, DigestWasComputed, BufferBounded

LEMMA FinishInv == ASSUME Inv, Finish PROVE Inv'
<1> USE DEF Inv
<1> DEFINE verdict == Judgement(seen, hashers, hashed)
<1>n. Numbers
  BY Fields
<1>1. /\ pc = "finish" /\ seen = sent /\ hashed = sent /\ stored = sent /\ buffer = 0
      /\ ~broken /\ Validated /\ hashers = Hashers /\ advance = 0 /\ reply = "none"
      /\ req.length # None /\ req.body = "stream" /\ Within(seen, req.limit)
      /\ UNCHANGED <<conf, req, buffer, seen, hashers, hashed, trailers, advance, sent, broken>>
      /\ \/ verdict # "ok" /\ Fail(verdict)
         \/ verdict = "ok" /\ pc' = "commit" /\ UNCHANGED <<stored, fault, reply>>
  BY DEF Finish, Streaming, Answered
<1>2. /\ verdict \in Replies \ {"none", "internal"}
      /\ verdict = "ok" =>
           /\ req.length \in {None, sent}
           /\ conf.checksum /\ Digest # NoDigest => Digest.alg \in conf.algs /\ Digest.of = sent
      /\ verdict # "ok" =>
           \/ req.length \notin {None, sent}
           \/ conf.checksum /\ Digest # NoDigest
                /\ ~(Digest.alg \in conf.algs /\ Digest.of = sent)
           \/ verdict = "malformed" /\ trailers.alg = ""
  BY <1>1, <1>n, JudgementSound DEF Numbers
<1> HIDE DEF verdict
<1>3. InOrder' = InOrder
  BY <1>1 DEF InOrder, Digest
<1>4. TypeOK'
  <2>1. stored' \in 0 .. MaxBody
    BY <1>1, <1>n DEF Numbers, Fail
  <2>2. reply' \in Replies /\ pc' \in {"done", "commit"} /\ fault' \in {"none", "undone", "kept"}
    BY <1>1, <1>2 DEF TypeOK, Fail, Answer, Replies
  <2> QED
    BY <1>1, <2>1, <2>2 DEF TypeOK
<1>5. CASE verdict # "ok" /\ Fail(verdict)
  <2>1. ~InOrder' \/ (verdict = "malformed" /\ trailers'.alg = "")
    BY <1>1, <1>2, <1>3, <1>5 DEF InOrder
  <2> QED
    BY <1>1, <1>2, <1>4, <1>5, <2>1
    DEF Fail, Answer, Fresh, InMemory, Streaming, Accepted, Answered, AcceptedIsInOrder,
        RefusedForAReason, RefusedLeavesNothing, DigestWasComputed, BufferBounded
<1>6. CASE verdict = "ok" /\ pc' = "commit" /\ UNCHANGED <<stored, fault, reply>>
  <2>1. InOrder'
    BY <1>1, <1>2, <1>3, <1>6 DEF InOrder
  <2> QED
    BY <1>1, <1>2, <1>4, <1>6, <2>1
    DEF Fresh, InMemory, Streaming, Accepted, Answered, AcceptedIsInOrder,
        RefusedForAReason, RefusedLeavesNothing, DigestWasComputed, BufferBounded
<1> QED
  BY <1>1, <1>5, <1>6

LEMMA CommitInv == ASSUME Inv, Commit PROVE Inv'
<1> USE DEF Inv
<1>n. Numbers
  BY Fields
<1>1. /\ InOrder /\ stored = sent /\ advance' = sent
      /\ UNCHANGED <<conf, req, buffer, seen, hashers, hashed, trailers, stored, sent, broken, fault>>
      /\ pc' = "done" /\ reply' = "ok"
  BY DEF Commit, Accepted, IntakeSize, Answer
<1>2. InOrder'
  BY <1>1 DEF InOrder, Digest
<1>3. TypeOK'
  BY <1>1, <1>n DEF TypeOK, Numbers, Replies
<1> QED
  BY <1>1, <1>2, <1>3
  DEF Fresh, InMemory, Streaming, Accepted, Answered, AcceptedIsInOrder,
      RefusedForAReason, RefusedLeavesNothing, DigestWasComputed, BufferBounded

LEMMA GivesUpInv == ASSUME Inv, GivesUp PROVE Inv'
<1> USE DEF Inv
<1>1. /\ pc' = "done" /\ reply' \in {"io", "dropped"} /\ fault' = "kept" /\ advance = 0
      /\ UNCHANGED <<conf, req, buffer, seen, hashers, hashed, trailers, stored, advance, sent, broken>>
  BY DEF GivesUp, SyncFails, Dropped, Answer, Answered
<1>2. TypeOK'
  BY <1>1 DEF TypeOK, Replies
<1> QED
  BY <1>1, <1>2
  DEF Fresh, InMemory, Streaming, Accepted, Answered, AcceptedIsInOrder,
      RefusedForAReason, RefusedLeavesNothing, DigestWasComputed, BufferBounded

LEMMA NextInv == Inv /\ [Next]_vars => Inv'
<1> SUFFICES ASSUME Inv, [Next]_vars PROVE Inv'
  OBVIOUS
<1>1. CASE UNCHANGED vars
  <2>1. /\ InOrder' = InOrder /\ Validated' = Validated /\ BufferLimit' = BufferLimit
        /\ Hashers' = Hashers
    BY <1>1 DEF vars, InOrder, Digest, Validated, BufferLimit, Hashers, HeaderDigest
  <2>2. TypeOK' /\ Fresh' /\ InMemory'
    BY <1>1, <2>1 DEF vars, Inv, TypeOK, Fresh, InMemory
  <2>3. Streaming' /\ Accepted' /\ Answered'
    BY <1>1, <2>1 DEF vars, Inv, Streaming, Accepted, Answered
  <2>4. /\ AcceptedIsInOrder' /\ RefusedForAReason' /\ RefusedLeavesNothing'
        /\ DigestWasComputed' /\ BufferBounded'
    BY <1>1, <2>1
    DEF vars, Inv, AcceptedIsInOrder, RefusedForAReason, RefusedLeavesNothing,
        DigestWasComputed, BufferBounded
  <2> QED
    BY <2>2, <2>3, <2>4 DEF Inv
<1>2. CASE Next
  BY <1>2, ValidateInv, CollectDataInv, CollectErrorInv, CollectEndInv, BufferedInv,
     StreamDataInv, StreamErrorInv, StreamEndInv, FinishInv, CommitInv, GivesUpInv
  DEF Next
<1> QED
  BY <1>1, <1>2

LEMMA InvAlways == Spec => []Inv
BY InitInv, NextInv, PTL DEF Spec

-----------------------------------------------------------------------------
\* Counters stay within the size of a body and a verdict is one of the answers.
THEOREM TypeCorrect == Spec => []TypeOK
BY InvAlways, PTL DEF Inv

\* What is acknowledged is in order and counted: header and trailer digests,
\* declared lengths and limits are all checked by the time a body is committed,
\* whichever of the two paths it took.
THEOREM AcceptedAlways == Spec => []AcceptedIsInOrder
BY InvAlways, PTL DEF Inv

\* Streaming and buffering refuse only bodies that are not in order.
THEOREM RefusedAlways == Spec => []RefusedForAReason
BY InvAlways, PTL DEF Inv

\* A body is taken as a whole or not at all, unless the storage does not even take
\* back what it wrote.
THEOREM AllOrNothingAlways == Spec => []AllOrNothing
BY InvAlways, PTL DEF Inv, AllOrNothing

\* The hashers chosen before the body is read suffice for any trailer.
THEOREM DigestThere == Spec => []DigestWasComputed
BY InvAlways, PTL DEF Inv

\* Memory for a body of unknown length is bounded by max_intake_buffer.
THEOREM BufferAlways == Spec => []BufferBounded
BY InvAlways, PTL DEF Inv
=============================================================================
