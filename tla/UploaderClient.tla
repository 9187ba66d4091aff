--------------------------- MODULE UploaderClient ---------------------------
(***************************************************************************)
(* The uploader client, crates/tus-uploader/src/client: an upload made of  *)
(* parts that are created, sent and retried by concurrent tasks, then      *)
(* concatenated, or cleaned up when one of them fails.  One part is what   *)
(* Client::upload_from sends; the resume loop is the same.                 *)
(*                                                                         *)
(* The network loses, delays and duplicates (a PATCH the client has given  *)
(* up on may still arrive).  The server is external: it keeps the bytes of *)
(* a PATCH whose offset is its own, perhaps not all of them, may refuse,   *)
(* may forget its last bytes, and may expire an upload.                    *)
(*                                                                         *)
(* A byte is its position in the source.  A definition marked "Faulty" is  *)
(* the one below it with a plausible bug; nothing uses it.                 *)
(***************************************************************************)
EXTENDS Integers, Sequences, FiniteSets

CONSTANTS
  SourceLength,    \* UploadSource::len
  PartSize,        \* ParallelUpload::part_size
  MaxConcurrency,  \* ParallelUpload::max_concurrency
  MaxChunk,        \* Client::max_chunk_size
  MaxRetries,      \* Client::max_retries
  InitialBody      \* max_initial_upload_size if the server takes a body with a creation, else 0

ASSUME ConstantsAssumption ==
  /\ {SourceLength, PartSize, MaxConcurrency, MaxChunk} \subseteq Nat \ {0}
  /\ {MaxRetries, InitialBody} \subseteq Nat

VARIABLES
  res, stored,   \* the server: the resource of each part and its bytes
  net, ans,      \* the request a task waits for, and the answer
  late,          \* a request whose task has given it up
  pc,            \* where the task of each part is
  attempt, last, \* retries since the last progress, last_observed_offset
  sent,          \* the offset patch_source has reached
  known,         \* PartOutcome::created_url is set
  failed,        \* PartOutcome::result is an error
  seen, total,   \* PartProgress::last; ParallelProgressState::uploaded
  pend, reported,\* the sum this task added up; ParallelProgressState::reported
  next, created, urls, \* next_index, created_urls, part_urls
  main, tried,   \* where upload_parallel is; the parts whose DELETE was sent
  final,         \* the parts the server concatenated
  stall          \* failed attempts of a part since the server's offset advanced

server == <<res, stored, final>>
wire   == <<net, ans, late>>
task   == <<attempt, last, sent, known, failed, stall>>
prog   == <<seen, total, pend, reported>>
caller == <<next, created, urls, main, tried>>
vars   == <<server, wire, pc, task, prog, caller>>

PartCount == (SourceLength + PartSize - 1) \div PartSize
Parts     == 1 .. PartCount
None      == -1
NoUrl     == 0
NoReq     == [kind |-> "none", offset |-> 0, len |-> 0]
NoAns     == [kind |-> "none", offset |-> 0]
Error     == [kind |-> "retryable", offset |-> 0]
Refusal   == [kind |-> "permanent", offset |-> 0]
Ok(o)     == [kind |-> "ok", offset |-> o]

Smaller(a, b) == IF a <= b THEN a ELSE b

\* read_parallel_part: where a part begins and how long it is.
Start(p)     == (p - 1) * PartSize
PartLen(p)   == Smaller(SourceLength - Start(p), PartSize)
PartBytes(p) == [k \in 1 .. PartLen(p) |-> Start(p) + k]

\* read_chunk: the bytes of a part from an offset on.
Chunk(p, from, n) == [k \in 1 .. n |-> Start(p) + from + k]

Waiting  == {"post", "head", "patch", "lastHead"}
Running  == Waiting \cup {"report"}
Points   == Running \cup {"new", "finished", "joined", "cancelled"}
Requests == [kind : {"none", "post", "head", "patch"},
             offset : 0 .. PartSize, len : 0 .. PartSize]
Answers  == [kind : {"none", "retryable", "permanent", "ok"}, offset : 0 .. PartSize]

\* The types of the session, of each part and of the requests under way.
TypeOK ==
  /\ res \in [Parts -> {"none", "live", "gone"}]
  /\ stored \in [Parts -> Seq(1 .. SourceLength)]
  /\ final \in Seq(Parts)
  /\ net \in [Parts -> Requests] /\ late \in [Parts -> Requests]
  /\ ans \in [Parts -> Answers]
  /\ pc \in [Parts -> Points]
  /\ attempt \in [Parts -> 0 .. MaxRetries]
  /\ last \in [Parts -> None .. PartSize]
  /\ sent \in [Parts -> 0 .. PartSize]
  /\ known \in [Parts -> BOOLEAN] /\ failed \in [Parts -> BOOLEAN]
  /\ seen \in [Parts -> 0 .. PartSize] /\ pend \in [Parts -> 0 .. SourceLength]
  /\ total \in 0 .. SourceLength /\ reported \in 0 .. SourceLength
  /\ next \in 1 .. PartCount + 1
  /\ created \in SUBSET Parts /\ tried \in SUBSET Parts
  /\ urls \in [Parts -> Parts \cup {NoUrl}]
  /\ main \in {"run", "drain", "cleanup", "concat", "ok", "error"}
  /\ stall \in [Parts -> Nat]

Init ==
  /\ res = [p \in Parts |-> "none"] /\ stored = [p \in Parts |-> <<>>] /\ final = <<>>
  /\ net = [p \in Parts |-> NoReq] /\ late = [p \in Parts |-> NoReq]
  /\ ans = [p \in Parts |-> NoAns]
  /\ pc = [p \in Parts |-> "new"]
  /\ attempt = [p \in Parts |-> 0] /\ last = [p \in Parts |-> None]
  /\ sent = [p \in Parts |-> 0] /\ stall = [p \in Parts |-> 0]
  /\ known = [p \in Parts |-> FALSE] /\ failed = [p \in Parts |-> FALSE]
  /\ seen = [p \in Parts |-> 0] /\ pend = [p \in Parts |-> 0]
  /\ total = 0 /\ reported = 0
  /\ next = 1 /\ created = {} /\ urls = [p \in Parts |-> NoUrl]
  /\ main = "run" /\ tried = {}

-----------------------------------------------------------------------------
(* The task of a part.                                                      *)

\* Transport::send: the task waits for the answer.
Send(p, at, req) ==
  /\ net' = [net EXCEPT ![p] = req]
  /\ ans' = [ans EXCEPT ![p] = NoAns]
  /\ pc' = [pc EXCEPT ![p] = at]
  /\ UNCHANGED late

HeadReq       == [kind |-> "head", offset |-> 0, len |-> 0]
PatchReq(p, o) ==
  [kind |-> "patch", offset |-> o, len |-> Smaller(PartLen(p) - o, MaxChunk)]

Finish(p, isError) ==
  /\ pc' = [pc EXCEPT ![p] = "finished"]
  /\ failed' = [failed EXCEPT ![p] = isError]
  /\ ans' = [ans EXCEPT ![p] = NoAns]
  /\ UNCHANGED <<net, late>>

\* upload_partial_with_capabilities: a short part rides on its creation.
WithBody(p) == PartLen(p) <= InitialBody

\* on_progress, up to the lock on reported: the part's share that is new is
\* added to the common counter.
FaultyAdvance(p, o) ==
  /\ seen' = [seen EXCEPT ![p] = o]
  /\ total' = total + o
  /\ pend' = [pend EXCEPT ![p] = total + o]
  /\ UNCHANGED reported
Advance(p, o) ==
  LET delta == IF o > seen[p] THEN o - seen[p] ELSE 0
  IN  /\ seen' = [seen EXCEPT ![p] = @ + delta]
      /\ total' = total + delta
      /\ pend' = [pend EXCEPT ![p] = IF delta = 0 THEN 0 ELSE total + delta]
      /\ UNCHANGED reported

\* create_upload_info answered.  A creation is not retried.
OnPost(p) ==
  /\ pc[p] = "post" /\ ans[p] # NoAns
  /\ \/ /\ ans[p].kind = "ok"
        /\ known' = [known EXCEPT ![p] = TRUE]
        /\ last' = [last EXCEPT ![p] = ans[p].offset]
        /\ sent' = [sent EXCEPT ![p] = ans[p].offset]
        /\ \/ /\ WithBody(p) /\ ans[p].offset > 0
              /\ pc' = [pc EXCEPT ![p] = "report"]
              /\ ans' = [ans EXCEPT ![p] = NoAns]
              /\ Advance(p, ans[p].offset)
              /\ UNCHANGED <<net, late>>
           \/ /\ ~WithBody(p) \/ ans[p].offset = 0
              /\ Send(p, "patch", PatchReq(p, ans[p].offset))
              /\ UNCHANGED prog
        /\ UNCHANGED <<failed, attempt, stall>>
     \/ /\ ans[p].kind # "ok"
        /\ Finish(p, TRUE)
        /\ UNCHANGED <<known, last, sent, attempt, stall, prog>>
  /\ UNCHANGED <<server, caller>>

\* The lock on reported, the callback, and the next chunk.
Report(p) ==
  /\ pc[p] = "report"
  /\ reported' = IF pend[p] > reported THEN pend[p] ELSE reported
  /\ pend' = [pend EXCEPT ![p] = 0]
  /\ \/ sent[p] = PartLen(p) /\ Finish(p, FALSE)
     \/ /\ sent[p] < PartLen(p) /\ UNCHANGED failed
        /\ Send(p, "patch", PatchReq(p, sent[p]))
  /\ UNCHANGED <<server, seen, total, attempt, last, sent, known, stall, caller>>

\* The budget is full again when the server is further than it ever was.
FaultyProgressed(p, o) == last[p] # None /\ o # last[p]
Progressed(p, o) == last[p] # None /\ o > last[p]

\* The top of the loop of resume_at_with_progress_from, HEAD answered.
OnHeadOk(p) ==
  /\ pc[p] = "head" /\ ans[p].kind = "ok"
  /\ \/ /\ ans[p].offset = PartLen(p)
        /\ Finish(p, FALSE)
        /\ UNCHANGED <<attempt, last, sent, known, stall>>
     \/ /\ ans[p].offset < PartLen(p)
        /\ attempt' = [attempt EXCEPT ![p] = IF Progressed(p, ans[p].offset) THEN 0 ELSE @]
        /\ stall' = [stall EXCEPT ![p] = IF ans[p].offset > last[p] THEN 0 ELSE @]
        /\ last' = [last EXCEPT ![p] = IF ans[p].offset > @ THEN ans[p].offset ELSE @]
        /\ sent' = [sent EXCEPT ![p] = ans[p].offset]
        /\ Send(p, "patch", PatchReq(p, ans[p].offset))
        /\ UNCHANGED <<known, failed>>
  /\ UNCHANGED <<server, prog, caller>>

\* A failed attempt: is_retryable, the budget, the veto of the retry hook,
\* the delay, and HEAD again.
Exhausted(p) == attempt[p] = MaxRetries
Retry(p) ==
  /\ stall' = [stall EXCEPT ![p] = @ + 1]
  /\ \/ Finish(p, TRUE) /\ UNCHANGED attempt
     \/ /\ attempt' = [attempt EXCEPT ![p] = @ + 1]
        /\ Send(p, "head", HeadReq)
        /\ UNCHANGED failed

FaultyOnHeadFail(p) ==
  /\ pc[p] = "head" /\ ans[p].kind \in {"retryable", "permanent"}
  /\ \/ ans[p].kind = "permanent" /\ Finish(p, TRUE)
     \/ ans[p].kind = "retryable" /\ Send(p, "head", HeadReq) /\ UNCHANGED failed
  /\ UNCHANGED <<server, prog, caller, attempt, stall, last, sent, known>>
OnHeadFail(p) ==
  /\ pc[p] = "head" /\ ans[p].kind \in {"retryable", "permanent"}
  /\ \/ /\ ans[p].kind = "permanent" \/ Exhausted(p)
        /\ Finish(p, TRUE)
        /\ UNCHANGED <<attempt, stall>>
     \/ ans[p].kind = "retryable" /\ ~Exhausted(p) /\ Retry(p)
  /\ UNCHANGED <<server, prog, caller, last, sent, known>>

\* patch_source: the answer to a chunk.  validate_patch_advance refuses an
\* offset that did not advance.
OnPatchOk(p) ==
  /\ pc[p] = "patch" /\ ans[p].kind = "ok"
  /\ \/ /\ ans[p].offset <= sent[p]
        /\ Finish(p, TRUE)
        /\ UNCHANGED <<sent, prog>>
     \/ /\ ans[p].offset > sent[p]
        /\ sent' = [sent EXCEPT ![p] = ans[p].offset]
        /\ pc' = [pc EXCEPT ![p] = "report"]
        /\ ans' = [ans EXCEPT ![p] = NoAns]
        /\ Advance(p, ans[p].offset)
        /\ UNCHANGED <<net, late, failed>>
  /\ UNCHANGED <<server, caller, attempt, last, known, stall>>

OnPatchFail(p) ==
  /\ pc[p] = "patch" /\ ans[p].kind \in {"retryable", "permanent"}
  /\ \/ ans[p].kind = "permanent" /\ Finish(p, TRUE) /\ UNCHANGED <<attempt, stall>>
     \/ /\ ans[p].kind = "retryable" /\ Exhausted(p)
        /\ Send(p, "lastHead", HeadReq)
        /\ stall' = [stall EXCEPT ![p] = @ + 1]
        /\ UNCHANGED <<attempt, failed>>
     \/ ans[p].kind = "retryable" /\ ~Exhausted(p) /\ Retry(p)
  /\ UNCHANGED <<server, prog, caller, last, sent, known>>

\* The budget is spent: a last HEAD tells whether the upload is complete.
FaultyOnLastHead(p) ==
  /\ pc[p] = "lastHead" /\ ans[p] # NoAns
  /\ Finish(p, ~(ans[p].kind = "ok" /\ ans[p].offset >= sent[p]))
  /\ UNCHANGED <<server, prog, caller, attempt, last, sent, known, stall>>
OnLastHead(p) ==
  /\ pc[p] = "lastHead" /\ ans[p] # NoAns
  /\ Finish(p, ~(ans[p].kind = "ok" /\ ans[p].offset = PartLen(p)))
  /\ UNCHANGED <<server, prog, caller, attempt, last, sent, known, stall>>

Task(p) ==
  \/ OnPost(p) \/ Report(p) \/ OnHeadOk(p) \/ OnHeadFail(p)
  \/ OnPatchOk(p) \/ OnPatchFail(p) \/ OnLastHead(p)

-----------------------------------------------------------------------------
(* upload_parallel.                                                         *)

\* The tasks in the JoinSet.
Spawned == {p \in Parts : pc[p] \in Running \cup {"finished"}}

MaySpawn == main = "run" /\ next \in Parts /\ Cardinality(Spawned) < MaxConcurrency

Spawn ==
  /\ MaySpawn
  /\ next' = next + 1
  /\ Send(next, "post", [kind |-> "post", offset |-> 0,
                         len |-> IF WithBody(next) THEN PartLen(next) ELSE 0])
  /\ UNCHANGED <<server, task, prog, created, urls, main, tried>>

\* abort_all: the running tasks are dropped with their locals, whatever the
\* server makes of the request in flight.
AbortAll(joined) ==
  LET Dropped == {p \in Parts : pc[p] \in Running}
      Reset(f, v) == [p \in Parts |-> IF p \in Dropped THEN v ELSE f[p]]
  IN  /\ main' = "drain"
      /\ pc' = [p \in Parts |-> IF p \in Dropped THEN "cancelled"
                                ELSE IF p \in joined THEN "joined" ELSE pc[p]]
      /\ ans' = Reset(ans, NoAns) /\ attempt' = Reset(attempt, 0)
      /\ last' = Reset(last, None) /\ sent' = Reset(sent, 0)
      /\ stall' = Reset(stall, 0) /\ pend' = Reset(pend, 0)
      /\ UNCHANGED <<net, late, known, failed, seen, total, reported>>

\* read_parallel_part fails, or a task panics.
SourceFails ==
  /\ main = "run" /\ (MaySpawn \/ \E p \in Parts : pc[p] \in Running)
  /\ AbortAll({})
  /\ UNCHANGED <<server, next, created, urls, tried>>

\* join_next: a failure aborts the other tasks.
Join(p) ==
  /\ main = "run" /\ ~MaySpawn /\ pc[p] = "finished"
  /\ created' = IF known[p] THEN created \cup {p} ELSE created
  /\ \/ failed[p] /\ AbortAll({p}) /\ UNCHANGED urls
     \/ /\ ~failed[p]
        /\ urls' = [urls EXCEPT ![p] = p]
        /\ pc' = [pc EXCEPT ![p] = "joined"]
        /\ UNCHANGED <<main, wire, task, prog>>
  /\ UNCHANGED <<server, next, tried>>

\* After abort_all, the tasks that had finished still give their URL.
FaultyDrain ==
  /\ main = "drain"
  /\ main' = "cleanup"
  /\ UNCHANGED <<server, wire, pc, task, prog, next, created, urls, tried>>
Drain ==
  /\ main = "drain"
  /\ \/ \E p \in Parts :
          /\ pc[p] = "finished"
          /\ pc' = [pc EXCEPT ![p] = "joined"]
          /\ created' = IF known[p] THEN created \cup {p} ELSE created
          /\ UNCHANGED main
     \/ /\ \A p \in Parts : pc[p] # "finished"
        /\ main' = "cleanup"
        /\ UNCHANGED <<pc, created>>
  /\ UNCHANGED <<server, wire, task, prog, next, urls, tried>>

\* cleanup_partial_uploads: one DELETE each, whatever becomes of it.
Cleanup ==
  /\ main = "cleanup"
  /\ \/ \E p \in created \ tried :
          /\ tried' = tried \cup {p}
          /\ \/ res' = [res EXCEPT ![p] = "gone"]
             \/ UNCHANGED res
          /\ UNCHANGED main
     \/ created \subseteq tried /\ main' = "error" /\ UNCHANGED <<res, tried>>
  /\ UNCHANGED <<stored, final, wire, pc, task, prog, next, created, urls>>

\* concatenate_uploads and its HEAD.  Any failure is final; the parts stay.
Concatenate ==
  /\ main = "run" /\ next = PartCount + 1 /\ Spawned = {}
  /\ \/ /\ \A p \in Parts : res[urls[p]] = "live" /\ Len(stored[urls[p]]) = PartLen(urls[p])
        /\ final' = urls
        /\ main' \in {"ok", "error"}
     \/ main' = "error" /\ UNCHANGED final
  /\ UNCHANGED <<res, stored, wire, pc, task, prog, next, created, urls, tried>>

Caller ==
  \/ Spawn \/ (\E p \in Parts : Join(p)) \/ Drain \/ Cleanup \/ Concatenate

-----------------------------------------------------------------------------
(* The network and the server.                                              *)

\* What the server (external) does with a request and what it answers.  A
\* PATCH is kept from the server's own offset only, and perhaps in part.
Process(p, req, answer) ==
  \/ /\ answer \in {Error, Refusal}
     /\ UNCHANGED <<res, stored>>
  \/ /\ req.kind = "post" /\ res[p] = "none"
     /\ res' = [res EXCEPT ![p] = "live"]
     /\ \E k \in 0 .. req.len : /\ stored' = [stored EXCEPT ![p] = Chunk(p, 0, k)]
                                /\ answer = Ok(k)
  \/ /\ req.kind = "head" /\ res[p] = "live"
     /\ answer = Ok(Len(stored[p]))
     /\ UNCHANGED <<res, stored>>
  \/ /\ req.kind = "patch" /\ res[p] = "live" /\ req.offset = Len(stored[p])
     /\ \E k \in 0 .. req.len :
          /\ stored' = [stored EXCEPT ![p] = @ \o Chunk(p, req.offset, k)]
          /\ answer = Ok(req.offset + k)
     /\ UNCHANGED res

\* A request arrives; its answer may be lost on the way back.
Serve(p) ==
  /\ net[p] # NoReq
  /\ \E answer \in Answers : /\ Process(p, net[p], answer)
                             /\ ans' = [ans EXCEPT ![p] = answer] \/ ans' = [ans EXCEPT ![p] = Error]
  /\ net' = [net EXCEPT ![p] = NoReq]
  /\ UNCHANGED <<final, late, pc, task, prog, caller>>

\* The request fails before it is answered: lost, or still on its way.
Timeout(p) ==
  /\ net[p] # NoReq
  /\ ans' = [ans EXCEPT ![p] = Error]
  /\ net' = [net EXCEPT ![p] = NoReq]
  /\ \/ UNCHANGED late
     \/ late[p] = NoReq /\ late' = [late EXCEPT ![p] = net[p]]
  /\ UNCHANGED <<server, pc, task, prog, caller>>

ServeLate(p) ==
  /\ late[p] # NoReq /\ main = "run"
  /\ \E answer \in Answers : Process(p, late[p], answer)
  /\ late' = [late EXCEPT ![p] = NoReq]
  /\ UNCHANGED <<final, net, ans, pc, task, prog, caller>>

\* Once upload_parallel no longer reads the server, its moves are left out.
Expire(p) ==
  /\ res[p] = "live" /\ main = "run"
  /\ res' = [res EXCEPT ![p] = "gone"]
  /\ UNCHANGED <<stored, final, wire, pc, task, prog, caller>>

\* A restarted server may have lost the tail of an unfinished upload.
Rollback(p) ==
  /\ res[p] = "live" /\ main = "run" /\ Len(stored[p]) < PartLen(p)
  /\ \E k \in 0 .. Len(stored[p]) - 1 : stored' = [stored EXCEPT ![p] = SubSeq(@, 1, k)]
  /\ UNCHANGED <<res, final, wire, pc, task, prog, caller>>

-----------------------------------------------------------------------------
Next ==
  \/ Caller \/ SourceFails
  \/ \E p \in Parts : \/ Task(p) \/ Serve(p) \/ Timeout(p) \/ ServeLate(p)
                      \/ Expire(p) \/ Rollback(p)

\* The runtime polls every task that can move.  Nothing is assumed of requests:
\* ReqwestTransport sets no timeout, so one may stay without an answer for ever.
Fairness ==
  /\ WF_vars(Spawn \/ (\E p \in Parts : Join(p)) \/ Drain)
  /\ \A p \in Parts : WF_vars(Task(p))

Spec == Init /\ [][Next]_vars /\ Fairness

-----------------------------------------------------------------------------
(* Properties.                                                              *)

\* However PATCHes are retried, duplicated and delayed, the server holds the
\* part's own bytes, each once and in order (patch_source reads the source at
\* the offset the server reported).
StoredPrefix ==
  \A p \in Parts : stored[p] = SubSeq(PartBytes(p), 1, Len(stored[p]))

\* A part the client counts as uploaded is whole on the server, also when the
\* resume loop learned so from the HEAD after a lost answer
\* (resume_at_with_progress_from); only its expiry can undo that.
FinishedIsWhole ==
  \A p \in Parts :
    pc[p] \in {"finished", "joined"} /\ ~failed[p] /\ res[p] # "gone"
      => stored[p] = PartBytes(p)

\* upload_parallel succeeds only with a final upload that is the source: all
\* the parts, in the order of their index and not of their completion.
SuccessIsSource ==
  main = "ok" => final = [p \in Parts |-> p]

\* No part is attempted more than max_retries + 1 times without the server's
\* offset passing the highest one seen; an offset that fell back and returned
\* is not progress.
RetryBudget == \A p \in Parts : stall[p] <= MaxRetries + 1

\* When a part fails, every part whose task ended with a URL has had its
\* DELETE before the error is returned, the failed one too
\* (cleanup_partial_uploads; a task aborted halfway reports no URL).
FinishedPartsCleaned ==
  main = "error" /\ (\E p \in Parts : urls[p] = NoUrl)
    => \A p \in Parts : pc[p] \in {"finished", "joined"} /\ known[p] => p \in tried

\* The progress callback never reports less than it did, whichever of two
\* tasks takes the lock first (ParallelProgressState::advance).
ProgressNeverFalls == [][reported' >= reported]_vars

\* Every request is answered or fails in the end: what the server, the network or
\* a Transport with timeouts may give, and what the client does not see to itself.
RequestsEnd ==
  /\ \A p \in Parts : WF_vars(Serve(p) \/ Timeout(p))
  /\ WF_vars(Cleanup) /\ WF_vars(Concatenate)

\* If no request stays without an answer, the upload ends in success or an error,
\* whatever the answers are: no endless retrying (resume_at_with_progress_from,
\* upload_parallel).
EveryUploadEnds == RequestsEnd => <>(main \in {"ok", "error"})
=============================================================================
