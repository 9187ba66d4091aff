--------------------------- MODULE UploadLifecycle ---------------------------
(***************************************************************************)
(* The life of one upload resource on the server (crates/tus-protocol):    *)
(* the POST that creates it, the PATCH, HEAD, GET and DELETE requests that *)
(* follow, and the expiration sweeper, all running concurrently over one   *)
(* state record (StateStore), one stored object (Storage, as FileStorage   *)
(* implements it) and one lock (Locker).  Upload IDs are fresh UUIDs and   *)
(* every lock, record and object belongs to one ID, so regular and partial *)
(* uploads never interact with each other.                                 *)
(*                                                                         *)
(* A handler is a sequence of steps separated by its awaits.  At every     *)
(* await the handler may be dropped (the client disconnected, Cancel), the *)
(* process may die (Crash), and a store operation may fail (a fault).      *)
(*                                                                         *)
(* A byte is represented by its position in the file the client uploads:   *)
(* the j-th byte of a body sent for Upload-Offset o is o + j.              *)
(*                                                                         *)
(* A definition marked "Faulty" is the one below it with a plausible bug;  *)
(* nothing uses it.  Each shows that some property notices the bug.        *)
(***************************************************************************)
EXTENDS Integers, Sequences

CONSTANTS
  Requests,       \* the HTTP requests, each served once
  Sweepers,       \* in-process expiration sweepers, each runs for ever
  NoOne,          \* the holder of a free lock
  Lengths,        \* values of Upload-Length the clients declare
  BodySizes,      \* sizes of the bodies the clients send
  MaxSize,        \* Config::max_size
  MaxChunk,       \* Config::max_chunk_size
  Expiration,     \* whether Config::expiration is set
  MaxFaults,      \* bound on failing store operations
  MaxCrashes      \* bound on process crashes

Procs == Requests \cup Sweepers

\* A length that is not declared yet, and a POST without a body.
Deferred == -1
NoBody   == -1

ASSUME ConstantsAssumption ==
  /\ Requests \cap Sweepers = {}
  /\ NoOne \notin Procs
  /\ Lengths \subseteq Nat
  /\ BodySizes \subseteq Nat
  /\ MaxSize \in Nat
  /\ MaxChunk \in Nat
  /\ Expiration \in BOOLEAN
  /\ MaxFaults \in Nat
  /\ MaxCrashes \in Nat

VARIABLES
  hasState, state,  \* the persisted UploadState, meaningful if hasState
  hasBlob, bytes,   \* the stored object, << >> if it does not exist
  lock,             \* who holds the upload's lock
  late,             \* the clock has passed the upload's deadline
  detached,         \* operations of dropped handlers not yet executed
  pc,               \* where each process is
  kind,             \* which handler it runs
  st,               \* its local UploadState
  arg,              \* its Upload-Offset and body size
  sent,             \* how many bytes of the body it has written
  reply,            \* how the request ended
  known,            \* the client has the upload's URL
  acked,            \* the largest Upload-Offset a response has reported
  doomed,           \* somebody has deleted the stored object
  finished,         \* how often PostFinish ran
  breached,         \* the lock was granted past work that goes on without it
  faults, crashes   \* store failures and crashes so far

storeVars == <<hasState, state, hasBlob, bytes>>
procVars  == <<pc, kind, st, arg, sent, reply>>
histVars  == <<known, acked, doomed, finished>>
vars == <<storeVars, lock, late, detached, procVars, histVars, breached, faults, crashes>>

-----------------------------------------------------------------------------
(* Types.                                                                  *)

UploadState == [offset : Nat, length : Nat \cup {Deferred}, partial : BOOLEAN]
Kinds   == {"none", "post", "patch", "head", "get", "delete", "sweep"}
Replies == {"none", "ok", "error", "rejected", "cut"}

\* What a dropped handler may leave with the blocking thread pool: the write
\* of a chunk to the object or its truncation, the rename of a new version of
\* the record into place, or the removal of either file.
Operations ==
  [op : {"write"}, byte : Nat] \cup [op : {"truncate"}, size : Nat]
    \cup [op : {"set"}, st : UploadState] \cup [op : {"unlink", "forget"}]

\* The points at which a process other than the creating POST holds the lock.
Critical == {"load", "detect", "recGate", "recPersist", "recNotify",
             "reconcile", "prepare", "open", "write", "commit", "gate",
             "notify", "terminate", "delBlob", "delState", "assess",
             "respond"}
\* The points of a creating POST, which takes no lock.
Creation == {"create", "record", "open", "write", "commit", "gate", "notify",
             "undoBlob", "undoAll", "undoState", "respond"}
Points == Critical \cup Creation \cup {"idle", "lock", "tryLock", "done"}

\* The types of the record, of the object and of every handler's locals.
TypeOK ==
  /\ hasState \in BOOLEAN
  /\ state \in UploadState
  /\ hasBlob \in BOOLEAN
  /\ bytes \in Seq(Nat)
  /\ lock \in Procs \cup {NoOne}
  /\ late \in BOOLEAN
  /\ detached \in SUBSET Operations
  /\ pc \in [Procs -> Points]
  /\ kind \in [Procs -> Kinds]
  /\ st \in [Procs -> UploadState]
  /\ arg \in [Procs -> [offset : Nat, size : Nat \cup {NoBody}]]
  /\ sent \in [Procs -> Nat]
  /\ reply \in [Procs -> Replies]
  /\ known \in BOOLEAN
  /\ acked \in Nat
  /\ doomed \in BOOLEAN
  /\ finished \in Nat
  /\ breached \in BOOLEAN
  /\ faults \in 0 .. MaxFaults
  /\ crashes \in 0 .. MaxCrashes

-----------------------------------------------------------------------------
(* The upload state and what the stores say about it.                      *)

Fresh == [offset |-> 0, length |-> Deferred, partial |-> FALSE]
NoArg == [offset |-> 0, size |-> NoBody]

\* A deferred length is never complete.
Complete(s) == s.length # Deferred /\ s.offset >= s.length

\* Completed deliverable uploads do not expire, completed partial ones do.
IsExpired(s) == Expiration /\ late /\ (~Complete(s) \/ s.partial)

\* Storage::size(..).unwrap_or(0).
Size == Len(bytes)

StoredTooMuch(s) == s.length # Deferred /\ Size > s.length

\* The uploads detect_stored_completion looks at.
Recoverable(s) == ~Complete(s) /\ ~s.partial /\ s.length # Deferred

\* The stored bytes reach the declared length but the record lags behind.
StoredCompletion(s) == Recoverable(s) /\ Size = s.length

\* Faulty: the declared length is not enforced.
FitsMaxSizeOnly(s, n) == s.offset + n <= MaxSize

\* A body of n bytes fits at the upload's offset.
Fits(s, n) ==
  /\ s.offset + n <= MaxSize
  /\ s.length # Deferred => s.offset + n <= s.length

-----------------------------------------------------------------------------
(* Steps of a handler.                                                     *)

At(p, point) == pc[p] = point
Goto(p, point) == pc' = [pc EXCEPT ![p] = point]

\* Stay in the handler, with s as the local state and a as the request.
Proceed(p, point, s, a) ==
  /\ Goto(p, point)
  /\ st' = [st EXCEPT ![p] = s]
  /\ arg' = [arg EXCEPT ![p] = a]
  /\ UNCHANGED <<lock, reply, sent>>

ContinueWith(p, point, s) == Proceed(p, point, s, arg[p])

Continue(p, point) == Goto(p, point) /\ UNCHANGED <<lock, reply, st, arg, sent>>

\* Faulty: the LockGuard is leaked.
EndKeepsLock(p, answer) ==
  /\ Goto(p, IF p \in Sweepers THEN "idle" ELSE "done")
  /\ reply' = [reply EXCEPT ![p] = IF p \in Sweepers THEN @ ELSE answer]
  /\ st' = [st EXCEPT ![p] = Fresh]
  /\ arg' = [arg EXCEPT ![p] = NoArg]
  /\ sent' = [sent EXCEPT ![p] = 0]
  /\ UNCHANGED lock

\* Leave the handler with an answer: its locals and its LockGuard are dropped.
End(p, answer) ==
  /\ Goto(p, IF p \in Sweepers THEN "idle" ELSE "done")
  /\ reply' = [reply EXCEPT ![p] = IF p \in Sweepers THEN @ ELSE answer]
  /\ lock' = IF lock = p THEN NoOne ELSE lock
  /\ st' = [st EXCEPT ![p] = Fresh]
  /\ arg' = [arg EXCEPT ![p] = NoArg]
  /\ sent' = [sent EXCEPT ![p] = 0]

\* A call on the storage or the state store that returns an error.
Fault == faults < MaxFaults /\ faults' = faults + 1

Ready == UNCHANGED faults

Creating(p) == kind[p] = "post"

\* An error while receiving bytes: a PATCH just fails, a creation undoes itself.
Abort(p, answer) ==
  IF Creating(p)
  THEN /\ Goto(p, "undoAll")
       /\ reply' = [reply EXCEPT ![p] = answer]
       /\ UNCHANGED <<lock, st, arg, sent>>
  ELSE End(p, answer)

\* StateStore::set(.., Update) writes whether or not the record exists.
Update(s) == hasState' = TRUE /\ state' = s

KeepStores == UNCHANGED storeVars
KeepBlob   == UNCHANGED <<hasBlob, bytes>>
KeepState  == UNCHANGED <<hasState, state>>
KeepEnv    == UNCHANGED <<late, detached, breached, crashes>>
KeepHist   == UNCHANGED histVars

-----------------------------------------------------------------------------
(* POST: creation, optionally with a body (Creation-With-Upload).          *)

\* Header checks, PreCreate, and for a body PreReceive and its size check.
\* A zero-length or fully supplied upload is complete at creation.
Post(r) ==
  /\ At(r, "idle") /\ r \in Requests
  /\ \A q \in Requests : ~Creating(q)
  /\ kind' = [kind EXCEPT ![r] = "post"]
  /\ \/ End(r, "error")
     \/ \E length \in Lengths \cup {Deferred}, size \in BodySizes \cup {NoBody},
           partial \in BOOLEAN :
          LET s == [offset |-> 0, length |-> length, partial |-> partial]
          IN /\ length <= MaxSize
             /\ size # NoBody => Fits(s, size)
             /\ Proceed(r, "create", s, [offset |-> 0, size |-> size])
  /\ Ready /\ KeepStores /\ KeepEnv /\ KeepHist

\* FileStorage::create; a failing fsync leaves an empty file behind.
StorageCreate(r) ==
  /\ At(r, "create")
  /\ \/ hasBlob' = TRUE /\ Continue(r, "record") /\ Ready
     \/ hasBlob' \in BOOLEAN /\ End(r, "error") /\ Fault
  /\ bytes' = << >>
  /\ KeepState /\ KeepEnv /\ KeepHist /\ UNCHANGED kind

\* StateStore::set(.., CreateNew).
RecordNew(r) ==
  /\ At(r, "record")
  /\ \/ /\ Update(st[r]) /\ Ready
        /\ Continue(r, CASE arg[r].size # NoBody -> "open"
                         [] arg[r].size = NoBody /\ Complete(st[r]) -> "gate"
                         [] OTHER -> "respond")
     \/ Continue(r, "undoBlob") /\ Fault /\ KeepState
  /\ KeepBlob /\ KeepEnv /\ KeepHist /\ UNCHANGED kind

\* Faulty: rollback_creation stops after the storage object.
UndoBlobOnly(r) ==
  /\ At(r, "undoBlob") \/ At(r, "undoAll")
  /\ \/ hasBlob' = FALSE /\ bytes' = << >> /\ doomed' = TRUE /\ Ready
     \/ KeepBlob /\ UNCHANGED doomed /\ Fault
  /\ End(r, "error")
  /\ KeepState /\ KeepEnv
  /\ UNCHANGED <<kind, known, acked, finished>>

\* rollback_storage, alone or as the first half of rollback_creation.
UndoBlob(r) ==
  /\ At(r, "undoBlob") \/ At(r, "undoAll")
  /\ \/ hasBlob' = FALSE /\ bytes' = << >> /\ doomed' = TRUE /\ Ready
     \/ KeepBlob /\ UNCHANGED doomed /\ Fault
  /\ IF At(r, "undoAll") THEN Continue(r, "undoState") ELSE End(r, "error")
  /\ KeepState /\ KeepEnv
  /\ UNCHANGED <<kind, known, acked, finished>>

\* The second half of rollback_creation.
UndoState(r) ==
  /\ At(r, "undoState")
  /\ \/ hasState' = FALSE /\ Ready
     \/ UNCHANGED hasState /\ Fault
  /\ End(r, reply[r])
  /\ KeepBlob /\ KeepEnv /\ KeepHist /\ UNCHANGED <<state, kind>>

-----------------------------------------------------------------------------
(* PATCH, HEAD, GET and DELETE up to the point where they differ.          *)

\* The unlocked existence check.  Only a client that was given the Location
\* can name the upload.
Arrive(r) ==
  /\ At(r, "idle") /\ r \in Requests /\ known
  /\ \E k \in {"patch", "head", "get", "delete"} :
       kind' = [kind EXCEPT ![r] = k]
  /\ \/ hasState /\ Continue(r, "lock") /\ Ready
     \/ ~hasState /\ End(r, "error") /\ Ready
     \/ End(r, "error") /\ Fault
  /\ KeepStores /\ KeepEnv /\ KeepHist

\* Work on the stores that no lock covers: an operation whose handler is gone,
\* or the creating POST.
Unlocked == detached # {} \/ \E q \in Requests : Creating(q) /\ ~At(q, "done")

\* The lock is granted; breached remembers that it did not keep others out.
Acquire(p) ==
  /\ lock = NoOne /\ lock' = p
  /\ breached' = (breached \/ Unlocked)
  /\ Goto(p, "load")
  /\ UNCHANGED <<reply, st, arg, sent>>

\* Faulty: no mutual exclusion.
LockAlways(r) ==
  /\ At(r, "lock")
  /\ lock' = r /\ Goto(r, "load")
  /\ Ready /\ KeepStores /\ KeepEnv /\ KeepHist
  /\ UNCHANGED <<kind, reply, st, arg, sent>>

\* Faulty: a waiter never gives up.
LockNoTimeout(r) ==
  /\ At(r, "lock")
  /\ Acquire(r)
  /\ Ready /\ KeepStores /\ KeepHist /\ UNCHANGED <<late, detached, crashes, kind>>

\* Locker::lock: wait for the lock, or give up after lock_timeout.
Lock(r) ==
  /\ At(r, "lock")
  /\ \/ Acquire(r)
     \/ lock # NoOne /\ End(r, "error") /\ UNCHANGED breached
  /\ Ready /\ KeepStores /\ KeepHist /\ UNCHANGED <<late, detached, crashes, kind>>

\* The authoritative StateStore::get under the lock.
Load(p) ==
  /\ At(p, "load")
  /\ \/ ~hasState /\ End(p, "error") /\ Ready
     \/ End(p, "error") /\ Fault
     \/ /\ hasState /\ Ready
        /\ CASE kind[p] = "sweep" -> ContinueWith(p, "assess", state)
             [] kind[p] = "delete" -> IF IsExpired(state)
                                      THEN End(p, "error")
                                      ELSE ContinueWith(p, "terminate", state)
             [] OTHER -> ContinueWith(p, "detect", state)
  /\ KeepStores /\ KeepEnv /\ KeepHist /\ UNCHANGED kind

-----------------------------------------------------------------------------
(* prepare_regular_upload_access: repair the record after a crash.         *)

\* detect_stored_completion, then ensure_active if there is nothing to complete.
Detect(p) ==
  /\ At(p, "detect")
  /\ \/ Recoverable(st[p]) /\ End(p, "error") /\ Fault
     \/ /\ Ready
        /\ CASE StoredCompletion(st[p]) -> Continue(p, "recGate")
             [] Recoverable(st[p]) /\ StoredTooMuch(st[p]) -> End(p, "error")
             [] OTHER -> IF IsExpired(st[p])
                         THEN End(p, "error")
                         ELSE Continue(p, "reconcile")
  /\ KeepStores /\ KeepEnv /\ KeepHist /\ UNCHANGED kind

\* reconcile_stored_completion: PreFinish before the completion is persisted.
RecoverGate(p) ==
  /\ At(p, "recGate")
  /\ Continue(p, "recPersist") \/ End(p, "rejected")
  /\ Ready /\ KeepStores /\ KeepEnv /\ KeepHist /\ UNCHANGED kind

RecoverPersist(p) ==
  LET s == [st[p] EXCEPT !.offset = st[p].length]
  IN /\ At(p, "recPersist")
     /\ \/ Update(s) /\ ContinueWith(p, "recNotify", s) /\ Ready
        \/ End(p, "error") /\ Fault /\ KeepState
     /\ KeepBlob /\ KeepEnv /\ KeepHist /\ UNCHANGED kind

RecoverNotify(p) ==
  /\ At(p, "recNotify")
  /\ finished' = finished + 1
  /\ Continue(p, "reconcile")
  /\ Ready /\ KeepStores /\ KeepEnv
  /\ UNCHANGED <<kind, known, acked, doomed>>

\* Where a handler goes once the record agrees with the stored bytes.
AfterAccess(p, s) ==
  CASE kind[p] = "patch" -> ContinueWith(p, "prepare", s)
    [] kind[p] = "get" /\ ~Complete(s) -> End(p, "error")
    [] OTHER -> ContinueWith(p, "respond", s)

\* Faulty: the record is believed.
ReconcileNothing(p) ==
  /\ At(p, "reconcile")
  /\ AfterAccess(p, st[p])
  /\ Ready /\ KeepStores /\ KeepEnv /\ KeepHist /\ UNCHANGED kind

\* reconcile_storage_offset: adopt and persist the size of the object.
Reconcile(p) ==
  LET s == [st[p] EXCEPT !.offset = Size]
  IN /\ At(p, "reconcile")
     /\ \/ /\ Size = st[p].offset
           /\ AfterAccess(p, st[p]) /\ Ready /\ KeepState
        \/ /\ Size # st[p].offset /\ StoredTooMuch(st[p])
           /\ End(p, "error") /\ Ready /\ KeepState
        \/ /\ Size # st[p].offset /\ ~StoredTooMuch(st[p])
           /\ Update(s) /\ AfterAccess(p, s) /\ Ready
        \/ End(p, "error") /\ Fault /\ KeepState
     /\ KeepBlob /\ KeepEnv /\ KeepHist /\ UNCHANGED kind

-----------------------------------------------------------------------------
(* Receiving bytes.                                                        *)

\* The local state once the request's Upload-Length, if any, is applied.
WithLength(s, length) ==
  IF length = Deferred THEN s ELSE [s EXCEPT !.length = length]

\* Faulty: Upload-Offset is not compared.
ReceivableAnyOffset(s, offset, length) ==
  /\ ~IsExpired(s)
  /\ ~Complete(s)
  /\ length # Deferred /\ s.length # Deferred => length = s.length
  /\ length # Deferred /\ s.length = Deferred => length <= MaxSize

\* Faulty: a complete upload is accepted again.
ReceivableComplete(s, offset, length) ==
  /\ ~IsExpired(s)
  /\ offset = s.offset
  /\ length # Deferred /\ s.length # Deferred => length = s.length
  /\ length # Deferred /\ s.length = Deferred => length <= MaxSize

\* prepare_receive: the checks a PATCH passes before its body is read.
Receivable(s, offset, length) ==
  /\ ~IsExpired(s)
  /\ ~Complete(s)
  /\ offset = s.offset
  /\ length # Deferred /\ s.length # Deferred => length = s.length
  /\ length # Deferred /\ s.length = Deferred => length <= MaxSize

\* prepare_receive, PreReceive and the validation of the body's size.
Prepare(r) ==
  /\ At(r, "prepare")
  /\ \/ End(r, "error")
     \/ \E offset \in 0 .. MaxSize, length \in Lengths \cup {Deferred},
           size \in BodySizes :
          LET s == WithLength(st[r], length)
          IN /\ Receivable(st[r], offset, length)
             /\ size <= MaxChunk
             /\ Fits(s, size)
             /\ Proceed(r, "open", s, [offset |-> offset, size |-> size])
  /\ Ready /\ KeepStores /\ KeepEnv /\ KeepHist /\ UNCHANGED kind

\* FileStorage::append: the size check, then the file is opened for appending.
Open(p) ==
  /\ At(p, "open")
  /\ \/ hasBlob /\ Size = st[p].offset /\ Continue(p, "write") /\ Ready
     \/ ~(hasBlob /\ Size = st[p].offset) /\ Abort(p, "error") /\ Ready
     \/ Abort(p, "error") /\ Fault
  /\ KeepStores /\ KeepEnv /\ KeepHist /\ UNCHANGED kind

\* What appending b does to the object; an unlinked file swallows the bytes.
Appended(b) == IF hasBlob THEN Append(bytes, b) ELSE bytes

\* write_chunk_stream: one more chunk of the body, here one byte.
WriteChunk(p) ==
  /\ At(p, "write") /\ sent[p] < arg[p].size
  /\ bytes' = Appended(arg[p].offset + sent[p] + 1)
  /\ sent' = [sent EXCEPT ![p] = @ + 1]
  /\ Ready /\ KeepState /\ KeepEnv /\ KeepHist
  /\ UNCHANGED <<hasBlob, lock, pc, kind, st, arg, reply>>

\* File::set_len: cut the object to n bytes, or pad it with zeros.
Truncated(n) ==
  IF hasBlob
  THEN [i \in 1 .. n |-> IF i \in DOMAIN bytes THEN bytes[i] ELSE 0]
  ELSE bytes

\* Faulty: the whole object is truncated.
StreamErrorTruncatesAll(p) ==
  /\ At(p, "write")
  /\ bytes' = Truncated(0) /\ Ready
  /\ Abort(p, "error")
  /\ KeepState /\ KeepEnv /\ KeepHist /\ UNCHANGED <<hasBlob, kind>>

\* The body stream fails (disconnect, wrong length, wrong checksum): the file
\* is truncated back, unless set_len fails as well.
StreamError(p) ==
  /\ At(p, "write")
  /\ \/ bytes' = Truncated(st[p].offset) /\ Ready
     \/ UNCHANGED bytes /\ Fault
  /\ Abort(p, "error")
  /\ KeepState /\ KeepEnv /\ KeepHist /\ UNCHANGED <<hasBlob, kind>>

\* sync_data after the last chunk; if it fails the bytes stay.
Sync(p) ==
  /\ At(p, "write") /\ sent[p] = arg[p].size
  /\ \/ Continue(p, "commit") /\ Ready
     \/ Abort(p, "error") /\ Fault
  /\ KeepStores /\ KeepEnv /\ KeepHist /\ UNCHANGED kind

\* Faulty: a failing StateStore::set is not noticed.
CommitUnchecked(p) ==
  LET s == [st[p] EXCEPT !.offset = @ + arg[p].size]
  IN /\ At(p, "commit")
     /\ (Update(s) /\ Ready) \/ (KeepState /\ Fault)
     /\ ContinueWith(p, IF Complete(s) THEN "gate" ELSE "respond", s)
     /\ KeepBlob /\ KeepEnv /\ KeepHist /\ UNCHANGED kind

\* commit_receive_body: advance the offset and persist the record.
Commit(p) ==
  LET s == [st[p] EXCEPT !.offset = @ + arg[p].size]
  IN /\ At(p, "commit")
     /\ \/ /\ Update(s) /\ Ready
           /\ ContinueWith(p, IF Complete(s) THEN "gate" ELSE "respond", s)
        \/ Abort(p, "error") /\ Fault /\ KeepState
     /\ KeepBlob /\ KeepEnv /\ KeepHist /\ UNCHANGED kind

\* finish_gate: PreFinish of a PATCH or a POST, after the completing commit.
FinishGate(p) ==
  /\ At(p, "gate")
  /\ Continue(p, "notify") \/ Abort(p, "rejected")
  /\ Ready /\ KeepStores /\ KeepEnv /\ KeepHist /\ UNCHANGED kind

\* after_commit: PostFinish.
FinishNotify(p) ==
  /\ At(p, "notify")
  /\ finished' = finished + 1
  /\ Continue(p, "respond")
  /\ Ready /\ KeepStores /\ KeepEnv
  /\ UNCHANGED <<kind, known, acked, doomed>>

\* The response: POST, PATCH and HEAD report the local offset, GET opens the
\* object for streaming.
Respond(p) ==
  /\ At(p, "respond")
  /\ \/ /\ End(p, "ok") /\ Ready
        /\ known' = (known \/ Creating(p))
        /\ acked' = IF kind[p] \in {"post", "patch", "head"} /\ st[p].offset > acked
                    THEN st[p].offset ELSE acked
     \/ kind[p] = "get" /\ End(p, "error") /\ Fault /\ UNCHANGED <<known, acked>>
  /\ KeepStores /\ KeepEnv
  /\ UNCHANGED <<kind, doomed, finished>>

-----------------------------------------------------------------------------
(* Removing the upload: DELETE and the sweeper.                            *)

\* PreTerminate.
PreTerminate(p) ==
  /\ At(p, "terminate")
  /\ Continue(p, "delBlob") \/ End(p, "rejected")
  /\ Ready /\ KeepStores /\ KeepEnv /\ KeepHist /\ UNCHANGED kind

\* Storage::delete; an error ends the attempt and the record stays.
DeleteBlob(p) ==
  /\ At(p, "delBlob")
  /\ \/ /\ hasBlob' = FALSE /\ bytes' = << >> /\ doomed' = TRUE
        /\ Continue(p, "delState") /\ Ready
     \/ End(p, "error") /\ Fault /\ KeepBlob /\ UNCHANGED doomed
  /\ KeepState /\ KeepEnv
  /\ UNCHANGED <<kind, known, acked, finished>>

\* StateStore::delete.
DeleteState(p) ==
  /\ At(p, "delState")
  /\ \/ /\ hasState' = FALSE /\ Ready
        /\ IF p \in Sweepers THEN End(p, "ok") ELSE Continue(p, "respond")
     \/ UNCHANGED hasState /\ End(p, "error") /\ Fault
  /\ KeepBlob /\ KeepEnv /\ KeepHist /\ UNCHANGED <<state, kind>>

\* StateStore::list_expired, an unlocked snapshot.
ListExpired(s) ==
  /\ At(s, "idle") /\ s \in Sweepers
  /\ hasState /\ IsExpired(state)
  /\ Continue(s, "tryLock")
  /\ Ready /\ KeepStores /\ KeepEnv /\ KeepHist /\ UNCHANGED kind

\* Locker::try_lock; a locked candidate is skipped.
TryLock(s) ==
  /\ At(s, "tryLock")
  /\ \/ Acquire(s)
     \/ lock # NoOne /\ End(s, "error") /\ UNCHANGED breached
  /\ Ready /\ KeepStores /\ KeepHist /\ UNCHANGED <<late, detached, crashes, kind>>

\* Faulty: the record alone decides.
AssessByRecord(s) ==
  /\ At(s, "assess")
  /\ IF IsExpired(st[s]) THEN Continue(s, "delBlob") ELSE End(s, "error")
  /\ Ready /\ KeepStores /\ KeepEnv /\ KeepHist /\ UNCHANGED kind

\* prepare_upload_reclamation_access: is the candidate really abandoned?
Assess(s) ==
  /\ At(s, "assess")
  /\ \/ Recoverable(st[s]) /\ End(s, "error") /\ Fault
     \/ /\ Ready
        /\ IF StoredCompletion(st[s]) \/ ~IsExpired(st[s])
              \/ (Recoverable(st[s]) /\ StoredTooMuch(st[s]))
           THEN End(s, "error")
           ELSE Continue(s, "delBlob")
  /\ KeepStores /\ KeepEnv /\ KeepHist /\ UNCHANGED kind

-----------------------------------------------------------------------------
(* The environment.                                                        *)

\* The deadline, set when the POST arrives, passes.
Tick ==
  /\ Expiration /\ ~late
  /\ \E r \in Requests : Creating(r)
  /\ late' = TRUE
  /\ UNCHANGED <<storeVars, lock, detached, procVars, histVars, breached, faults, crashes>>

\* The operations a handler dropped now may leave running on the thread pool:
\* tokio::fs hands each one to a blocking thread that outlives the future.
\* (A creation's own first write of either file meets nobody else.)
Leftover(r) ==
  CASE At(r, "write") ->
         {[op |-> "truncate", size |-> st[r].offset]} \cup
           {[op |-> "write", byte |-> arg[r].offset + n] :
              n \in {sent[r] + 1} \cap 1 .. arg[r].size}
    [] At(r, "commit") ->
         {[op |-> "set", st |-> [st[r] EXCEPT !.offset = @ + arg[r].size]]}
    [] At(r, "recPersist") ->
         {[op |-> "set", st |-> [st[r] EXCEPT !.offset = st[r].length]]}
    [] At(r, "reconcile") /\ Size # st[r].offset /\ ~StoredTooMuch(st[r]) ->
         {[op |-> "set", st |-> [st[r] EXCEPT !.offset = Size]]}
    [] At(r, "delBlob") \/ At(r, "undoBlob") \/ At(r, "undoAll") -> {[op |-> "unlink"]}
    [] At(r, "delState") \/ At(r, "undoState") -> {[op |-> "forget"]}
    [] OTHER -> {}

\* The client disconnects: the handler is dropped at an await.
Cancel(r) ==
  /\ r \in Requests /\ ~At(r, "idle") /\ ~At(r, "done")
  /\ End(r, "cut")
  /\ \/ UNCHANGED detached
     \/ \E d \in Leftover(r) : detached' = detached \cup {d}
  /\ Ready /\ KeepStores /\ KeepHist
  /\ UNCHANGED <<late, breached, crashes, kind>>

\* The thread pool executes an operation whose handler is gone.
Late(d) ==
  /\ d \in detached
  /\ detached' = detached \ {d}
  /\ \/ /\ d.op = "write" /\ bytes' = Appended(d.byte)
        /\ KeepState /\ UNCHANGED <<hasBlob, doomed>>
     \/ /\ d.op = "truncate" /\ bytes' = Truncated(d.size)
        /\ KeepState /\ UNCHANGED <<hasBlob, doomed>>
     \/ d.op = "set" /\ Update(d.st) /\ KeepBlob /\ UNCHANGED doomed
     \/ /\ d.op = "unlink" /\ hasBlob' = FALSE /\ bytes' = << >> /\ doomed' = TRUE
        /\ KeepState
     \/ d.op = "forget" /\ hasState' = FALSE /\ KeepBlob /\ UNCHANGED <<state, doomed>>
  /\ Ready
  /\ UNCHANGED <<lock, late, procVars, known, acked, finished, breached, crashes>>

\* The process dies and restarts: records and objects survive.
Crash ==
  /\ crashes < MaxCrashes
  /\ crashes' = crashes + 1
  /\ pc' = [p \in Procs |-> IF p \in Sweepers \/ At(p, "idle")
                            THEN "idle" ELSE "done"]
  /\ reply' = [p \in Procs |-> IF At(p, "idle") \/ At(p, "done")
                               THEN reply[p] ELSE "cut"]
  /\ st' = [p \in Procs |-> Fresh]
  /\ arg' = [p \in Procs |-> NoArg]
  /\ sent' = [p \in Procs |-> 0]
  /\ lock' = NoOne
  /\ detached' = {}
  /\ Ready /\ KeepStores /\ KeepHist /\ UNCHANGED <<late, breached, kind>>

-----------------------------------------------------------------------------
Init ==
  /\ hasState = FALSE /\ state = Fresh
  /\ hasBlob = FALSE /\ bytes = << >>
  /\ lock = NoOne /\ late = FALSE /\ detached = {}
  /\ pc = [p \in Procs |-> "idle"]
  /\ kind = [p \in Procs |-> IF p \in Sweepers THEN "sweep" ELSE "none"]
  /\ st = [p \in Procs |-> Fresh]
  /\ arg = [p \in Procs |-> NoArg]
  /\ sent = [p \in Procs |-> 0]
  /\ reply = [p \in Procs |-> "none"]
  /\ known = FALSE /\ acked = 0 /\ doomed = FALSE /\ finished = 0
  /\ breached = FALSE /\ faults = 0 /\ crashes = 0

\* The steps of a request that has arrived, or of a sweep that has begun.
Handle(p) ==
  \/ StorageCreate(p) \/ RecordNew(p) \/ UndoBlob(p) \/ UndoState(p)
  \/ Lock(p) \/ Load(p) \/ Detect(p)
  \/ RecoverGate(p) \/ RecoverPersist(p) \/ RecoverNotify(p) \/ Reconcile(p)
  \/ Prepare(p) \/ Open(p) \/ WriteChunk(p) \/ StreamError(p) \/ Sync(p)
  \/ Commit(p) \/ FinishGate(p) \/ FinishNotify(p) \/ Respond(p)
  \/ PreTerminate(p) \/ DeleteBlob(p) \/ DeleteState(p)
  \/ TryLock(p) \/ Assess(p)

Next ==
  \/ \E r \in Requests : Post(r) \/ Arrive(r) \/ Cancel(r)
  \/ \E p \in Procs : Handle(p)
  \/ \E s \in Sweepers : ListExpired(s)
  \/ \E d \in detached : Late(d)
  \/ Tick
  \/ Crash

Spec == Init /\ [][Next]_vars

\* The executor polls every live handler; the sweeper's interval keeps ticking.
Fairness ==
  /\ \A p \in Procs : WF_vars(Handle(p))
  /\ \A s \in Sweepers : WF_vars(ListExpired(s))

FairSpec == Spec /\ Fairness

-----------------------------------------------------------------------------
(* Safety.  The lock keeps everybody out but the creating POST, which takes *)
(* none, and the file operation a dropped handler has left with the thread  *)
(* pool.  The properties hold as long as the lock is not granted past one   *)
(* of these: breached says that it was, and then another handler's reads    *)
(* and writes interleave with what is still to come.                        *)

\* The object is a prefix of the client's file: handlers dropped in the middle
\* of a PATCH, and the recoveries after them, keep the upload consistent.
InPlace == \A i \in 1 .. Len(bytes) : bytes[i] = i

\* The stored object is always a prefix of the client's file: whatever
\* appends, truncations, crashes, cancellations, operations left behind and
\* recoveries happened, no byte is duplicated, skipped or out of place
\* (append, reconcile).
StoredPrefix == ~breached => InPlace

\* Bytes that a response has acknowledged or that the record claims are stored:
\* they are never lost to a later truncation, rollback or recovery, and a record
\* that survives a crash claims none that did not (commit order).  Only a
\* deletion of the upload removes them.
AckedBytesStored ==
  ~breached /\ ~doomed => acked <= Size /\ (hasState => state.offset <= Size)

\* No sequence of appends, deferred lengths and recoveries stores more bytes
\* than Upload-Length or max_size allow, so recovery never meets an object
\* that is longer than declared.
WithinLimits ==
  ~breached /\ hasState => Size <= MaxSize /\ ~StoredTooMuch(state)

\* A success response is about the bytes that are stored when it is sent:
\* POST, PATCH and HEAD report exactly the stored size, GET serves an upload
\* whose every declared byte is there, although state was read much earlier.
ReplyMatchesStore ==
  ~breached =>
    \A r \in Requests :
      At(r, "respond") /\ kind[r] # "delete" =>
        /\ st[r].offset = Size
        /\ kind[r] = "get" => st[r].length = Size

\* When the sweeper is about to delete the object, the stored bytes do not make
\* up a whole deliverable upload: the sweeper is safe to run alongside serving.
SweepIsSafe ==
  \A s \in Sweepers :
    At(s, "delBlob") /\ hasState /\ hasBlob =>
      ~(~state.partial /\ state.length = Size)

\* The sweeper never deletes a completed deliverable upload, although its list
\* of candidates is stale and it judges a record that may lag behind the bytes
\* (prepare_upload_reclamation_access).
SweepSparesComplete == ~breached => SweepIsSafe

\* PostFinish runs at most once, even if the completion was recovered or the
\* client retried the completing PATCH.
PostFinishOnce == ~breached => finished <= 1

\* A creation that answers with an error has undone what it did, unless a
\* store operation failed on the way (rollback_storage, rollback_creation).
FailedCreationLeavesNothing ==
  \A r \in Requests :
    Creating(r) /\ reply[r] \in {"error", "rejected"} /\ At(r, "done") =>
      faults > 0 \/ (~hasState /\ ~hasBlob)

\* The persisted offset never moves backwards, and a length once persisted
\* never changes, until somebody deletes the stored bytes.
OffsetMonotonic ==
  [][~breached /\ hasState /\ hasState' /\ ~doomed =>
       /\ state'.offset >= state.offset
       /\ state.length # Deferred => state'.length = state.length]_vars

\* A record appears once, by the creating POST: no update brings a deleted
\* upload back, although StateStore::set(.., Update) would create the record.
\* DELETE and the sweeper remove it only after the bytes are gone, so a failed
\* removal can be retried and leaves no orphaned object (terminate); only the
\* rollback of a creation nobody knows of may leave the bytes behind.
BornOnceGoneLast ==
  [][~breached =>
       /\ ~hasState /\ hasState' => \E r \in Requests : At(r, "record")
       /\ hasState /\ ~hasState' =>
            \/ ~hasBlob
            \/ ~known /\ \A s \in Sweepers : ~At(s, "delState")]_vars

\* The upload is there as a client understands it.
Live == hasState /\ ~doomed

\* Through all interleavings, failures and recoveries a client sees one upload
\* that is created, advances and is removed: a response reports exactly the
\* offset on record, although the record and the object are written apart, and
\* what was removed stays removed for whoever knows its URL.
Resource == INSTANCE UploadResource WITH
              live   <- Live,
              offset <- IF Live THEN state.offset ELSE 0,
              length <- IF Live THEN state.length ELSE Deferred
ImplementsResource ==
  Resource!Init /\ [][breached \/ Resource!Next]_(Resource!resourceVars)

-----------------------------------------------------------------------------
(* Liveness.                                                               *)

\* Every request is answered: a waiter gives up or gets the lock, whatever
\* other handlers were dropped while they held it.  (Requests are finitely many
\* and done for good, so each one that arrives ends iff none runs in the end.)
EveryRequestEnds ==
  <>[](\A r \in Requests : At(r, "idle") \/ At(r, "done"))

\* An upload that is past its deadline is eventually removed by the sweeper,
\* unless it turns out to be completed content, or a write left behind has made
\* it longer than declared, which no sweep ever decides.
AbandonedIsReclaimed ==
  (hasState /\ IsExpired(state)) ~>
    \/ ~hasState \/ ~IsExpired(state) \/ StoredCompletion(state)
    \/ breached /\ StoredTooMuch(state)
=============================================================================
