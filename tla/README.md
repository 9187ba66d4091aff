# Verification of tus-rs

TLA+ models of the tus resumable-upload server and client in this repository
(`crates/`), TLC configurations that check them on small instances, and TLAPS
proofs for every size. Paths below are relative to the repository; `protocol`
abbreviates `crates/tus-protocol/src`.

    tlc -workers 2 -config LifecycleSafety.cfg MCUploadLifecycle
    tlapm UploadLifecycleProofs.tla

`PROJECT.json` lists the components, the runs, mutants for every checked property
(a plausible bug that the property notices), the source lines each definition
models, the disagreements with the documentation, the hazards and the theorems.

## The system

| Component | State it keeps | Operations | What makes it correct |
|---|---|---|---|
| Protocol handlers (`protocol/protocol/*`, `protocol/lifecycle/*`) | none of its own between requests; a local copy of the record during one | POST (with or without a body), PATCH, HEAD, GET, DELETE | bytes are stored once and in order; a response tells the truth; an upload is never resurrected |
| State store (`state.rs`, `state/file.rs`, `state/memory.rs`) | one record per upload: offset, length, kind, expiry | `set(CreateNew)`, `set(Update)`, `get`, `delete`, `list_expired` | every write replaces the record as a whole |
| Storage (`storage/file.rs`, `storage/memory.rs`, `crates/tus-storage-opendal`) | one object per upload | `create`, `append`, `size`, `stream`, `concat`, `delete` | an append is all or nothing, or at least repairable |
| Lockers (`locking.rs`, `locking/memory.rs`, `locking/file.rs`) | who holds the lock of an ID | `lock` with a timeout, `try_lock`, `is_locked` | one guard at a time; nobody waits for a free lock |
| Recovery (`lifecycle/recovery.rs`) | none | completes or corrects a record that lags behind the object | run under the lock before every use of the record |
| Expiration (`expiration.rs`, `lifecycle/reclamation.rs`, `crates/tus-server/src/expiration.rs`) | none | the in-process sweeper, the cleanup command | reclaims what is abandoned, never completed content |
| Final uploads (`lifecycle/final_upload.rs`) | a record that names its parts | create, materialise, repair, refresh | parts do not change during the concatenation |
| Body intake (`lifecycle/receive/body.rs`, `checksum.rs`) | a stream wrapper | limits, checksum, trailer | a bad body becomes a stream error before the append ends |
| Hooks (`hooks.rs`, `crates/tus-hook-http`) | none | pre hooks may reject, post hooks notify; HTTP delivery with retries | stop at the first rejection; bounded delay |
| Server (`crates/tus-server`, `crates/tus-axum`) | open connections, a drain flag | accept, drain, sweep | shutdown ends |
| Uploader client (`crates/tus-uploader`, `crates/tus-cli`) | an upload URL, a retry budget | create, resume, parallel upload, terminate | every byte sent exactly where the server wants it; retries are bounded |
| Browser client (`crates/dioxus-tus`) | a queue, worker slots, persisted URLs | enqueue, pause, resume, abort, reconcile | an item runs in one slot and is never forgotten |

Handlers call storage, state store, locker and hooks; the sweeper shares them in
the same process. A handler is an async function: at each `.await` another
handler may run, the handler itself may be dropped because the client went away,
and the process may die. What is hard is therefore the *state between two
awaits*: a record read before the lock, bytes stored before the record, a lock
released while a file operation is still with a blocking thread, a candidate
listed before its lock is taken. Those places are listed, each at its line,
under `hazards` in `PROJECT.json`.

## Modules

| Module | Models |
|---|---|
| `UploadLifecycle` | one upload resource: all handlers, recovery, the sweeper, `FileStorage`, the record, the lock, failures and crashes |
| `UploadResource` | what a client may rely on: the abstract upload that `UploadLifecycle` is shown to implement |
| `UploadLock` | the abstract promise of the `Locker` trait |
| `MemoryLocker` | `locking/memory.rs`, shown to implement `UploadLock` |
| `FileLocker` | `locking/file.rs` (unix), shown to implement `UploadLock` |
| `FinalUpload` | a final upload and its parts: `lifecycle/final_upload.rs` beside the requests and sweeps on the parts |
| `OpendalStaging` | one upload in `crates/tus-storage-opendal`: parts, marker, main object, the handle's cursor |
| `BodyIntake` | one request body on its way to the storage: `lifecycle/receive/body.rs` |
| `ServerLifecycle` | the server's accept and shutdown loop with requests that wait for webhooks: `crates/tus-server/src/lifecycle.rs`, `crates/tus-hook-http` |
| `UploaderClient` | parallel upload, resume loop and retry budget against a lossy network: `crates/tus-uploader/src/client` |
| `UploadQueue` | the browser client's queue, workers and persisted URLs: `crates/dioxus-tus/src` |
| `MC*` | constants and symmetry sets for TLC |
| `UploadLifecycleProofs`, `FinalUploadProofs`, `OpendalStagingProofs`, `LockerProofs`, `BodyIntakeProofs`, `ServerLifecycleProofs`, `UploaderClientProofs`, `UploadQueueProofs` | theorems; `LockerProofs` is about both lockers |

Definitions marked *Faulty* stand directly before the definition they are a
buggy variant of; they belong to the mutants and nothing uses them.

### UploadLifecycle

One upload is enough: IDs are fresh UUIDs, and record, object and lock belong to
one ID; only final uploads relate several.

State: `hasState`/`state` is the record, `hasBlob`/`bytes` the object, `lock` the
holder of the lock (the abstract lock of `UploadLock`), `late` whether the
deadline has passed, `detached` the file operations of dropped handlers that a
blocking thread still has to execute. Each process has `pc`, `kind`, its local
record `st`, its request `arg`, the bytes it has `sent` and its `reply`. `known`,
`acked`, `doomed` and `finished` are history: the client has the Location; the
largest offset a response reported; somebody deleted the object; how often
`PostFinish` ran. `breached` is history too: the lock was granted (`Acquire`) while
work on the upload went on without it (`Unlocked`), which is either an operation in
`detached` or the creating POST, which takes no lock. From then on two actors work on
the upload at once, the code promises nothing and things do go wrong (`SweepIsSafe` and `InPlace` under
*Runs*); the safety properties speak of the time before. A byte is represented by its position in the client's file, so
"the right bytes" is `bytes[i] = i`.

Actions, in the order of the code:

| Action | Code |
|---|---|
| `Post`, `StorageCreate`, `RecordNew` | header checks, `PreCreate` and `PreReceive`; `storage.create`; `state_store.set(CreateNew)` |
| `UndoBlob`, `UndoState` | `rollback_storage`, `rollback_creation`; each half may fail |
| `Arrive`, `Lock`, `Load` | the unlocked existence check, `locker.lock` with its timeout, the locked `get` and the expiry check |
| `Detect`, `RecoverGate`, `RecoverPersist`, `RecoverNotify` | `reconcile_stored_completion`: the stored bytes complete the upload |
| `Reconcile` | `reconcile_storage_offset`: the object's size becomes the offset |
| `Prepare` | `prepare_receive` and `prepare_receive_body`: offset, length and size checks |
| `Open`, `WriteChunk`, `StreamError`, `Sync` | `FileStorage::append`: size check, chunk by chunk, truncation or sync |
| `Commit`, `FinishGate`, `FinishNotify`, `Respond` | `commit_receive_body`, `PreFinish`, `PostFinish`, the response |
| `PreTerminate`, `DeleteBlob`, `DeleteState` | DELETE, and the removal half of the sweeper |
| `ListExpired`, `TryLock`, `Assess` | a sweep of one candidate |
| `Cancel`, `Late`, `Crash`, `Tick` | environment: dropped handler (which may leave a file operation behind), blocking thread, process death, clock (the deadline may pass during the creation) |

`Fault` is a store call that returns an error; which effects a failed call may
have had is in each action. A crash is the death of the process, not a power
failure: what the kernel has accepted survives. Post hooks other than
`PostFinish` change nothing and are left out; hook verdicts are nondeterministic.

`UploadResource` is the same upload as a client knows it: it is created, its offset
advances within its length, responses report the offset on record, it is removed and
does not come back. `UploadLifecycle` implements it (`ImplementsResource`) with the
record as its offset and length while nobody has deleted the bytes (`Live`). A record
left behind by a DELETE that failed half-way is to a client an upload that is gone,
although HEAD still answers for it, with offset 0: the promise ends with the bytes.

### The lockers

`MemoryLocker` splits `lock`, `try_lock`, the guard's drop and `remove_if_idle`
where the code leaves the map's mutex or the semaphore. The semaphore is tokio's
(external): FIFO, the release hands the permit to the first waiter. Semaphores
have identities that can be reused, so a task with an `Arc` of an old generation
can coexist with a new one unless the reference-count test prevents it.

`FileLocker` has one step per system call (`open`, `flock`, `stat`, `unlink`,
close). Inodes are reused once no path and no descriptor refers to them. `Die`
covers process death, a failing call and a dropped acquisition.

### FinalUpload

`hasState`/`state`, `hasBlob`/`bytes` and `lock` are indexed by upload: 0 is the
final upload, the parts are numbers. A part has one byte, its own number, so a
correct final object is the list of its parts. The plan is loaded part by part
without locks (`LoadPart` at `plan`), the parts of a complete plan are locked in
the order of their IDs without waiting (`LockPart`), and the plan is loaded again
(`replan`). A creation then goes through `Apply`, `StorageCreate`, `Concat` and
`RecordNew`; a read through `LoadRead`, `Recover`, `Inspect`, `Concat`, `Update`
and `Notify`. The parts are patched in two steps (`AppendByte`, `Commit`), deleted
and swept. `Concat` copies and renames in one step: `PlanHolds` says that nobody
can change a part meanwhile. `Cancel` ends any request anywhere and stands for a
failing call, a dropped handler and a crash.

### OpendalStaging

The parts by number, the marker's part number and the main object are the state
of the backend; `record` holds offset, length and the handle's two hints. The
storage expects one writer at a time, so one request runs at a time and what is
explored is where it stops: every request to the backend is a step, `Interrupt`
may follow any of them, and failures are unbounded. `TornWrites` says that the
backend shows an object while it is written (`fs`). A body may be damaged, which is
known only when it has been streamed to its end: its append then fails, and `spoilt`
has the positions at which bytes of such a body stay stored nevertheless. A request may be answered with
an error although it took effect. Repair by a read
(`Read`), the retries of finalize, the cleanup that may stop halfway and
`delete_all` are steps of their own. Temporary objects have fresh names and are
never read by anybody else; they appear only as the handler's `buf`. `create`
finds nothing at a fresh UUID, so its sweep of stale objects is left out. `concat`
reads its sources from their main objects, repairing them first: `ConcatSource`.

### BodyIntake

A body is the number of its bytes (`sent`), a digest an algorithm and the number
of bytes it is of, so that a digest of too many or too few bytes is wrong. The
configuration (`conf`) and the request (`req`) are chosen in `Init`. `Validate` is
`validate_before_polling` and the choice of a path: a body with a known length is
streamed (`StreamData`, `StreamError`, `StreamEnd`, `Finish`), any other is
collected up to `BufferLimit` (`CollectData`, `CollectError`, `CollectEnd`,
`Buffered`). While a body is streamed its bytes go to the storage at once
(`stored`); `Fail` is the storage's truncation when the stream turns into an error,
`WriteFails` the same when a write fails. The truncation may fail as well, as may the
last sync, and the handler may be dropped (`GivesUp`); `fault` remembers it.
`Commit` moves the offset by `IntakeSize`, which for a streamed body is the header's
Content-Length. `UploadLifecycle` chooses between `Sync` and `StreamError`; this
module says when the code does which.

### ServerLifecycle

Time is discrete: every wait has a timer, `Elapse` runs all of them down by one and
is blocked by a waiter that is due (`Due`). A connection reads headers, runs a handler,
writes the response as fast as the client reads it and may be kept alive. `Plans` lists,
for each kind of request, what its handler awaits in order: the lock and the load, each
pre-hook (`Gates`), the body, the change in the stores, each post-hook (`Posts`). A PATCH
that completes the upload has PreFinish after its change, a creation between its change
and the post-hooks, a final upload and a recovery before it. `Begin` enters a step,
`Worked` and `Received` end one, `Refuse` is an error, which for a creation that has
written goes through a rollback (`Undone`) that may itself fail (`stuck`). Lock waits end
by `LockTimeout`; `StoreTime` is an assumption about the stores, whose calls the code
gives no timeout. The history variables `vetoed`, `changed` and `sent` record which gate
the endpoint refused, what the request changed and which post-hooks it sent; a request
that is dropped or aborted midway (a creation between its write and its rollback, too)
is outside `RejectionStands`. A delivery (`Deliver`, `Answered`, `Failed`, `Retry`, `Again`,
`Conclude`) has attempts, a delay from backoff or `Retry-After`, and a deadline;
the endpoint's decision (`wants`) is made once, its answer may be lost. The loop is
`Accept`, `AcceptError` and `AcceptAgain`, `EnterLameDuck` and `LeaveLameDuck`,
`Close`, then `Drained` or `ForceExit`, which aborts the connections (`cut`).
hyper, the clients and the endpoint are external.

### UploaderClient

`upload_parallel` is the caller (`Spawn`, `Join`, `SourceFails`, `Drain`, `Cleanup`,
`Concatenate`), its parts are tasks. A task creates its upload (`OnPost`), and runs
the resume loop: HEAD (`OnHeadOk`, `OnHeadFail`), PATCH (`OnPatchOk`, `OnPatchFail`),
a last HEAD when the budget is exhausted (`OnLastHead`). `Report` is the progress
callback, which takes a second lock after the sum has been made. The wire holds one
request per task and one that was given up and may still arrive (`late`). The server
is external: it stores the bytes of a PATCH at its own offset, perhaps only some of
them, may refuse, lose its last bytes (`Rollback`) and expire an upload (`Expire`).
A part alone is what `upload_from` sends.

### UploadQueue

Everything runs on the browser's one thread; an action is what runs between two
awaits. `items` and `slots` are the queue; the items are a function of their ids,
because `add` appends them with growing ids and nothing reorders them, so "the first
queued item" is the one with the least id and the free slots take the waiting items
rank by rank (`Starts`). Each worker has a command channel, the
status it shows (`st`) and the state of its `run_upload` (`eng`); `disk` is
localStorage, `offs` the server's offsets. `Tick` is the whole 50 ms reconciliation:
free the slots of ended workers, mirror the statuses, hand out queued items. `Work`
is a worker's step: `TakeCommand`, `Create` or `Probe`, `LoopTop`, `Patch`, `Recover`,
`BackoffEnds`, and `React`/`Interrupt` when a command wins the race against a
request or a timer. `User` calls add, pause, resume, abort, remove, retry and clear,
and reloads the page. `fate`, `failed`, `done` and `asked` are history: `failed` is the
resource of a run that has just failed, until a tick has seen it, so that an Abort which
only the idle loop takes is known to have been meant for it (`fate` is then "dropped").

## Runs

| Run | Result | What it shows |
|---|---|---|
| `LifecycleSafety` | pass | bytes, record, responses, hooks and removal stay consistent under races, two faults, a crash, dropped handlers and what they leave behind, until the lock is granted past work that goes on without it; refinement of `UploadResource`; a failed creation leaves nothing |
| `LifecycleLiveness` | pass | every request ends; an abandoned upload is reclaimed |
| `MemoryLocker` | pass | refinement of `UploadLock`; the last one out removes the entry and waiters are served |
| `FileLockerSafety` | pass | refinement of `UploadLock` |
| `FinalSafety` | pass | a complete final upload has exactly its parts' bytes and stays complete, its finish hooks run in order; parts do not change under a concatenation; the sweeper spares it |
| `OpendalSafety` | pass | for declared lengths: objects hold the file in order from its start, acknowledged bytes stay, resuming is accepted, a complete upload is readable and served whole |
| `Uploader` | pass | what counts as uploaded is whole on the server, the retry budget and the cleanup hold, the upload ends if its requests do |
| `Queue` | pass | an item's status is true (Complete is uploaded, Aborted was asked for), a worker serves its slot, a stored URL is neither of a completed upload nor of a run that took an Abort |
| `QueueWaiting` | pass | items that wait for a slot: every item settles, or the user left it, or every worker, paused |
| `Server` | pass | a refusal at any gate leaves the upload as it was, but for the bytes of a PATCH refused at PreFinish; a grace period that covers the longest request cuts only requests with a body; shutdown ends, although clients and webhooks may never answer |
| `Body` | pass | an acknowledged body is in order, stored and counted exactly; a refused one moves no offset and leaves nothing the storage could take back |
| `OpendalCleanupCrash` | violation | deferred length: an interrupted cleanup and a second finalize lose bytes |

What TLAPS proves for every value of the constants and no run repeats is listed under
*Proofs*: the type invariants of the lifecycle, the lockers, the body and the server,
the monotonic offset (which `UploadResource` implies),
exclusion and one generation of the lockers, the bounds on deliveries and shutdown, the reasons for a refusal, the
order of the parts.

The violation is a disagreement between code and comment that `findings` quotes. Others
were met while modelling. The first six can be reproduced: add the property named first
to the configuration named behind it.

* `SweepIsSafe` (`LifecycleSafety.cfg`): `receive_creation_with_upload` (`receive.rs:136`) stores the record before
  the body and takes no lock, so a sweep after the upload's deadline deletes an
  object that has become complete by then. README.md:97 says "That sweeper shares the
  live server's process-local locker, so it is safe to run alongside serving",
  docs/architecture.md:158-160, under creation-with-upload, "Protocol locks the
  upload ID".
* `InPlace` (`LifecycleSafety.cfg`): `append` (`storage/file.rs:180`) writes through `tokio::fs`, whose
  blocking thread writes even when the PATCH is dropped and its lock released, so
  the bytes can land behind those of the resumed upload. hooks.rs:54-59 says that
  "per-PATCH atomicity plus reconcile-on-HEAD keep the upload consistent". In the same
  way a late rename of the record can undo a DELETE (`state/file.rs:107`).
* `TornPartIsResumeSafe` (`OpendalSafety.cfg`): a non-completing body is streamed to its
  part key; when it turns out to be damaged and the handler dies or the best-effort
  discard fails (`staging.rs:451-455`), its bytes stay, count, and are later served. The
  comment at `staging.rs:152-154` calls a torn non-completing part "resume-safe".
  `StoredPrefix` and `ServedIsWhole` therefore speak of the order and the completeness of
  the bytes, and of damage only in the completing body.
* `AbortForgetsEntry` (`Queue.cfg`): an Abort sent while a PATCH is in flight is read after
  it. If the PATCH failed for good, the run has ended and the idle loop takes the Abort
  (`hook.rs:491-501`): the item becomes Aborted and its stored URL stays, so adding the
  file again resumes what the user gave up. queue.rs:406-407 says that the engine's Abort
  handler "clears any persisted localStorage entry".
* `FinalWithinMaxSize` (`FinalSafety.cfg` with `MaxSize = 1`):
  `repair_final_upload` (`final_upload.rs:297`) never looks at `max_size`, so
  deferred parts that are each within it make a final upload beyond it;
  final_upload.rs:576-578 says such an upload "is bounded later, like any
  deferred-length upload".
* `StatusIsTrue` (`Queue.cfg` with `PromptWorkers = FALSE`): if the tick
  runs before an ended worker has read an Abort that is still in its channel, the
  Abort hits the next item; queue.rs:696-698 says "its channel has been drained past
  the Abort".
* `PreFinish` rejects a completing PATCH after the completed record was persisted
  (`receive.rs:130`); docs/adapters.md:130-131 puts rejections before commits.
* A storage error fails a DELETE and keeps the record (`termination.rs:52`);
  docs/architecture.md:194-195 says it is ignored.
* A `lock` future dropped while it waits may leave an idle entry in the map
  (`memory.rs:110`); `LastOutReaps` is about the tasks that do reap.
* OpenDAL, deferred length: after finalize deleted the parts and the commit was
  lost, `append_position` trusts the stale size hint and refuses every append
  (`staging.rs:336`): `Resumable` fails with `Deferrable = TRUE`.
* OpenDAL: a promotion of the completing part that took effect although it was
  answered with an error costs the upload its marker (`staging.rs:149`); it
  completes and cannot be read: `CompleteIsReadable` excepts it (`lost`).
* OpenDAL: after a delete that stopped halfway a PATCH may be accepted and
  materialized from parts with a gap (`staging.rs:315`), where the comment calls the
  remaining parts "inert garbage": `StoredPrefix` excepts uploads
  whose deletion has begun (`doomed`). What a read repairs is whole even then:
  `ServedIsWhole` excepts only a main object that was there before.
* OpenDAL: a concatenation that names an empty part fails, as an empty upload has no
  main object (`staging.rs:245`).
* Uploader: a part whose task is aborted in the middle of a request reports no URL
  and is not terminated, nor are the parts when the concatenation fails; upload.rs:395-397
  promises that "partial uploads that were already created are terminated on a
  best-effort basis". `FinishedPartsCleaned` is about the tasks that ended.
* Uploader: "whenever the server offset advances, the counter resets"
  (upload.rs:606-609), but when the budget is exhausted the last HEAD only accepts a
  complete upload; partial progress still ends in an error.
* Uploader: if the answer to the last PATCH is lost, the upload succeeds and progress
  is never reported as complete.
* Queue: `retry_item` says "if a stored entry exists it'll be honoured on the next
  start" (queue.rs:488-489); the entry is looked up only in `add`.
* Queue: the attempts of one run can reach `max_retries + 1` when a HEAD fails, and after
  `remove_item` the same file can be added while the removed run still sends, so two
  workers may PATCH one resource; the server's offsets keep that harmless.
* A checksum trailer that does not parse is refused even if checksums are off
  (`body.rs`): `RefusedForAReason` excepts it.

**Bounds.** Three requests and a sweeper: one creates the upload, two race each
other and the sweeper; every property relates at most one creator and two
others. `LifecycleSafety` has lengths 0, 1 and 3 and bodies of 0, 1 and 3 bytes
with `MaxChunk = 2`, so an upload takes several PATCHes, a body can exceed the
chunk limit, a deferred length can be declared wrongly and an object could grow
beyond a declared length if nothing prevented it. Two faults let an operation and its rollback both fail;
one crash can separate an append from its commit. `LifecycleLiveness`
uses one byte and one fault (a removal that stops half-way). Four tasks and two semaphores give a holder, a
queue of two and a newcomer, and reuse of a semaphore; five inodes are one more
than four tasks can hold open, so creation never lacks one. `FinalSafety` has four
requests (a creation, a read, and two that change or remove parts, or any other
choice) over two parts named `<<2, 1, 2>>`: out of ID order and one of them twice.
The OpenDAL runs have lengths 0, 2 and 3, bodies of 0 to
2 bytes and four part numbers (`MaxParts`), enough for a stale cursor, a torn part
and a completing part behind them; `FinalizeRetries` is the code's 2.
`Uploader` has a source of three bytes in parts of two and one and chunks of one: the
first part takes two PATCHes, the second rides on its creation, both are in flight,
finish in any order and have one retry. `Queue` has the code's two workers, two
items of one file of two chunks (so an item can be added again while a run on the same
resource ends), one retry and two further calls of the user at any moment, enough for an
Abort followed by a re-add, and for Pause followed by Abort. `QueueWaiting` has one
worker and three items, so items wait for a slot that has to be freed after each way a
run can end. `Server` has one connection at a time and all eleven kinds of
requests, up to three attempts per delivery, a `Retry-After` up to the deadline, and
grace periods of none, too short and one unit more than the longest request; connections
only interact through the loop, so one shows what a request does, and what is proved
(`ShutdownBounded`) holds for any number. `Body` has
bodies of up to three bytes with limits and caps above, at and below.

`CHECK_DEADLOCK FALSE` in the lifecycle, final, OpenDAL, uploader, server and body
runs: once every request is done, or the upload, the server or the body has ended,
the system rests. The lockers and the queue never do.

`PromptWorkers` says that a worker waiting for a command is polled before the next 50 ms
tick; what fails without it is listed above. `Deferrable = FALSE` in `OpendalSafety` says
that the length is declared at creation; with a deferred length `StoredPrefix` and
`Resumable` fail (`OpendalCleanupCrash`). The lifecycle has no such constant: what it
excepts, it excepts state by state (`breached`).

**Fairness.** `LifecycleLiveness` assumes weak fairness of each process's
handler steps and of the sweeper's scan. The executor polls every live task, a
waiter has a timeout, request bodies end (the server's read timeout or the
disconnect), and `spawn_expiration_sweeper` ticks on an interval for as long as
the process lives. Requests need not arrive, clients need not disconnect,
nothing needs to fail, and an operation left behind need never be executed. `MemoryLocker` assumes that a task that holds the
lock continues; timeouts and cancellations are not assumed. `Uploader` assumes
that the caller and every task are polled, and nothing of the network or the server:
`ReqwestTransport` sets no timeout, so a server that stays silent hangs the upload.
That every request is answered or fails is the premise of `EveryUploadEnds`
(`RequestsEnd`). `QueueWaiting` assumes the
interval timer and that a woken worker is polled, nothing of the user, and no answer to
any request, as no timeout is set: that no worker waits on the wire for ever is the
premise of `EveryItemSettles`. `Server`
assumes that the loop and a woken connection are polled and that time passes; a
client or a webhook need never answer.

## Proofs

Every safety property the runs check is proved for all constants that satisfy the
module's `ConstantsAssumption`. TLC alone checks the liveness properties: the provers
handle neither fairness nor `ENABLED`. Each inductive invariant was checked by TLC
before it was proved.

A theorem has a hypothesis on a constant where the property is false without it; what
fails then is listed under *Runs*. For the staging protocol it is `Deferrable = FALSE`,
for two of the queue's properties `PromptWorkers = TRUE`; they are the values the passing
runs use. The theorems about the lifecycle have none.

* `UploadLifecycleProofs` has three inductive invariants.
  * `TypeInv`: `TypeCorrect`. `TypeOK` is not inductive: `Commit` adds
    the size of the body, which must be a number, so the invariant adds that a process
    at `open`, `write` or `commit` has a body (`RecordNew` sends a POST without one
    elsewhere), that the recovery actions run for a declared length, and which points
    each kind of request passes through.
  * `CInv`, which holds even when `breached`: `FailedCreationAlways`. It says who may
    write: the lock's holder or the creating POST before the client knows the upload
    (`Exclusive`). It follows the rollback of a POST step by step: as long as no record
    update can be left behind by somebody else, a creation that ends in an error
    without a fault has left nothing, even if the sweeper was at it (`Clean`).
  * `SInv` adds `~breached => Sound`: `PrefixAlways`, `AckedAlways`, `LimitsAlways`,
    `ReplyAlways`, `SweepAlways`, `FinishAlwaysOnce`, `OffsetAlwaysMonotonic`,
    `BornOnceAlways` and `ResourceRefinement`. `Sound` has four parts. `Content`: the
    object is a prefix of the file, and a writer's `offset` plus `sent` is its size.
    `Steady`: what the stores promise at rest (`Kept`: acknowledged <= recorded <=
    stored, at most one `PostFinish`, and only for a complete record), what the process
    at work knows (`Sees`: from `Load` on its copy is the record, except between
    `Prepare` and `Commit`, where only offset and kind are; before `Commit` the object
    has grown by exactly the body), and that nobody has the lock during the creation
    (`Calm`). `Quiet`: if an operation of a dropped handler is outstanding, it is the
    only one, everybody is at rest, and it finds what its handler would have found
    (`Owed`: a write goes to the end of the object and within the limits, a truncation
    cuts to the recorded offset, an update fits the stored size and does not take the
    length back). So executing it is one of the steps its handler might have taken.
    It is the crux: granting the lock sets `breached` unless nothing is outstanding,
    and a crash forgets what is. `Told`: nobody deletes the bytes of a creation before
    it answers, so the upload a POST announces is there. For the refinement, `Sees` makes
    `RecoverPersist`, `Reconcile` and `Commit` an `Advance` and `Respond` a `Report`, and
    `Owed` makes a late update an `Advance`.
* `FinalUploadProofs`: all safety properties of `FinalUpload` from `FInv`. Its heart is
  `Secured(r, p)`: request `r` holds part `p`'s lock and its plan says what the part's
  record says. It holds for every part once the second load of the plan is over, if
  the plan is complete, so `Concat` reads what the plan promised; before, a plan may
  be stale, and nothing is concluded from it. The rest says that a complete record has
  an object with all the parts in order (`FinalOK`), that the creation is the only
  request on the final upload until its record is stored (`CreationOK`), which of the
  two finish hooks have run (`HooksOK`), and that a reader who completes the
  upload found it incomplete (`Sees`).
* `OpendalStagingProofs`: all safety properties of `OpendalStaging` from `OInv`, for any
  lengths, bodies and number of parts; `TypeCorrect` without the hypothesis. The parts
  can be believed as long as the first one is there, or nothing has been materialized or
  deleted (`Firm`): cleanup and deletion remove the first part first, so later parts
  that an interruption leaves behind are never taken for the file. While they can, the
  handle's size is that of the parts before its cursor, the part being written starts
  where those end, whatever torn part lies behind (`Aligned`), and a marker names the
  completing part, which makes the upload repairable between promotion and finalize.
  `SpoiltBefore` adds that a damaged byte is never the last one of the file, since the
  completing body goes through a temporary object.
* `LockerProofs`, of `MemoryLocker`: `OneGeneration`, `NobodyWaitsForAFreePermit`,
  `MutualExclusion` and `LastOutReaps`, and that the locker implements `UploadLock`. The
  invariant ties `permit` and `queue` to the tasks' program points: a permit belongs to
  a task that holds or has been handed it, a queue holds exactly the waiting tasks
  without a permit.

  Of `FileLocker` (instantiated as `File`, with variables of its own): `MutualExclusion`,
  `HolderOwnsPath` and that the locker implements `UploadLock`. The invariant says that
  an advisory lock belongs to a task with a descriptor of that inode, and that a guard's
  inode is the path's; exclusion follows because two guards would own the same inode.

  Both lockers' type invariants also say that references and descriptors are held
  exactly at the points where the code holds them, which the reference count of the
  one and the inode reuse of the other rest on.
* `BodyIntakeProofs`: all properties of `BodyIntake`, for bodies, limits and sets of
  algorithms of any size. The invariant says, for each program point, how the bytes
  read, hashed and stored relate and which checks the headers have passed, so that
  `Finish` and `Buffered`, which check at different moments, decide the same.
* `ServerLifecycleProofs`: `TypeOK`, `RejectionStands`, `DeliveryBounded`,
  `GraceSuffices` and `ShutdownBounded`, for any number of connections and any timers.
  The invariant follows the clocks: an attempt begins no later than its deadline;
  while the server drains, the grace left exceeds what a request may still take (a table
  of the time to go after each step, `Togo`); the time since the signal is what drain
  delay, backoffs and grace have used up. What a request has changed and announced is a
  function of the step it is at, and the plans have no gate after a post-hook but the
  PreFinish of a PATCH.
* `UploaderClientProofs`: `StoredPrefix`, `FinishedIsWhole`, `SuccessIsSource`,
  `RetryBudget`, `FinishedPartsCleaned` and `ProgressNeverFalls`, for sources, parts,
  chunks and budgets of any size. The invariant says that a request on the wire,
  however late, fits its part, that an answer that claims a whole part is right unless
  the upload has expired, and what the caller has joined. `TypeOK`, which bounds the
  progress total, needs that a sum over the parts is monotonic in each of them.

* `UploadQueueProofs`: `TypeOK`, `StoredIsResumable`, `StatusIsTrue` and
  `EngineServesSlot`, for any number of workers, items, files, chunks, retries and calls
  of the user. What a worker's step may do is stated once (`Effect`) and shown action by
  action, as is what a tick or a call may do (`QueueEffect`); the invariants follow from
  the two summaries.
  * `Stored` (no hypothesis) gives the first two. `TypeOK` alone is not inductive: an
    engine's offset must not pass the server's (`Sound`), or `Patch` would leave the
    range. `StoredIsResumable` needs that everybody who knows a resource, be it an item,
    a command, an engine or localStorage, takes it for an upload of the same file
    (`Owned`): an Abort removes the entry of *its file*, and only this makes it the entry
    of the resource it gives up, also when a removed item's run and a new item share it.
  * `Serving` (`PromptWorkers = TRUE`) gives the others. A Start is always the first
    command of a worker that does not run, the engine runs its slot's item, every Abort
    in a channel and every status Idle or Complete tells the truth about the item in the
    slot *now* (`Serves`), and no two slots hold one item. The last needs that the
    rank of a slot among the free ones is its own (`RankIsPlace`) and that an item in a
    slot is never seen as queued (`MirroredItem`). The hypothesis is used in one place,
    `FreeIsIdle`: a slot that a tick may refill belongs to a worker with an empty channel.

Sums over parts and joined parts are recursive functions. What is proved of them is
proved for the function at hand: it exists, it satisfies its equation, and a
counterexample would have a least argument (`LeastNumber`, from the well-foundedness of
`<` on the natural numbers), which the equation refutes. The library's induction
theorems take a predicate as a parameter and are of no use to these provers.

The refinement proofs of the lockers show `Init => Lock!Init` and that each step is a
step of `UploadLock` or leaves the set of guards unchanged; that of the lifecycle does
the same for `UploadResource` and the variables it maps.

## Plan

1. `UploaderClient` against `UploadResource` in place of its external server.

## Not modelled

Header parsing and formatting, CORS, discovery (OPTIONS), ranges of a download,
configuration, error texts, metrics and tracing have no state; where a check decides
what a handler does, its verdict is a nondeterministic early return. So it is with the
hook chain, a loop over hooks that stops at the first rejection, and with the axum
adapter, which maps HTTP to the handlers. The in-memory storage is
one mutex-protected step per operation and has fewer intermediate states than
the file storage. The cleanup command runs with its own locker and is documented
as unsafe beside a live server. The file of a Unix socket is removed by one guard.
Windows file locking differs from the unix protocol modelled here. The queue's scan and
eviction of old entries, its speed and its ETA are for display. The demo application
and the command-line front end add no logic of their own. Most of the repository's
lines are tests, which nothing here models.
