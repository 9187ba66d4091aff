----------------------------- MODULE FinalUpload -----------------------------
(***************************************************************************)
(* A final upload (Upload-Concat: final) over its partial uploads, from    *)
(* tus-protocol/src/lifecycle/final_upload.rs: the POST that plans and     *)
(* maybe materializes it, the HEAD or GET that refreshes, materializes or  *)
(* recovers it, its deletion, and the PATCH, DELETE and reclamation of the *)
(* partial uploads that go on meanwhile.  Every upload ID has a lock.      *)
(*                                                                         *)
(* What happens within a single upload is the subject of UploadLifecycle.  *)
(* Here a partial upload p has one byte, p itself, which one PATCH stores  *)
(* and records in two steps.                                               *)
(*                                                                         *)
(* A definition marked "Faulty" is the one below it with a plausible bug;  *)
(* nothing uses it.  Each shows that some property notices the bug.        *)
(***************************************************************************)
EXTENDS Integers, Sequences, SequencesExt

CONSTANTS
  Requests,         \* requests and sweeps, each made once
  NoOne,            \* the holder of a free lock
  Order,            \* the partial uploads the final one names, in order
  MaxSize,          \* Config::max_size
  AllowUnfinished,  \* the concatenation-unfinished extension
  DeferredParts     \* whether a partial upload may be created without a length

Final    == 0       \* the ID of the final upload
Parts    == ToSet(Order)
Uploads  == Parts \cup {Final}
Deferred == -1

ASSUME ConstantsAssumption ==
  /\ Order \in Seq(Nat \ {Final}) /\ Order # << >>
  /\ NoOne \notin Requests
  /\ MaxSize \in Nat
  /\ {AllowUnfinished, DeferredParts} \subseteq BOOLEAN

VARIABLES
  hasState, state,  \* the persisted record of each upload
  hasBlob, bytes,   \* its stored object
  lock,             \* who holds its lock
  late,             \* the deadline of the parts, which caps the final's, passed
  pc, kind, target, \* where each request is, what it is and which upload it names
  st,               \* its local record of that upload
  plan,             \* the records of the parts it has loaded
  todo,             \* the parts it has yet to load or to lock
  created,          \* the POST of the final upload has been made
  gated, finished,  \* how often PreFinish accepted and PostFinish ran
  doomed            \* the uploads whose deletion has begun

stores == <<hasState, state, hasBlob, bytes>>
local  == <<kind, target, st, plan, todo>>
hist   == <<created, gated, finished, doomed>>
vars   == <<stores, lock, late, pc, local, hist>>

Record  == [offset : Nat, length : Nat \cup {Deferred}]
Blank   == [offset |-> 0, length |-> Deferred]
NoPlan  == [p \in Parts |-> Blank]

Points == {"idle", "done", "plan", "lockParts", "replan", "apply", "create",
           "concat", "record", "lock", "load", "recover", "inspect", "refresh",
           "complete", "notify", "append", "commit", "delBlob", "delState"}
Kinds == {"create", "read", "patch", "delete", "sweep"}

\* The types of the uploads and of the requests on them.
TypeOK ==
  /\ hasState \in [Uploads -> BOOLEAN] /\ state \in [Uploads -> Record]
  /\ hasBlob \in [Uploads -> BOOLEAN] /\ bytes \in [Uploads -> Seq(Parts)]
  /\ lock \in [Uploads -> Requests \cup {NoOne}]
  /\ late \in BOOLEAN
  /\ pc \in [Requests -> Points] /\ kind \in [Requests -> Kinds]
  /\ target \in [Requests -> Uploads]
  /\ st \in [Requests -> Record]
  /\ plan \in [Requests -> [Parts -> Record]]
  /\ todo \in [Requests -> SUBSET Parts]
  /\ created \in BOOLEAN /\ gated \in Nat /\ finished \in Nat /\ doomed \subseteq Uploads

-----------------------------------------------------------------------------
(* Records and plans.                                                      *)

Complete(s) == s.length # Deferred /\ s.offset >= s.length

\* Partial uploads expire even when they are complete, other uploads do not.
IsExpired(u) == late /\ (u = Final => ~Complete(state[u]))

\* The sum over the parts, a part that is named twice counting twice.
Total(f) ==
  LET sum[n \in 0 .. Len(Order)] == IF n = 0 THEN 0 ELSE sum[n - 1] + f[Order[n]]
  IN sum[Len(Order)]

\* summarize_final_parts.
LengthKnown(pl) == \A p \in Parts : pl[p].length # Deferred
AllComplete(pl) == \A p \in Parts : Complete(pl[p])
TotalLength(pl) == Total([p \in Parts |-> pl[p].length])

\* Faulty: the total length is taken for the offset.
ExpectedOffsetIsTotal(pl) == TotalLength(pl)

\* FinalUploadStatus::expected_offset.
ExpectedOffset(pl) ==
  IF AllComplete(pl) THEN TotalLength(pl) ELSE Total([p \in Parts |-> pl[p].offset])

\* refresh_length: the length, once every part knows its own.
WithLength(s, pl) ==
  IF LengthKnown(pl) THEN [s EXCEPT !.length = TotalLength(pl)] ELSE s

\* apply_final_upload_plan, or refresh_length and refresh_offset.
Planned(s, pl) == [WithLength(s, pl) EXCEPT !.offset = ExpectedOffset(pl)]

Size(u) == Len(bytes[u])

-----------------------------------------------------------------------------
(* Steps of a request.                                                     *)

At(r, point) == pc[r] = point
Goto(r, point) == pc' = [pc EXCEPT ![r] = point]

\* Leave the handler: locals and lock guards are dropped.
End(r) ==
  /\ Goto(r, "done")
  /\ lock' = [u \in Uploads |-> IF lock[u] = r THEN NoOne ELSE lock[u]]
  /\ st' = [st EXCEPT ![r] = Blank]
  /\ plan' = [plan EXCEPT ![r] = NoPlan]
  /\ todo' = [todo EXCEPT ![r] = {}]
  /\ kind' = [kind EXCEPT ![r] = "read"]
  /\ target' = [target EXCEPT ![r] = Final]

Continue(r, point) == Goto(r, point) /\ UNCHANGED <<lock, local>>

ContinueWith(r, point, s) ==
  /\ Goto(r, point) /\ st' = [st EXCEPT ![r] = s]
  /\ UNCHANGED <<lock, kind, target, plan, todo>>

\* Go through all the parts, loading or locking one after the other.
Visit(r, point) == Goto(r, point) /\ todo' = [todo EXCEPT ![r] = Parts]

NextPart(r) == Min(todo[r])
Visited(r, p) == todo' = [todo EXCEPT ![r] = @ \ {p}]

Store(u, s) ==
  /\ hasState' = [hasState EXCEPT ![u] = TRUE]
  /\ state' = [state EXCEPT ![u] = s]
KeepBlobs  == UNCHANGED <<hasBlob, bytes>>
KeepStates == UNCHANGED <<hasState, state>>

\* A request arrives; one that names an unknown upload has ended already.
Begin(r) ==
  /\ At(r, "idle")
  /\ \/ /\ ~created /\ created' = TRUE
        /\ kind' = [kind EXCEPT ![r] = "create"]
        /\ Visit(r, "plan") /\ UNCHANGED target
     \/ \E k \in Kinds \ {"create"}, u \in Uploads :
          /\ hasState[u]
          /\ k = "read" => u = Final
          /\ k = "patch" => u # Final
          /\ kind' = [kind EXCEPT ![r] = k]
          /\ target' = [target EXCEPT ![r] = u]
          /\ Goto(r, "lock") /\ UNCHANGED <<todo, created>>
  /\ UNCHANGED <<stores, lock, late, st, plan, gated, finished, doomed>>

\* The lock of the target; who finds it taken waits, or gives up in the end.
Lock(r) ==
  /\ At(r, "lock")
  /\ \/ /\ lock[target[r]] = NoOne
        /\ lock' = [lock EXCEPT ![target[r]] = r]
        /\ Goto(r, "load") /\ UNCHANGED local
     \/ lock[target[r]] # NoOne /\ End(r)
  /\ UNCHANGED <<stores, late, hist>>

-----------------------------------------------------------------------------
(* Loading the plan and locking the parts.                                 *)

\* A part that is missing, expired or, for a creation without the extension,
\* unfinished ends the request.
Usable(r, p) ==
  /\ hasState[p] /\ ~IsExpired(p)
  /\ kind[r] = "create" /\ ~AllowUnfinished => Complete(state[p])

\* The plan is loaded: lock the parts of a complete one, unless they are.
AfterPlan(r, pl) ==
  IF At(r, "plan") /\ AllComplete(pl)
  THEN Visit(r, "lockParts")
  ELSE /\ Goto(r, IF kind[r] = "create" THEN "apply" ELSE "inspect")
       /\ todo' = [todo EXCEPT ![r] = {}]

\* load_final_upload_plan and load_final_upload_status, part by part.
LoadPart(r) ==
  /\ At(r, "plan") \/ At(r, "replan")
  /\ LET p  == NextPart(r)
         pl == [plan[r] EXCEPT ![p] = state[p]]
     IN IF ~Usable(r, p)
        THEN End(r)
        ELSE /\ plan' = [plan EXCEPT ![r] = pl]
             /\ IF todo[r] = {p} THEN AfterPlan(r, pl) ELSE Visited(r, p) /\ UNCHANGED pc
             /\ UNCHANGED <<lock, kind, target, st>>
  /\ UNCHANGED <<stores, late, hist>>

\* Faulty: the parts are not locked.
LockPartNot(r) ==
  /\ At(r, "lockParts") /\ Visit(r, "replan")
  /\ UNCHANGED <<stores, lock, late, kind, target, st, plan, hist>>

\* lock_parts: in the order of their IDs, each once and without waiting.
LockPart(r) ==
  /\ At(r, "lockParts")
  /\ LET p == NextPart(r)
     IN IF lock[p] # NoOne
        THEN End(r)
        ELSE /\ lock' = [lock EXCEPT ![p] = r]
             /\ IF todo[r] = {p} THEN Visit(r, "replan") ELSE Visited(r, p) /\ UNCHANGED pc
             /\ UNCHANGED <<kind, target, st, plan>>
  /\ UNCHANGED <<stores, late, hist>>

-----------------------------------------------------------------------------
(* Creating, reading and materializing the final upload.                   *)

\* Size limit, PreCreate and, for a complete plan, PreFinish; each may refuse.
Apply(r) ==
  /\ At(r, "apply")
  /\ \/ End(r) /\ UNCHANGED gated
     \/ /\ LengthKnown(plan[r]) => TotalLength(plan[r]) <= MaxSize
        /\ gated' = IF AllComplete(plan[r]) THEN gated + 1 ELSE gated
        /\ ContinueWith(r, "create", Planned(Blank, plan[r]))
  /\ UNCHANGED <<stores, late, created, finished, doomed>>

\* Storage::create of the final object.
StorageCreate(r) ==
  /\ At(r, "create")
  /\ hasBlob' = [hasBlob EXCEPT ![Final] = TRUE]
  /\ Continue(r, IF AllComplete(plan[r]) THEN "concat" ELSE "record")
  /\ KeepStates /\ UNCHANGED <<bytes, late, hist>>

\* rollback_final_upload_storage.
Rollback ==
  /\ hasBlob' = [hasBlob EXCEPT ![Final] = FALSE]
  /\ bytes' = [bytes EXCEPT ![Final] = << >>]

\* Storage::concat writes a temporary file and renames it over the object.  The
\* copies are one step with the rename: see PlanHolds.  It fails if the object
\* of a part is missing.
Concat(r) ==
  /\ At(r, "concat")
  /\ IF \A p \in Parts : hasBlob[p]
     THEN /\ hasBlob' = [hasBlob EXCEPT ![Final] = TRUE]
          /\ bytes' = [bytes EXCEPT ![Final] = FlattenSeq([i \in DOMAIN Order |-> bytes[Order[i]]])]
          /\ Continue(r, IF kind[r] = "create" THEN "record" ELSE "complete")
     ELSE End(r) /\ IF kind[r] = "create" THEN Rollback ELSE KeepBlobs
  /\ KeepStates /\ UNCHANGED <<late, hist>>

\* set(CreateNew), or the rollback of the object when it fails.
RecordNew(r) ==
  /\ At(r, "record")
  /\ \/ /\ Store(Final, st[r]) /\ KeepBlobs
        /\ IF AllComplete(plan[r]) THEN Continue(r, "notify") ELSE End(r)
     \/ End(r) /\ Rollback /\ KeepStates
  /\ UNCHANGED <<late, hist>>

\* A read loads the record under the lock.
LoadRead(r) ==
  /\ At(r, "load") /\ kind[r] = "read"
  /\ IF hasState[Final] THEN ContinueWith(r, "recover", state[Final]) ELSE End(r)
  /\ UNCHANGED <<stores, late, hist>>

\* Faulty: the plan is consulted whatever is stored.
RecoverNever(r) ==
  /\ At(r, "recover")
  /\ IF IsExpired(Final)
     THEN End(r)
     ELSE Visit(r, "plan") /\ UNCHANGED <<lock, kind, target, st, plan>>
  /\ UNCHANGED <<stores, late, hist>>

\* recover_materialized_final_upload: the object is there in full, only the
\* record may not say so.  Otherwise the plan is needed.
Recover(r) ==
  LET s == [st[r] EXCEPT !.offset = st[r].length]
  IN /\ At(r, "recover")
     /\ IF st[r].length # Deferred /\ Size(Final) = st[r].length
        THEN Store(Final, s) /\ End(r)
        ELSE /\ KeepStates
             /\ IF IsExpired(Final)
                THEN End(r)
                ELSE Visit(r, "plan") /\ UNCHANGED <<lock, kind, target, st, plan>>
     /\ KeepBlobs /\ UNCHANGED <<late, hist>>

\* Faulty: only a missing object is materialized.
NeedsMaterializationIfMissing(pl) == AllComplete(pl) /\ ~hasBlob[Final]

\* PlannedFinalUploadRefresh::needs_materialization.
NeedsMaterialization(pl) == AllComplete(pl) /\ Size(Final) # TotalLength(pl)

\* Faulty: an incomplete record is not taken through the finish gate.
WillCompleteAgain(s, pl) == AllComplete(pl) /\ Complete(s)

\* PlannedFinalUploadRefresh::will_complete.
WillComplete(s, pl) ==
  AllComplete(pl) /\ (~Complete(s) \/ NeedsMaterialization(pl))

\* repair_final_upload after the plan: PreFinish if the upload is to complete.
Inspect(r) ==
  LET s == WithLength(st[r], plan[r])
      after == IF WillComplete(s, plan[r]) THEN "complete" ELSE "refresh"
  IN /\ At(r, "inspect")
     /\ \/ /\ ContinueWith(r, IF NeedsMaterialization(plan[r]) THEN "concat" ELSE after, s)
           /\ gated' = IF WillComplete(s, plan[r]) THEN gated + 1 ELSE gated
        \/ WillComplete(s, plan[r]) /\ End(r) /\ UNCHANGED gated
     /\ UNCHANGED <<stores, late, created, finished, doomed>>

\* refresh_offset and set(Update) if anything changed.
Update(r) ==
  /\ At(r, "refresh") \/ At(r, "complete")
  /\ Store(Final, Planned(st[r], plan[r]))
  /\ IF At(r, "complete") THEN Continue(r, "notify") ELSE End(r)
  /\ KeepBlobs /\ UNCHANGED <<late, hist>>

\* UploadCompletion::after_commit runs PostFinish.
Notify(r) ==
  /\ At(r, "notify")
  /\ finished' = finished + 1
  /\ End(r)
  /\ UNCHANGED <<stores, late, created, gated, doomed>>

-----------------------------------------------------------------------------
(* The partial uploads, and removal.                                       *)

\* PATCH of a part: the recorded offset is reconciled with the stored bytes.
LoadPatch(r) ==
  LET p == target[r]
      s == [state[p] EXCEPT !.offset = Size(p)]
  IN /\ At(r, "load") /\ kind[r] = "patch"
     /\ IF ~hasState[p] \/ IsExpired(p)
        THEN End(r) /\ KeepStates
        ELSE /\ Store(p, s)
             /\ IF Complete(s) THEN End(r) ELSE ContinueWith(r, "append", s)
     /\ KeepBlobs /\ UNCHANGED <<late, hist>>

\* The byte is stored, unless it is there already ...
AppendByte(r) ==
  LET p == target[r]
  IN /\ At(r, "append")
     /\ IF hasBlob[p]
        THEN bytes' = [bytes EXCEPT ![p] = <<p>>] /\ Continue(r, "commit")
        ELSE End(r) /\ UNCHANGED bytes
     /\ KeepStates /\ UNCHANGED <<hasBlob, late, hist>>

\* ... and recorded; a deferred length is declared with it.
Commit(r) ==
  /\ At(r, "commit")
  /\ Store(target[r], [offset |-> 1, length |-> 1])
  /\ End(r)
  /\ KeepBlobs /\ UNCHANGED <<late, hist>>

\* DELETE of any upload that has not expired; PreTerminate may refuse.
LoadDelete(r) ==
  /\ At(r, "load") /\ kind[r] = "delete"
  /\ \/ hasState[target[r]] /\ ~IsExpired(target[r]) /\ Continue(r, "delBlob")
     \/ End(r)
  /\ UNCHANGED <<stores, late, hist>>

\* Faulty: the stored bytes are not consulted.
AssessByRecord(r) ==
  LET u == target[r]
  IN /\ At(r, "load") /\ kind[r] = "sweep"
     /\ IF hasState[u] /\ IsExpired(u) THEN Continue(r, "delBlob") ELSE End(r)
     /\ UNCHANGED <<stores, late, hist>>

\* prepare_upload_reclamation_access: a final upload whose bytes are all there
\* is complete, whatever its record says.
Assess(r) ==
  LET u == target[r]
  IN /\ At(r, "load") /\ kind[r] = "sweep"
     /\ IF hasState[u] /\ IsExpired(u) /\ (u = Final => Size(u) # state[u].length)
        THEN Continue(r, "delBlob")
        ELSE End(r)
     /\ UNCHANGED <<stores, late, hist>>

\* The object goes first, then the record.
DeleteBlob(r) ==
  LET u == target[r]
  IN /\ At(r, "delBlob")
     /\ hasBlob' = [hasBlob EXCEPT ![u] = FALSE]
     /\ bytes' = [bytes EXCEPT ![u] = << >>]
     /\ doomed' = doomed \cup {u}
     /\ Continue(r, "delState")
     /\ KeepStates /\ UNCHANGED <<late, created, gated, finished>>

DeleteState(r) ==
  /\ At(r, "delState")
  /\ hasState' = [hasState EXCEPT ![target[r]] = FALSE]
  /\ End(r)
  /\ KeepBlobs /\ UNCHANGED <<state, late, hist>>

\* A store call fails, the handler is dropped or the process dies.
Cancel(r) ==
  /\ pc[r] \notin {"idle", "done"}
  /\ End(r)
  /\ UNCHANGED <<stores, late, hist>>

\* The deadline passes.
Tick == ~late /\ late' = TRUE /\ UNCHANGED <<stores, lock, pc, local, hist>>

-----------------------------------------------------------------------------
\* Partial uploads in whatever state their clients have left them, and no final
\* upload yet.
Init ==
  /\ hasState = [u \in Uploads |-> u # Final]
  /\ hasBlob = [u \in Uploads |-> u # Final]
  /\ \E full \in SUBSET Parts,
        length \in [Parts -> IF DeferredParts THEN {1, Deferred} ELSE {1}] :
       /\ \A p \in full : length[p] = 1
       /\ state = [u \in Uploads |->
                     IF u = Final THEN Blank
                     ELSE [offset |-> IF u \in full THEN 1 ELSE 0, length |-> length[u]]]
       /\ bytes = [u \in Uploads |-> IF u \in full THEN <<u>> ELSE << >>]
  /\ lock = [u \in Uploads |-> NoOne]
  /\ late = FALSE
  /\ pc = [r \in Requests |-> "idle"] /\ kind = [r \in Requests |-> "read"]
  /\ target = [r \in Requests |-> Final]
  /\ st = [r \in Requests |-> Blank] /\ plan = [r \in Requests |-> NoPlan]
  /\ todo = [r \in Requests |-> {}]
  /\ created = FALSE /\ gated = 0 /\ finished = 0 /\ doomed = {}

Handle(r) ==
  \/ Lock(r) \/ LoadPart(r) \/ LockPart(r)
  \/ Apply(r) \/ StorageCreate(r) \/ Concat(r) \/ RecordNew(r)
  \/ LoadRead(r) \/ Recover(r) \/ Inspect(r) \/ Update(r) \/ Notify(r)
  \/ LoadPatch(r) \/ AppendByte(r) \/ Commit(r)
  \/ LoadDelete(r) \/ Assess(r) \/ DeleteBlob(r) \/ DeleteState(r)

Next == Tick \/ \E r \in Requests : Begin(r) \/ Handle(r) \/ Cancel(r)

Spec == Init /\ [][Next]_vars

-----------------------------------------------------------------------------
(* Properties.                                                             *)

FinalComplete == hasState[Final] /\ Complete(state[Final]) /\ Final \notin doomed

\* A final upload whose record is complete has all the parts' bytes in the order
\* of Upload-Concat, by whichever of creation, repair or recovery it completed.
FinalIsWhole == FinalComplete => bytes[Final] = Order

\* While the parts are concatenated their locks are held and their records are
\* those of the plan that was validated: no PATCH, DELETE or reclamation comes
\* between the check and the copy (lock_parts and the second load).
PlanHolds ==
  \A r \in Requests : At(r, "concat") =>
    \A p \in Parts : lock[p] = r /\ hasState[p] /\ state[p] = plan[r][p]

\* A complete final upload is never made incomplete again by a read that
\* refreshes it from an older plan or from parts that are half deleted since,
\* and its length never changes.
CompleteStays ==
  [][FinalComplete /\ hasState'[Final] /\ Final \notin doomed'
       => state'[Final] = state[Final]]_vars

\* The finish hooks: no final upload completes that PreFinish has not accepted,
\* also when recovery, which does not ask it, completes the record; and PostFinish
\* runs at most once, whoever completes it.
FinishHooksInOrder ==
  /\ FinalComplete => gated > 0
  /\ Final \notin doomed => finished <= 1

\* The sweeper deletes no final upload whose object is complete, although its
\* record may lag behind and have expired (stored_bytes_complete_upload); only
\* while the record does not know the length nobody can tell.
SweepSparesMaterialized ==
  \A r \in Requests : At(r, "delBlob") /\ kind[r] = "sweep" /\ target[r] = Final
    => bytes[Final] # Order \/ state[Final].length = Deferred

\* enforce_final_upload_size: a final upload with deferred parts is bounded
\* later, so a materialized one never exceeds max_size.
FinalWithinMaxSize == FinalComplete => Size(Final) <= MaxSize
=============================================================================
