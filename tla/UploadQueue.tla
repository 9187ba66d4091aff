---------------------------- MODULE UploadQueue ----------------------------
(***************************************************************************)
(* The browser client's upload queue, crates/dioxus-tus/src: two workers   *)
(* (hook.rs), each with a command channel and a status anyone may read; a  *)
(* scheduler that looks at the statuses every 50 ms and hands out queued   *)
(* files (queue.rs); and the entries in localStorage from which a later    *)
(* session resumes (persistence.rs).                                       *)
(*                                                                         *)
(* Everything runs on one thread: an action is what happens between two    *)
(* awaits.  poll is the worker that is being polled and has not come to an *)
(* await that waits, 0 if there is none.  The items are a function of      *)
(* their ids: add appends them with increasing ids, so the order of the    *)
(* Vec is that of the ids.                                                 *)
(*                                                                         *)
(* The server is external: a resource is its offset, in chunks.  A         *)
(* definition marked "Faulty" is the one below it with a plausible bug;    *)
(* nothing uses it.                                                        *)
(***************************************************************************)
EXTENDS Integers, Sequences, FiniteSets

CONSTANTS
  Files,         \* what match_key tells apart
  Size,          \* chunks of a file
  WorkerCount,   \* WORKER_COUNT
  MaxRetries,    \* TusConfig::max_retries
  MaxItems,      \* bound: items ever added
  MaxOps,        \* bound: other calls of the user
  PromptWorkers  \* a worker waiting for a command sees it before the next tick

ASSUME ConstantsAssumption ==
  /\ {Size, MaxItems, WorkerCount} \subseteq Nat \ {0}
  /\ {MaxRetries, MaxOps} \subseteq Nat
  /\ PromptWorkers \in BOOLEAN

VARIABLES
  items, slots,  \* TusQueueState::items, slot_assignments
  chan, st,      \* each worker's commands and TusUploadState::status
  eng, poll,     \* each worker's run_upload, and which one is being polled
  disk,          \* localStorage: the resource stored for a file
  offs,          \* the offset of every resource on the server
  fate,          \* how the last run on a resource ended
  failed,        \* the resource of a worker's failed run until a tick sees it
  done, asked,   \* the items whose file is on the server; those given up
  nextId, ops    \* next_id; calls of the user so far

vars == <<items, slots, chan, st, eng, poll, disk, offs, fate, failed, done, asked, nextId, ops>>
queue == <<items, slots, nextId>>
user  == <<asked, ops>>

Workers == 1 .. WorkerCount
None    == 0
Ended   == {"Idle", "Complete", "Error"}
Terminal == {"Complete", "Aborted", "Error"}
Raced   == {"pre", "recover", "backoff", "headBackoff", "paused"}
NoRun   == [pc |-> "idle"]
Plain(kind) == [kind |-> kind]
Run(cmd) == [pc |-> "pre", item |-> cmd.item, file |-> cmd.file, url |-> cmd.url,
             res |-> None, offset |-> 0, paused |-> FALSE, attempt |-> 0]

Ids == 1 .. MaxItems
Resources == 0 .. Len(offs)

Item == [file : Files, url : Resources,
         status : Terminal \cup {"Queued", "Uploading", "Paused"}]
StartCommand == [kind : {"Start"}, item : Ids, file : Files, url : Resources]
Command == [kind : {"Pause", "Resume", "Abort"}] \cup StartCommand
Engine == [pc : Raced \cup {"loop", "patch"}, item : Ids, file : Files,
           url : Resources, res : Resources, offset : 0 .. Size,
           paused : BOOLEAN, attempt : 0 .. MaxRetries + 1]

\* The types of the items, the slots, the engines and their requests.
TypeOK ==
  /\ DOMAIN items \subseteq Ids /\ items \in [DOMAIN items -> Item]
  /\ slots \in [Workers -> Ids \cup {None}]
  /\ chan \in [Workers -> Seq(Command)]
  /\ st \in [Workers -> Ended \cup {"Uploading", "Paused"}]
  /\ eng \in [Workers -> Engine \cup {NoRun}]
  /\ poll \in Workers \cup {0}
  /\ disk \in [Files -> Resources]
  /\ offs \in Seq(0 .. Size)
  /\ fate \in [DOMAIN offs -> {"open", "error", "dropped", "aborted", "done"}]
  /\ failed \in [Workers -> Resources]
  /\ done \subseteq Ids /\ asked \subseteq Ids
  /\ nextId \in 1 .. MaxItems + 1 /\ ops \in 0 .. MaxOps

Init ==
  /\ items = <<>> /\ slots = [w \in Workers |-> None]
  /\ chan = [w \in Workers |-> <<>>] /\ st = [w \in Workers |-> "Idle"]
  /\ eng = [w \in Workers |-> NoRun] /\ poll = 0
  /\ disk = [f \in Files |-> None] /\ offs = <<>> /\ fate = <<>>
  /\ failed = [w \in Workers |-> None]
  /\ done = {} /\ asked = {} /\ nextId = 1 /\ ops = 0

-----------------------------------------------------------------------------
(* A worker: run_command_loop and run_upload.                               *)

\* An await that finds a command in the channel does not wait.
After(w) == IF Len(chan[w]) > 1 THEN w ELSE 0
\* Commands that wait are taken first, in one poll with what made it run.
MayPoll(w) == poll \in {0, w}
Pop(w) == chan' = [chan EXCEPT ![w] = Tail(@)]

SetFate(r, how) == fate' = IF r = None THEN fate ELSE [fate EXCEPT ![r] = how]
Forget(f) == disk' = [disk EXCEPT ![f] = None]

\* persist_entry.  A chunk is 5% of the file or more, so no write is held
\* back; a write that fails (a full localStorage) is left out.
Persist(f, r) == disk' = [disk EXCEPT ![f] = r]

\* run_command_loop without an upload.  An Abort that was sent while the run was
\* still going arrives here if the run has failed: the user gave the upload up, and
\* nothing removes its entry.
TakeCommand(w) ==
  /\ MayPoll(w) /\ eng[w] = NoRun /\ chan[w] # <<>>
  /\ LET cmd == Head(chan[w])
     IN  /\ st' = [st EXCEPT ![w] =
                     IF cmd.kind = "Abort" THEN "Idle"
                     ELSE IF cmd.kind = "Pause" /\ @ = "Uploading" THEN "Paused"
                     ELSE IF cmd.kind = "Resume" /\ @ = "Paused" THEN "Uploading" ELSE @]
         /\ eng' = [eng EXCEPT ![w] = IF cmd.kind = "Start" THEN Run(cmd) ELSE NoRun]
         /\ SetFate(IF cmd.kind = "Abort" THEN failed[w] ELSE None, "dropped")
         /\ failed' = [failed EXCEPT ![w] = IF cmd.kind = "Abort" THEN None ELSE @]
  /\ Pop(w) /\ poll' = After(w)
  /\ UNCHANGED <<queue, user, disk, offs, done>>

\* The resource of a run: the one it works on, or the one it was to resume.
Target(e) == IF e.res # None THEN e.res ELSE e.url

\* run_upload returns and the command loop goes on.
Return(w, status) ==
  /\ st' = [st EXCEPT ![w] = status]
  /\ eng' = [eng EXCEPT ![w] = NoRun]
  /\ poll' = IF chan[w] # <<>> THEN w ELSE 0
  /\ failed' = [failed EXCEPT ![w] = IF status = "Error" THEN Target(eng[w]) ELSE @]
  /\ UNCHANGED chan

Fail(w) == Return(w, "Error") /\ SetFate(eng[w].res, "error")

\* The first request: create the upload, or ask for the offset of existing_url.
EnterLoop(w, r, offset) ==
  /\ eng' = [eng EXCEPT ![w].pc = "loop", ![w].res = r, ![w].offset = offset]
  /\ st' = [st EXCEPT ![w] = IF eng[w].paused THEN "Paused" ELSE "Uploading"]
  /\ Persist(eng[w].file, r)
  /\ UNCHANGED failed

Create(w) ==
  /\ poll = 0 /\ eng[w].pc = "pre" /\ eng[w].url = None
  /\ \/ /\ \E k \in 0 .. Size :
             /\ offs' = Append(offs, k) /\ fate' = Append(fate, "open")
             /\ EnterLoop(w, Len(offs) + 1, k)
        /\ poll' = w /\ UNCHANGED chan
     \/ Fail(w) /\ UNCHANGED <<disk, offs>>
  /\ UNCHANGED <<queue, user, done>>

\* An entry the server no longer knows is dropped; the item fails.
Probe(w) ==
  /\ poll = 0 /\ eng[w].pc = "pre" /\ eng[w].url # None
  /\ \/ /\ EnterLoop(w, eng[w].url, offs[eng[w].url]) /\ SetFate(eng[w].url, "open")
        /\ poll' = w /\ UNCHANGED chan
     \/ Fail(w) /\ (UNCHANGED disk \/ Forget(eng[w].file))
  /\ UNCHANGED <<queue, user, offs, done>>

\* Abort, or another Start, ends the run; before the chunk loop the entry is
\* removed only if this run came from it.
FaultyStopped(w) ==
  LET e == eng[w]
  IN  /\ IF e.pc = "pre" THEN UNCHANGED disk ELSE Forget(e.file)
      /\ SetFate(Target(e), "aborted")
      /\ st' = [st EXCEPT ![w] = "Idle"]
Stopped(w) ==
  LET e == eng[w]
  IN  /\ IF e.pc = "pre" /\ e.url = None THEN UNCHANGED disk ELSE Forget(e.file)
      /\ SetFate(Target(e), "aborted")
      /\ st' = [st EXCEPT ![w] = "Idle"]

\* Where Pause and Resume lead: before the chunk loop they only set the flag.
Onward(pc, kind) ==
  IF pc = "pre" THEN "pre"
  ELSE IF pc = "loop" THEN IF kind = "Pause" THEN "paused" ELSE "patch"
  ELSE IF kind = "Pause" \/ pc = "paused" THEN "loop"
  ELSE IF pc = "backoff" THEN "patch"
  ELSE "recover"

\* A command at an await that races the channel, or at the top of the loop.
FaultyReact(w) ==
  LET cmd == Head(chan[w])
      to  == Onward(eng[w].pc, cmd.kind)
  IN  /\ Pop(w)
      /\ \/ /\ cmd.kind \in {"Abort", "Start"} /\ eng[w].pc # "paused"
            /\ Stopped(w)
            /\ eng' = [eng EXCEPT ![w] = IF cmd.kind = "Start" THEN Run(cmd) ELSE NoRun]
            /\ poll' = After(w)
         \/ /\ cmd.kind \in {"Pause", "Resume"} \/ eng[w].pc = "paused"
            /\ eng' = [eng EXCEPT ![w].pc = to, ![w].paused = cmd.kind # "Resume",
                              ![w].attempt = IF eng[w].pc = "loop" THEN 0 ELSE @]
            /\ st' = IF eng[w].pc = "pre" THEN st
                     ELSE [st EXCEPT ![w] = IF cmd.kind # "Resume" THEN "Paused" ELSE "Uploading"]
            /\ poll' = IF to = "loop" THEN w ELSE IF to = "patch" THEN 0 ELSE After(w)
            /\ UNCHANGED <<disk, fate>>
      /\ UNCHANGED failed
React(w) ==
  LET cmd == Head(chan[w])
      to  == Onward(eng[w].pc, cmd.kind)
  IN  /\ Pop(w)
      /\ \/ /\ cmd.kind \in {"Abort", "Start"}
            /\ Stopped(w)
            /\ eng' = [eng EXCEPT ![w] = IF cmd.kind = "Start" THEN Run(cmd) ELSE NoRun]
            /\ poll' = After(w)
         \/ /\ cmd.kind \in {"Pause", "Resume"}
            /\ eng' = [eng EXCEPT ![w].pc = to, ![w].paused = cmd.kind = "Pause",
                              ![w].attempt = IF eng[w].pc = "loop" THEN 0 ELSE @]
            /\ st' = IF eng[w].pc = "pre" THEN st
                     ELSE [st EXCEPT ![w] = IF cmd.kind = "Pause" THEN "Paused" ELSE "Uploading"]
            /\ poll' = IF to = "loop" THEN w ELSE IF to = "patch" THEN 0 ELSE After(w)
            /\ UNCHANGED <<disk, fate>>
      /\ UNCHANGED failed

Interrupt(w) ==
  /\ MayPoll(w) /\ eng[w].pc \in Raced /\ chan[w] # <<>>
  /\ React(w)
  /\ UNCHANGED <<queue, user, offs, done>>

\* The top of the chunk loop: done, or one command, then the next chunk.
LoopTop(w) ==
  /\ poll = w /\ eng[w].pc = "loop"
  /\ \/ /\ eng[w].offset = Size
        /\ Return(w, "Complete") /\ Forget(eng[w].file) /\ SetFate(eng[w].res, "done")
        /\ done' = IF offs[eng[w].res] = Size THEN done \cup {eng[w].item} ELSE done
     \/ /\ eng[w].offset < Size /\ chan[w] # <<>>
        /\ React(w) /\ UNCHANGED done
     \/ /\ eng[w].offset < Size /\ chan[w] = <<>>
        /\ eng' = [eng EXCEPT ![w].pc = IF eng[w].paused THEN "paused" ELSE "patch",
                              ![w].attempt = 0]
        /\ poll' = 0 /\ UNCHANGED <<chan, st, disk, fate, failed, done>>
  /\ UNCHANGED <<queue, user, offs>>

\* The server is further: take its offset, and perhaps save it.
FaultyAdvanced(w, offset) ==
  /\ eng' = [eng EXCEPT ![w].pc = "loop", ![w].offset = offset + 1]
  /\ Persist(eng[w].file, eng[w].res)
  /\ poll' = w /\ SetFate(eng[w].res, "open")
  /\ UNCHANGED <<st, chan, failed>>
Advanced(w, offset) ==
  /\ eng' = [eng EXCEPT ![w].pc = "loop", ![w].offset = offset]
  /\ Persist(eng[w].file, eng[w].res)
  /\ poll' = w /\ SetFate(eng[w].res, "open")
  /\ UNCHANGED <<st, chan, failed>>

Wait(w, pc, attempt) ==
  /\ eng' = [eng EXCEPT ![w].pc = pc, ![w].attempt = attempt]
  /\ poll' = IF pc # "patch" /\ chan[w] # <<>> THEN w ELSE 0
  /\ UNCHANGED <<st, chan, fate, failed, disk>>

\* The server stores a chunk at its own offset only.
Stores(e) ==
  /\ offs[e.res] = e.offset
  /\ offs' = [offs EXCEPT ![e.res] = @ + 1]

\* A PATCH is not raced with commands.  A transient failure asks for the
\* offset first, as the server may have the chunk.
Patch(w) ==
  /\ poll = 0 /\ eng[w].pc = "patch"
  /\ \/ Stores(eng[w]) /\ Advanced(w, eng[w].offset + 1)
     \/ /\ Stores(eng[w]) \/ UNCHANGED offs
        /\ \/ eng[w].attempt < MaxRetries /\ Wait(w, "recover", eng[w].attempt)
           \/ Fail(w) /\ UNCHANGED disk
  /\ UNCHANGED <<queue, user, done>>

\* The HEAD after a failed PATCH.
Recover(w) ==
  /\ poll = 0 /\ eng[w].pc = "recover"
  /\ LET e == eng[w]
     IN  \/ offs[e.res] > e.offset /\ Advanced(w, offs[e.res])
         \/ offs[e.res] = e.offset /\ Wait(w, "backoff", e.attempt + 1)
         \/ e.attempt < MaxRetries /\ Wait(w, "headBackoff", e.attempt + 1)
         \/ Fail(w) /\ UNCHANGED disk
  /\ UNCHANGED <<queue, user, offs, done>>

BackoffEnds(w) ==
  /\ poll = 0 /\ eng[w].pc \in {"backoff", "headBackoff"}
  /\ Wait(w, IF eng[w].pc = "backoff" THEN "patch" ELSE "recover", eng[w].attempt)
  /\ UNCHANGED <<queue, user, offs, done>>

Work(w) ==
  \/ TakeCommand(w) \/ Create(w) \/ Probe(w) \/ Interrupt(w) \/ LoopTop(w)
  \/ Patch(w) \/ Recover(w) \/ BackoffEnds(w)

-----------------------------------------------------------------------------
(* The scheduler: reconcile_tick and the calls of start().                  *)

Vanished(id) == id \notin DOMAIN items

FaultyFreed(w) == slots[w] # None /\ (st[w] \in Ended \/ Vanished(slots[w]))
FaultyFreedButErrors(w) == slots[w] # None /\ st[w] \in Ended \ {"Error"}
Freed(w) == slots[w] # None /\ st[w] \in Ended

\* What an item becomes when its worker is seen with this status.
Mirror(status, worker) ==
  IF worker # "Idle" THEN worker
  ELSE IF status \in Terminal THEN status ELSE "Aborted"

Mirrored ==
  [i \in DOMAIN items |->
     IF \E w \in Workers : slots[w] = i
       THEN [items[i] EXCEPT !.status =
               Mirror(@, st[CHOOSE w \in Workers : slots[w] = i])]
       ELSE items[i]]

\* The free slots take the waiting items, both in order.
Free    == {w \in Workers : slots[w] = None \/ Freed(w)}
Waiting == {i \in DOMAIN items : Mirrored[i].status = "Queued"}
Rank(S, n) == Cardinality({m \in S : m <= n})
Starts(w, i) == w \in Free /\ i \in Waiting /\ Rank(Free, w) = Rank(Waiting, i)

\* The item the slot is given, if any.
NextFor(w) ==
  IF \E i \in DOMAIN items : Starts(w, i)
  THEN CHOOSE i \in DOMAIN items : Starts(w, i) ELSE None

\* start() stamps the status before the worker has seen the command.
FaultyStamp(status) == status
Stamp(status) == "Uploading"

Start(i) == [kind |-> "Start", item |-> i, file |-> items[i].file, url |-> items[i].url]

Tick ==
  /\ poll = 0
  /\ PromptWorkers => \A w \in Workers : eng[w] = NoRun => chan[w] = <<>>
  /\ slots' = [w \in Workers |->
                 IF NextFor(w) # None THEN NextFor(w)
                 ELSE IF Freed(w) THEN None ELSE slots[w]]
  /\ items' = [i \in DOMAIN items |->
                 IF \E w \in Workers : NextFor(w) = i
                   THEN [items[i] EXCEPT !.status = "Uploading"] ELSE Mirrored[i]]
  /\ st' = [w \in Workers |-> IF NextFor(w) # None THEN Stamp(st[w]) ELSE st[w]]
  /\ chan' = [w \in Workers |->
                IF NextFor(w) # None THEN Append(chan[w], Start(NextFor(w))) ELSE chan[w]]
  /\ failed' = [w \in Workers |-> None]
  /\ UNCHANGED <<eng, poll, disk, offs, fate, done, asked, nextId, ops>>

-----------------------------------------------------------------------------
(* The calls of TusQueueHandle.                                             *)

Called ==
  /\ poll = 0 /\ ops < MaxOps
  /\ ops' = ops + 1

Active(f) == \E i \in DOMAIN items : items[i].file = f /\ items[i].status \notin Terminal

KeepItems(S) == items' = [i \in S |-> items[i]]

\* add: resumes the stored upload of the file (unless the entry is too old),
\* but not while another item holds the file.  resume_entry ends here too.
Add(f) ==
  /\ poll = 0 /\ nextId <= MaxItems
  /\ \E url \in {None} \cup (IF Active(f) THEN {} ELSE {disk[f]}) :
       items' = [i \in DOMAIN items \cup {nextId} |->
                   IF i = nextId THEN [file |-> f, url |-> url, status |-> "Queued"]
                   ELSE items[i]]
  /\ nextId' = nextId + 1
  /\ UNCHANGED <<slots, chan, st, eng, poll, disk, offs, fate, failed, done, asked, ops>>

\* pause_item and resume_item; pause_all and resume_all.
Tell(S, kind) ==
  /\ Called
  /\ chan' = [w \in Workers |-> IF w \in S THEN Append(chan[w], Plain(kind)) ELSE chan[w]]
  /\ UNCHANGED <<queue, st, eng, poll, disk, offs, fate, failed, done, asked>>

PauseOrResume ==
  \E kind \in {"Pause", "Resume"} :
    \/ Tell(Workers, kind)
    \/ \E w \in Workers : slots[w] # None /\ Tell({w}, kind)

Queued == {i \in DOMAIN items : items[i].status = "Queued"}

\* abort_item and abort_all: a worker is told, a queued item is dropped here.
Abort(S, ids) ==
  /\ Called
  /\ chan' = [w \in Workers |-> IF w \in S THEN Append(chan[w], Plain("Abort")) ELSE chan[w]]
  /\ items' = [i \in DOMAIN items |->
                 IF i \in ids THEN [items[i] EXCEPT !.status = "Aborted"] ELSE items[i]]
  /\ disk' = [f \in Files |-> IF \E i \in ids : items[i].file = f THEN None ELSE disk[f]]
  /\ asked' = (asked \cup ids \cup {slots[w] : w \in S}) \ {None}
  /\ UNCHANGED <<slots, nextId, st, eng, poll, offs, fate, failed, done>>

AbortItem ==
  \/ \E w \in Workers : slots[w] # None /\ Abort({w}, {})
  \/ \E i \in Queued : Abort({}, {i})
AbortAll == Abort(Workers, Queued)

\* remove_item: the worker is told, the item and its entry go at once.
RemoveItem(i) ==
  /\ Called
  /\ chan' = [w \in Workers |->
                IF slots[w] = i THEN Append(chan[w], Plain("Abort")) ELSE chan[w]]
  /\ Forget(items[i].file)
  /\ KeepItems(DOMAIN items \ {i})
  /\ asked' = asked \cup {i}
  /\ UNCHANGED <<slots, nextId, st, eng, poll, offs, fate, failed, done>>

\* clear_complete and clear_finished, which also drops the entries.
Clear(statuses) ==
  LET Dropped == {i \in DOMAIN items : items[i].status \in statuses}
  IN  /\ Called /\ Dropped # {}
      /\ KeepItems(DOMAIN items \ Dropped)
      /\ disk' = [f \in Files |->
                    IF statuses = Terminal /\ \E i \in Dropped : items[i].file = f
                      THEN None ELSE disk[f]]
      /\ UNCHANGED <<slots, nextId, chan, st, eng, poll, offs, fate, failed, done, asked>>

\* retry_item: from scratch, and only what no worker holds.
RetryItem(i) ==
  /\ Called
  /\ items[i].status \in Terminal /\ \A w \in Workers : slots[w] # i
  /\ items' = [items EXCEPT ![i].status = "Queued", ![i].url = None]
  /\ asked' = asked \ {i} /\ done' = done \ {i}
  /\ UNCHANGED <<slots, nextId, chan, st, eng, poll, disk, offs, fate, failed>>

\* The tab is closed and opened again: only localStorage and the server stay.
Reload ==
  /\ Called
  /\ items' = <<>> /\ slots' = [w \in Workers |-> None]
  /\ chan' = [w \in Workers |-> <<>>] /\ st' = [w \in Workers |-> "Idle"]
  /\ eng' = [w \in Workers |-> NoRun] /\ failed' = [w \in Workers |-> None]
  /\ UNCHANGED <<poll, disk, offs, fate, done, asked, nextId>>

User ==
  \/ \E f \in Files : Add(f)
  \/ PauseOrResume \/ AbortItem \/ AbortAll \/ Reload
  \/ \E i \in DOMAIN items : RemoveItem(i) \/ RetryItem(i)
  \/ Clear({"Complete"}) \/ Clear(Terminal)

-----------------------------------------------------------------------------
Next == User \/ Tick \/ \E w \in Workers : Work(w)

\* The timer fires and a woken task is polled.  No request need ever be answered:
\* the transports set no timeout.
Fairness ==
  /\ WF_vars(Tick)
  /\ \A w \in Workers : WF_vars(TakeCommand(w) \/ Interrupt(w) \/ LoopTop(w) \/ BackoffEnds(w))

Spec == Init /\ [][Next]_vars /\ Fairness

-----------------------------------------------------------------------------
(* Properties.                                                              *)

\* An item's status is true.  One shown as Complete is whole on the server: the
\* scheduler never takes the status a worker kept from its previous file for the
\* new one (start(), reconcile_tick).  One shown as Aborted was given up by the
\* user: an Abort meant for one file never hits the file the worker was given
\* next (the "ghost-abort" of the comment in reconcile_tick).
StatusIsTrue ==
  \A i \in DOMAIN items :
    /\ items[i].status = "Complete" => i \in done
    /\ items[i].status = "Aborted" => i \in asked

\* A worker uploads the item of its slot and no other, so no item runs in two
\* workers and none runs unseen (slot_assignments against run_upload).
EngineServesSlot ==
  /\ \A w \in Workers : eng[w] # NoRun => eng[w].item = slots[w]
  /\ \A v, w \in Workers : slots[v] = slots[w] /\ slots[v] # None => v = w

\* What is stored for a file is worth resuming: never an upload that was completed
\* or whose run took the user's Abort (the removals in run_upload, add).  The entry
\* of an upload whose Abort came to a run that had just failed does stay: see
\* AbortForgetsEntry.
StoredIsResumable ==
  \A f \in Files : disk[f] # None => fate[disk[f]] \in {"open", "error", "dropped"}

\* "For slot-held items the engine's chunk-loop Abort handler clears any persisted
\* localStorage entry" (queue.rs:406): nothing is stored for an upload the user gave
\* up while a worker held it.  The code does not do this: it is
\* violated if Queue.cfg checks it.
AbortForgetsEntry ==
  \A f \in Files : disk[f] # None => fate[disk[f]] # "dropped"

\* When the user stops calling and no request stays without an answer, every item
\* ends, unless the user left it paused, or left it waiting while every worker is
\* paused.  No slot is lost, no file is left in the queue, no await swallows an
\* Abort (reconcile_tick, run_command_loop).
OnTheWire(w) == eng[w].pc \in {"pre", "patch", "recover"}
Held(w) == slots[w] # None /\ slots[w] \notin asked /\ st[w] = "Paused"

EveryItemSettles ==
  (\A w \in Workers : []<>~OnTheWire(w)) =>
  <>[](\A i \in DOMAIN items :
         \/ items[i].status \in Terminal
         \/ \E w \in Workers : slots[w] = i /\ Held(w)
         \/ items[i].status = "Queued" /\ \A w \in Workers : Held(w))
=============================================================================
