---------------------------- MODULE MemoryLocker ----------------------------
(***************************************************************************)
(* MemoryLocker (tus-protocol/src/locking/memory.rs) for one upload ID: a  *)
(* map entry that points to a single-permit semaphore, created on demand   *)
(* and removed when idle.  Steps end where the code leaves the map's mutex *)
(* or the semaphore, so that two generations of the semaphore might        *)
(* coexist.  The semaphore is tokio's: a FIFO queue whose head is handed   *)
(* the permit by the release itself.                                       *)
(*                                                                         *)
(* A definition marked "Faulty" is the one below it with a plausible bug;  *)
(* nothing uses it.  Each shows that some property notices the bug.        *)
(***************************************************************************)
EXTENDS Integers, Sequences

CONSTANTS
  Tasks,        \* the tasks that lock the upload
  Semaphores,   \* the identities a heap-allocated Semaphore can have
  None,         \* no semaphore, or no task
  Cancellation  \* whether a waiting task may be dropped

ASSUME ConstantsAssumption ==
  /\ None \notin Tasks
  /\ None \notin Semaphores
  /\ Cancellation \in BOOLEAN

VARIABLES
  entry,   \* the semaphore the map holds for the ID
  permit,  \* which task has each semaphore's permit
  queue,   \* the tasks queued at each semaphore
  pc,      \* where each task is
  ref      \* the semaphore a task has an Arc of

vars == <<entry, permit, queue, pc, ref>>

Points == {"idle", "lock", "try", "waiting", "held", "dropping", "reap"}

\* A task has an Arc exactly while it is on its way.
TypeOK ==
  /\ entry \in Semaphores \cup {None}
  /\ permit \in [Semaphores -> Tasks \cup {None}]
  /\ queue \in [Semaphores -> Seq(Tasks)]
  /\ pc \in [Tasks -> Points]
  /\ ref \in [Tasks -> Semaphores \cup {None}]
  /\ \A t \in Tasks : ref[t] # None <=> pc[t] \notin {"idle", "reap"}

-----------------------------------------------------------------------------
\* The allocations no task has an Arc of.
Unreferenced == {s \in Semaphores : \A t \in Tasks : ref[t] # s}

Goto(t, point) == pc' = [pc EXCEPT ![t] = point]

\* MemoryLocker::entry: the semaphore in the map, or a new one.
Entry(t) ==
  /\ pc[t] = "idle"
  /\ \E call \in {"lock", "try"} : Goto(t, call)
  /\ IF entry # None
     THEN /\ ref' = [ref EXCEPT ![t] = entry]
          /\ UNCHANGED <<entry, permit, queue>>
     ELSE \E s \in Unreferenced :
            /\ entry' = s
            /\ permit' = [permit EXCEPT ![s] = None]
            /\ queue' = [queue EXCEPT ![s] = << >>]
            /\ ref' = [ref EXCEPT ![t] = s]

\* acquire_owned or try_acquire_owned finds the permit.
Acquire(t) ==
  /\ pc[t] \in {"lock", "try"}
  /\ permit[ref[t]] = None
  /\ permit' = [permit EXCEPT ![ref[t]] = t]
  /\ Goto(t, "held")
  /\ UNCHANGED <<entry, queue, ref>>

\* acquire_owned queues the task.
Enqueue(t) ==
  /\ pc[t] = "lock"
  /\ permit[ref[t]] # None
  /\ queue' = [queue EXCEPT ![ref[t]] = Append(@, t)]
  /\ Goto(t, "waiting")
  /\ UNCHANGED <<entry, permit, ref>>

\* A queued task that was handed the permit returns with a guard.
Wake(t) ==
  /\ pc[t] = "waiting"
  /\ permit[ref[t]] = t
  /\ Goto(t, "held")
  /\ UNCHANGED <<entry, permit, queue, ref>>

\* try_acquire_owned fails: the Arc is dropped.
TryFail(t) ==
  /\ pc[t] = "try"
  /\ permit[ref[t]] # None
  /\ ref' = [ref EXCEPT ![t] = None]
  /\ Goto(t, "reap")
  /\ UNCHANGED <<entry, permit, queue>>

\* A sequence without its k-th element.
Without(q, k) == [i \in 1 .. Len(q) - 1 |-> IF i < k THEN q[i] ELSE q[i + 1]]

\* Dropping an Acquire future removes its node from the semaphore's queue.
LeaveQueue(t) ==
  \E k \in 1 .. Len(queue[ref[t]]) :
    /\ queue[ref[t]][k] = t
    /\ queue' = [queue EXCEPT ![ref[t]] = Without(@, k)]

\* The lock timeout passes: the waiter leaves the queue and drops its Arcs.
Timeout(t) ==
  /\ pc[t] = "waiting"
  /\ permit[ref[t]] # t
  /\ LeaveQueue(t)
  /\ ref' = [ref EXCEPT ![t] = None]
  /\ Goto(t, "reap")
  /\ UNCHANGED <<entry, permit>>

\* Faulty: the permit is freed although somebody waits.
PassOnToNobody(s) ==
  permit' = [permit EXCEPT ![s] = None] /\ UNCHANGED queue

\* Semaphore release: the first waiter gets the permit, or it becomes free.
PassOn(s) ==
  IF queue[s] = << >>
  THEN permit' = [permit EXCEPT ![s] = None] /\ UNCHANGED queue
  ELSE /\ permit' = [permit EXCEPT ![s] = Head(queue[s])]
       /\ queue' = [queue EXCEPT ![s] = Tail(@)]

\* The LockGuard is dropped: first the permit is returned ...
Release(t) ==
  /\ pc[t] = "held"
  /\ PassOn(ref[t])
  /\ Goto(t, "dropping")
  /\ UNCHANGED <<entry, ref>>

\* ... then the permit's own Arc goes.
DropRef(t) ==
  /\ pc[t] = "dropping"
  /\ ref' = [ref EXCEPT ![t] = None]
  /\ Goto(t, "reap")
  /\ UNCHANGED <<entry, permit, queue>>

\* strong_count = 1 and available_permits = 1, under the map's mutex.
Idle(s) == s \in Unreferenced /\ permit[s] = None

\* Faulty: the reference count is not looked at.
ReapFreePermit(t) ==
  /\ pc[t] = "reap"
  /\ entry' = IF entry # None /\ permit[entry] = None THEN None ELSE entry
  /\ Goto(t, "idle")
  /\ UNCHANGED <<permit, queue, ref>>

\* Faulty: only the permit's owner removes the entry.
ReapNothing(t) ==
  /\ pc[t] = "reap"
  /\ Goto(t, "idle")
  /\ UNCHANGED <<entry, permit, queue, ref>>

\* remove_if_idle.
Reap(t) ==
  /\ pc[t] = "reap"
  /\ entry' = IF entry # None /\ Idle(entry) THEN None ELSE entry
  /\ Goto(t, "idle")
  /\ UNCHANGED <<permit, queue, ref>>

\* The waiting future is dropped: a permit it was handed is passed on, and
\* nobody calls remove_if_idle.
Cancel(t) ==
  /\ Cancellation
  /\ pc[t] = "waiting"
  /\ IF permit[ref[t]] = t
     THEN PassOn(ref[t])
     ELSE LeaveQueue(t) /\ UNCHANGED permit
  /\ ref' = [ref EXCEPT ![t] = None]
  /\ Goto(t, "idle")
  /\ UNCHANGED entry

-----------------------------------------------------------------------------
Init ==
  /\ entry = None
  /\ permit = [s \in Semaphores |-> None]
  /\ queue = [s \in Semaphores |-> << >>]
  /\ pc = [t \in Tasks |-> "idle"]
  /\ ref = [t \in Tasks |-> None]

\* The steps a task takes by itself once it has called the locker.
Step(t) ==
  \/ Acquire(t) \/ Enqueue(t) \/ Wake(t) \/ TryFail(t)
  \/ Release(t) \/ DropRef(t) \/ Reap(t)

Next == \E t \in Tasks : Entry(t) \/ Step(t) \/ Timeout(t) \/ Cancel(t)

Spec == Init /\ [][Next]_vars

\* A task that holds the lock is eventually done with it; nobody has to come,
\* to time out or to be dropped.
FairSpec == Spec /\ \A t \in Tasks : WF_vars(Step(t))

-----------------------------------------------------------------------------
\* The tasks that own a LockGuard.
Holders == {t \in Tasks : pc[t] = "held"}

\* The locker keeps the promise of the Locker trait.
Lock == INSTANCE UploadLock WITH holders <- Holders
ImplementsLock == Lock!Spec

\* At most one LockGuard is alive, although remove_if_idle may discard a
\* semaphore and entry create another one while other tasks are on their way.
MutualExclusion == \A t, u \in Holders : t = u

\* All tasks that are on their way use the semaphore that is in the map: the
\* reference count test of remove_if_idle never strands anybody on an old one.
OneGeneration == \A t \in Tasks : ref[t] # None => ref[t] = entry

\* No lost wakeup: while somebody is queued, somebody has the permit.
NobodyWaitsForAFreePermit ==
  \A s \in Semaphores : queue[s] # << >> => permit[s] # None

\* The map does not grow: the last caller to leave through remove_if_idle takes
\* the entry with it, whichever of a release, a failed try_lock and a timeout
\* it comes from, and although dropped waiters never looked at the entry.
LastOutReaps ==
  [][(\E t \in Tasks : pc[t] = "reap") /\ (\A t \in Tasks : pc'[t] = "idle")
       => entry' = None]_vars

\* The queue is served: a waiter gets the lock even if it never times out.
WaitersAreServed ==
  \A t \in Tasks : pc[t] = "waiting" ~> pc[t] # "waiting"
=============================================================================
