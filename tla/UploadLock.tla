----------------------------- MODULE UploadLock -----------------------------
(***************************************************************************)
(* What the Locker trait (tus-protocol/src/locking.rs) promises for one    *)
(* upload ID: at most one LockGuard is alive at a time, and a lock stays   *)
(* held until its guard is dropped.  UploadLifecycle relies on this lock;  *)
(* MemoryLocker and FileLocker implement it.                               *)
(***************************************************************************)
CONSTANT Tasks      \* the callers of the locker

VARIABLE holders    \* the tasks that own a live LockGuard

TypeOK == holders \subseteq Tasks

\* No task owns a guard at first.
Init == holders = {}

\* lock or try_lock returns a guard.
Acquire(t) == holders = {} /\ holders' = {t}

\* The guard is dropped.
Release(t) == holders = {t} /\ holders' = {}

Next == \E t \in Tasks : Acquire(t) \/ Release(t)

Spec == Init /\ [][Next]_holders
=============================================================================
