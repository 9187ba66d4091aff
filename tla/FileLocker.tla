----------------------------- MODULE FileLocker -----------------------------
(***************************************************************************)
(* FileLocker (tus-protocol/src/locking/file.rs) for one upload ID on unix: *)
(* an advisory lock (flock) on a lock file that is created on demand and   *)
(* unlinked on release, shared by tasks of several processes.  Every step  *)
(* is one system call.  lock polls until its deadline, try_lock makes one  *)
(* attempt; both are try_acquire in a loop that may stop when blocked.     *)
(*                                                                         *)
(* A definition marked "Faulty" is the one below it with a plausible bug;  *)
(* nothing uses it.  Each shows that some property notices the bug.        *)
(***************************************************************************)
CONSTANTS
  Tasks,   \* the tasks that lock the upload, of any process
  Inodes,  \* the inodes the lock file can have
  None     \* no inode, or no task

ASSUME ConstantsAssumption == None \notin Tasks /\ None \notin Inodes

VARIABLES
  path,    \* the inode the lock file's path names
  flock,   \* the owner of each inode's advisory lock
  pc,      \* where each task is
  fd       \* the inode a task has a descriptor of

vars == <<path, flock, pc, fd>>

WithFile == {"flock", "check", "held", "unlock", "probe", "probed"}
Points == WithFile \cup {"idle", "open"}

\* A task has a descriptor exactly while it is using the lock file.
TypeOK ==
  /\ path \in Inodes \cup {None}
  /\ flock \in [Inodes -> Tasks \cup {None}]
  /\ pc \in [Tasks -> Points]
  /\ fd \in [Tasks -> Inodes \cup {None}]
  /\ \A t \in Tasks : fd[t] # None <=> pc[t] \in WithFile

-----------------------------------------------------------------------------
Goto(t, point) == pc' = [pc EXCEPT ![t] = point]

\* Closing the last descriptor of an open file description drops its lock.
CloseFile(t) ==
  /\ fd' = [fd EXCEPT ![t] = None]
  /\ flock' = [i \in Inodes |-> IF flock[i] = t THEN None ELSE flock[i]]

\* The inodes the file system may give to a new file.
Unused == {i \in Inodes : i # path /\ \A t \in Tasks : fd[t] # i}

\* lock or try_lock is called.
Call(t) == pc[t] = "idle" /\ Goto(t, "open") /\ UNCHANGED <<path, flock, fd>>

\* open_lock_file: open the file, creating it if there is none.
Open(t) ==
  /\ pc[t] = "open"
  /\ \E i \in IF path = None THEN Unused ELSE {path} :
       path' = i /\ fd' = [fd EXCEPT ![t] = i]
  /\ Goto(t, "flock")
  /\ UNCHANGED flock

\* try_lock_exclusive succeeds.
Flock(t) ==
  /\ pc[t] = "flock"
  /\ flock[fd[t]] = None
  /\ flock' = [flock EXCEPT ![fd[t]] = t]
  /\ Goto(t, "check")
  /\ UNCHANGED <<path, fd>>

\* try_lock_exclusive would block: lock sleeps and tries again, or, past its
\* deadline like try_lock, gives up.
Blocked(t) ==
  /\ pc[t] = "flock"
  /\ flock[fd[t]] # None
  /\ Goto(t, "open") \/ Goto(t, "idle")
  /\ CloseFile(t)
  /\ UNCHANGED path

\* Faulty: the inode is not compared.
CheckNothing(t) ==
  /\ pc[t] = "check"
  /\ Goto(t, "held")
  /\ UNCHANGED <<path, flock, fd>>

\* is_current_lock_file: is the locked inode still the one at the path?  If
\* not, try_acquire drops it and starts again.
Check(t) ==
  /\ pc[t] = "check"
  /\ IF path = fd[t]
     THEN Goto(t, "held") /\ UNCHANGED <<flock, fd>>
     ELSE Goto(t, "open") /\ CloseFile(t)
  /\ UNCHANGED path

\* release_lock_file: unlink whatever is at the path, if that works ...
Unlink(t) ==
  /\ pc[t] = "held"
  /\ path' \in {None, path}
  /\ Goto(t, "unlock")
  /\ UNCHANGED <<flock, fd>>

\* ... then unlock and close the file.
Unlock(t) ==
  /\ pc[t] = "unlock"
  /\ CloseFile(t)
  /\ Goto(t, "idle")
  /\ UNCHANGED path

\* is_locked: open the file if it exists ...
ProbeOpen(t) ==
  /\ pc[t] = "idle" /\ path # None
  /\ fd' = [fd EXCEPT ![t] = path]
  /\ Goto(t, "probe")
  /\ UNCHANGED <<path, flock>>

\* ... lock it if it is free ...
ProbeFlock(t) ==
  /\ pc[t] = "probe"
  /\ IF flock[fd[t]] = None
     THEN flock' = [flock EXCEPT ![fd[t]] = t] /\ Goto(t, "probed") /\ UNCHANGED fd
     ELSE CloseFile(t) /\ Goto(t, "idle")
  /\ UNCHANGED path

\* ... and unlock it again.
ProbeEnd(t) ==
  /\ pc[t] = "probed"
  /\ CloseFile(t)
  /\ Goto(t, "idle")
  /\ UNCHANGED path

\* The process dies, a system call fails, or the future that asked for the
\* lock was dropped: the file is closed and the lock file stays.
Die(t) ==
  /\ pc[t] # "idle"
  /\ CloseFile(t)
  /\ Goto(t, "idle")
  /\ UNCHANGED path

-----------------------------------------------------------------------------
Init ==
  /\ path = None
  /\ flock = [i \in Inodes |-> None]
  /\ pc = [t \in Tasks |-> "idle"]
  /\ fd = [t \in Tasks |-> None]

\* What a task does by itself once it has called the locker.
Step(t) ==
  \/ Open(t) \/ Flock(t) \/ Blocked(t) \/ Check(t) \/ Unlink(t) \/ Unlock(t)
  \/ ProbeFlock(t) \/ ProbeEnd(t)

Next == \E t \in Tasks : Call(t) \/ ProbeOpen(t) \/ Step(t) \/ Die(t)

Spec == Init /\ [][Next]_vars

-----------------------------------------------------------------------------
\* The tasks that own a LockGuard.
Holders == {t \in Tasks : pc[t] = "held"}

\* The locker keeps the promise of the Locker trait.
Lock == INSTANCE UploadLock WITH holders <- Holders
ImplementsLock == Lock!Spec

\* At most one LockGuard is alive, although releases unlink the file and
\* contenders lock old and new inodes of the same path (try_acquire).
MutualExclusion == \A t, u \in Holders : t = u

\* A guard's lock file is never unlinked or replaced behind its back, so every
\* newcomer meets the lock at the path (release_lock_file, is_current_lock_file).
HolderOwnsPath == \A t \in Holders : path = fd[t] /\ flock[path] = t
=============================================================================
