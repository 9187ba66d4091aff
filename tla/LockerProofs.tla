---------------------------- MODULE LockerProofs ----------------------------
(***************************************************************************)
(* MemoryLocker and FileLocker keep the promise of the Locker trait, for   *)
(* any number of tasks, semaphores and inodes.                             *)
(*                                                                         *)
(* The memory locker's inductive invariant adds to OneGeneration who may   *)
(* own a permit and who may stand in a queue.  The file locker's adds to   *)
(* HolderOwnsPath that an advisory lock is owned by a task with a          *)
(* descriptor of that inode, and that a task between its flock and its     *)
(* unlock owns the lock.                                                   *)
(***************************************************************************)
EXTENDS MemoryLocker, TLAPS

CONSTANT Inodes
VARIABLES path, flock, at, fd

\* The file locker of the same tasks; at is its program counter.
File == INSTANCE FileLocker WITH pc <- at

-----------------------------------------------------------------------------
(* The memory locker.                                                      *)

\* A permit belongs to a task that references the semaphore and has the lock
\* or is about to be woken with it.
PermitOwner ==
  \A s \in Semaphores :
    permit[s] # None => /\ ref[permit[s]] = s
                        /\ pc[permit[s]] \in {"held", "waiting"}

HolderHasPermit == \A t \in Tasks : pc[t] = "held" => permit[ref[t]] = t

\* The queue holds waiting tasks that do not have the permit, each once.
QueueOfWaiters ==
  \A s \in Semaphores :
    /\ \A k \in 1 .. Len(queue[s]) :
         /\ ref[queue[s][k]] = s
         /\ pc[queue[s][k]] = "waiting"
         /\ permit[s] # queue[s][k]
    /\ \A j, k \in 1 .. Len(queue[s]) : queue[s][j] = queue[s][k] => j = k

IInv ==
  /\ TypeOK
  /\ OneGeneration
  /\ PermitOwner
  /\ HolderHasPermit
  /\ QueueOfWaiters
  /\ NobodyWaitsForAFreePermit

-----------------------------------------------------------------------------
LEMMA WithoutType ==
  ASSUME NEW S, NEW q \in Seq(S), NEW k \in 1 .. Len(q)
  PROVE  /\ Without(q, k) \in Seq(S)
         /\ Len(Without(q, k)) = Len(q) - 1
         /\ \A i \in 1 .. Len(q) - 1 :
              Without(q, k)[i] = IF i < k THEN q[i] ELSE q[i + 1]
<1>1. Len(q) - 1 \in Nat /\ Len(q) \in Nat
  OBVIOUS
<1>2. \A i \in 1 .. Len(q) - 1 : (IF i < k THEN q[i] ELSE q[i + 1]) \in S
  BY <1>1
<1>3. Without(q, k) \in [1 .. Len(q) - 1 -> S]
  BY <1>2 DEF Without
<1> QED
  BY <1>1, <1>3 DEF Without

LEMMA InitIInv == Init => IInv
BY ConstantsAssumption
DEF Init, IInv, TypeOK, OneGeneration, PermitOwner, HolderHasPermit,
    QueueOfWaiters, NobodyWaitsForAFreePermit, Points

\* Releasing a permit keeps the invariant's semaphore part if the releasing
\* task stops being its owner.
LEMMA PassOnInv ==
  ASSUME IInv, NEW t \in Tasks, ref[t] # None, permit[ref[t]] = t, PassOn(ref[t]),
         pc' \in [Tasks -> Points], pc'[t] \notin {"held", "waiting"},
         \A u \in Tasks : u # t => pc'[u] = pc[u] /\ ref'[u] = ref[u],
         ref' \in [Tasks -> Semaphores \cup {None}], ref'[t] \in {ref[t], None},
         ref'[t] # None <=> pc'[t] \notin {"idle", "reap"},
         UNCHANGED entry
  PROVE  IInv'
<1> USE ConstantsAssumption
<1> DEFINE s == ref[t]
<1>0. /\ TypeOK /\ OneGeneration /\ PermitOwner /\ HolderHasPermit
      /\ QueueOfWaiters /\ NobodyWaitsForAFreePermit
      /\ s \in Semaphores
  BY DEF IInv, TypeOK
<1>1. CASE queue[s] = << >>
  <2>1. permit' = [permit EXCEPT ![s] = None] /\ queue' = queue
    BY <1>1 DEF PassOn
  <2>2. TypeOK' /\ OneGeneration'
    BY <1>0, <2>1 DEF TypeOK, OneGeneration
  <2>3. PermitOwner'
    <3> SUFFICES ASSUME NEW r \in Semaphores, permit'[r] # None
                 PROVE  /\ ref'[permit'[r]] = r
                        /\ pc'[permit'[r]] \in {"held", "waiting"}
      BY DEF PermitOwner
    <3>1. r # s /\ permit'[r] = permit[r] /\ permit[r] \in Tasks
      BY <1>0, <2>1 DEF TypeOK
    <3>2. ref[permit[r]] = r /\ pc[permit[r]] \in {"held", "waiting"}
      BY <1>0, <3>1 DEF PermitOwner
    <3> QED
      BY <3>1, <3>2
  <2>4. HolderHasPermit'
    BY <1>0, <2>1 DEF TypeOK, HolderHasPermit, PermitOwner
  <2>5. QueueOfWaiters' /\ NobodyWaitsForAFreePermit'
    <3>1. \A r \in Semaphores : \A k \in 1 .. Len(queue[r]) :
            queue[r][k] \in Tasks /\ queue[r][k] # t
      BY <1>0, <1>1 DEF TypeOK, QueueOfWaiters
    <3> QED
      BY <1>0, <1>1, <2>1, <3>1 DEF TypeOK, QueueOfWaiters, NobodyWaitsForAFreePermit
  <2> QED
    BY <2>2, <2>3, <2>4, <2>5 DEF IInv
<1>2. CASE queue[s] # << >>
  <2> DEFINE h == Head(queue[s])
  <2>1. /\ permit' = [permit EXCEPT ![s] = h]
        /\ queue' = [queue EXCEPT ![s] = Tail(queue[s])]
    BY <1>2 DEF PassOn
  <2>2. /\ queue[s] \in Seq(Tasks) /\ Len(queue[s]) > 0 /\ h = queue[s][1]
        /\ h \in Tasks /\ h # t /\ ref[h] = s /\ pc[h] = "waiting"
    BY <1>0, <1>2 DEF TypeOK, QueueOfWaiters
  <2>3. /\ Tail(queue[s]) \in Seq(Tasks)
        /\ Len(Tail(queue[s])) = Len(queue[s]) - 1
        /\ \A k \in 1 .. Len(queue[s]) - 1 :
             Tail(queue[s])[k] = queue[s][k + 1] /\ k + 1 \in 1 .. Len(queue[s])
    BY <2>2
  <2>4. TypeOK' /\ OneGeneration'
    <3>1. permit' \in [Semaphores -> Tasks \cup {None}]
      BY <1>0, <2>1, <2>2 DEF TypeOK
    <3>2. queue' \in [Semaphores -> Seq(Tasks)]
      BY <1>0, <2>1, <2>3 DEF TypeOK
    <3>3. \A u \in Tasks : ref'[u] # None <=> pc'[u] \notin {"idle", "reap"}
      BY <1>0 DEF TypeOK
    <3>4. \A u \in Tasks : ref'[u] # None => ref'[u] = entry'
      BY <1>0 DEF OneGeneration
    <3> QED
      BY <1>0, <3>1, <3>2, <3>3, <3>4 DEF TypeOK, OneGeneration
  <2>5. PermitOwner'
    <3> SUFFICES ASSUME NEW r \in Semaphores, permit'[r] # None
                 PROVE  /\ ref'[permit'[r]] = r
                        /\ pc'[permit'[r]] \in {"held", "waiting"}
      BY DEF PermitOwner
    <3>1. CASE r = s
      BY <1>0, <2>1, <2>2, <3>1 DEF TypeOK
    <3>2. CASE r # s
      <4>1. permit'[r] = permit[r] /\ permit[r] \in Tasks
        BY <1>0, <2>1, <3>2 DEF TypeOK
      <4>2. ref[permit[r]] = r /\ pc[permit[r]] \in {"held", "waiting"}
        BY <1>0, <4>1 DEF PermitOwner
      <4> QED
        BY <3>2, <4>1, <4>2
    <3> QED
      BY <3>1, <3>2
  <2>6. HolderHasPermit'
    BY <1>0, <2>1, <2>2 DEF TypeOK, HolderHasPermit, PermitOwner
  <2>7. QueueOfWaiters'
    <3>1. ASSUME NEW r \in Semaphores, r # s
          PROVE  /\ queue'[r] = queue[r] /\ permit'[r] = permit[r]
                 /\ \A k \in 1 .. Len(queue[r]) :
                      queue[r][k] \in Tasks /\ queue[r][k] # t
      BY <1>0, <2>1, <3>1 DEF TypeOK, QueueOfWaiters
    <3>2. queue'[s] = Tail(queue[s]) /\ permit'[s] = queue[s][1]
      BY <1>0, <2>1, <2>2 DEF TypeOK
    <3>3. \A k \in 1 .. Len(queue[s]) : queue[s][k] \in Tasks /\ queue[s][k] # t
      BY <1>0 DEF TypeOK, QueueOfWaiters
    <3>4. ASSUME NEW k \in 1 .. Len(queue'[s])
          PROVE  /\ ref'[queue'[s][k]] = s
                 /\ pc'[queue'[s][k]] = "waiting"
                 /\ permit'[s] # queue'[s][k]
      <4>1. k + 1 \in 1 .. Len(queue[s]) /\ queue'[s][k] = queue[s][k + 1] /\ k + 1 # 1
        BY <2>3, <3>2
      <4>2. queue[s][k + 1] # queue[s][1]
        BY <1>0, <2>2, <4>1 DEF QueueOfWaiters
      <4>3. /\ ref[queue[s][k + 1]] = s /\ pc[queue[s][k + 1]] = "waiting"
            /\ queue[s][k + 1] \in Tasks /\ queue[s][k + 1] # t
        BY <1>0, <3>3, <4>1 DEF QueueOfWaiters
      <4> QED
        BY <3>2, <4>1, <4>2, <4>3
    <3>5. ASSUME NEW j \in 1 .. Len(queue'[s]), NEW k \in 1 .. Len(queue'[s]),
                 queue'[s][j] = queue'[s][k]
          PROVE  j = k
      <4>1. queue[s][j + 1] = queue[s][k + 1]
              /\ j + 1 \in 1 .. Len(queue[s]) /\ k + 1 \in 1 .. Len(queue[s])
        BY <2>3, <3>2, <3>5
      <4>2. j + 1 = k + 1
        BY <1>0, <4>1 DEF QueueOfWaiters
      <4> QED
        BY <4>2, <2>3, <3>2
    <3>6. ASSUME NEW r \in Semaphores, r # s
          PROVE  /\ \A k \in 1 .. Len(queue'[r]) :
                      /\ ref'[queue'[r][k]] = r
                      /\ pc'[queue'[r][k]] = "waiting"
                      /\ permit'[r] # queue'[r][k]
                 /\ \A j, k \in 1 .. Len(queue'[r]) : queue'[r][j] = queue'[r][k] => j = k
      BY <1>0, <3>1, <3>6 DEF QueueOfWaiters
    <3> QED
      BY <3>4, <3>5, <3>6 DEF QueueOfWaiters
  <2>8. NobodyWaitsForAFreePermit'
    BY <1>0, <2>1, <2>2 DEF TypeOK, NobodyWaitsForAFreePermit
  <2> QED
    BY <2>4, <2>5, <2>6, <2>7, <2>8 DEF IInv
<1> QED
  BY <1>1, <1>2

\* A waiter that leaves the queue and drops its references.
LEMMA LeaveQueueInv ==
  ASSUME IInv, NEW t \in Tasks, pc[t] = "waiting", permit[ref[t]] # t, LeaveQueue(t),
         NEW point \in {"idle", "reap"}, Goto(t, point),
         ref' = [ref EXCEPT ![t] = None],
         UNCHANGED <<entry, permit>>
  PROVE  IInv'
<1> USE ConstantsAssumption
<1> DEFINE s == ref[t]
<1>0. /\ TypeOK /\ OneGeneration /\ PermitOwner /\ HolderHasPermit
      /\ QueueOfWaiters /\ NobodyWaitsForAFreePermit
      /\ s \in Semaphores
  BY DEF IInv, TypeOK
<1>1. PICK n \in 1 .. Len(queue[s]) :
        queue[s][n] = t /\ queue' = [queue EXCEPT ![s] = Without(queue[s], n)]
  BY DEF LeaveQueue
<1>2. queue[s] \in Seq(Tasks) /\ Len(queue[s]) \in Nat
  BY <1>0 DEF TypeOK
<1>3. /\ Without(queue[s], n) \in Seq(Tasks)
      /\ Len(Without(queue[s], n)) = Len(queue[s]) - 1
      /\ \A i \in 1 .. Len(queue[s]) - 1 :
           Without(queue[s], n)[i] = IF i < n THEN queue[s][i] ELSE queue[s][i + 1]
  BY <1>1, <1>2, WithoutType
<1>4. TypeOK' /\ OneGeneration'
  BY <1>0, <1>1, <1>3 DEF TypeOK, OneGeneration, Goto, Points
<1>5. PermitOwner' /\ HolderHasPermit'
  BY <1>0 DEF TypeOK, PermitOwner, HolderHasPermit, Goto
<1>6. NobodyWaitsForAFreePermit'
  BY <1>0, <1>1, <1>2 DEF TypeOK, NobodyWaitsForAFreePermit
<1>7. queue'[s] = Without(queue[s], n) /\ \A r \in Semaphores : r # s => queue'[r] = queue[r]
  BY <1>0, <1>1 DEF TypeOK
\* Every place of the new queue is a place of the old one, other than n.
<1>8. ASSUME NEW i \in 1 .. Len(queue'[s])
      PROVE  \E j \in 1 .. Len(queue[s]) :
               j # n /\ j = (IF i < n THEN i ELSE i + 1) /\ queue'[s][i] = queue[s][j]
  <2>1. i \in 1 .. Len(queue[s]) - 1
    BY <1>3, <1>7
  <2>2. CASE i < n
    BY <1>1, <1>2, <1>3, <1>7, <2>1, <2>2
  <2>3. CASE ~(i < n)
    BY <1>1, <1>2, <1>3, <1>7, <2>1, <2>3
  <2> QED
    BY <2>2, <2>3
<1>9. ASSUME NEW i \in 1 .. Len(queue'[s])
      PROVE  /\ ref'[queue'[s][i]] = s
             /\ pc'[queue'[s][i]] = "waiting"
             /\ permit'[s] # queue'[s][i]
  <2>1. PICK j \in 1 .. Len(queue[s]) : j # n /\ queue'[s][i] = queue[s][j]
    BY <1>8
  <2>2. queue[s][j] # t /\ queue[s][j] \in Tasks
    BY <1>0, <1>1, <1>2, <2>1 DEF QueueOfWaiters
  <2> QED
    BY <1>0, <2>1, <2>2 DEF TypeOK, QueueOfWaiters, Goto
<1>10. ASSUME NEW i \in 1 .. Len(queue'[s]), NEW k \in 1 .. Len(queue'[s]),
              queue'[s][i] = queue'[s][k]
       PROVE  i = k
  <2>1. PICK j \in 1 .. Len(queue[s]) :
          j = (IF i < n THEN i ELSE i + 1) /\ queue'[s][i] = queue[s][j]
    BY <1>8
  <2>2. PICK l \in 1 .. Len(queue[s]) :
          l = (IF k < n THEN k ELSE k + 1) /\ queue'[s][k] = queue[s][l]
    BY <1>8
  <2>3. queue[s][j] = queue[s][l]
    BY <1>10, <2>1, <2>2
  <2>4. j = l
    BY <1>0, <2>3 DEF QueueOfWaiters
  <2>5. i \in Int /\ k \in Int /\ n \in Int
    BY <1>3, <1>7, <1>2
  <2> QED
    BY <2>1, <2>2, <2>4, <2>5
<1>11. ASSUME NEW r \in Semaphores, r # s
       PROVE  /\ \A k \in 1 .. Len(queue'[r]) :
                   /\ ref'[queue'[r][k]] = r
                   /\ pc'[queue'[r][k]] = "waiting"
                   /\ permit'[r] # queue'[r][k]
              /\ \A j, k \in 1 .. Len(queue'[r]) : queue'[r][j] = queue'[r][k] => j = k
  <2>1. \A k \in 1 .. Len(queue[r]) : queue[r][k] \in Tasks /\ queue[r][k] # t
    BY <1>0, <1>11 DEF TypeOK, QueueOfWaiters
  <2>2. queue'[r] = queue[r] /\ permit'[r] = permit[r]
    BY <1>7, <1>11
  <2>3. \A u \in Tasks : u # t => ref'[u] = ref[u] /\ pc'[u] = pc[u]
    BY <1>0 DEF TypeOK, Goto
  <2>4. /\ \A k \in 1 .. Len(queue[r]) : /\ ref[queue[r][k]] = r
                                         /\ pc[queue[r][k]] = "waiting"
                                         /\ permit[r] # queue[r][k]
        /\ \A j, k \in 1 .. Len(queue[r]) : queue[r][j] = queue[r][k] => j = k
    BY <1>0 DEF QueueOfWaiters
  <2> QED
    BY <2>1, <2>2, <2>3, <2>4
<1>12. QueueOfWaiters'
  <2> SUFFICES ASSUME NEW r \in Semaphores
               PROVE  /\ \A k \in 1 .. Len(queue'[r]) :
                           /\ ref'[queue'[r][k]] = r
                           /\ pc'[queue'[r][k]] = "waiting"
                           /\ permit'[r] # queue'[r][k]
                      /\ \A j, k \in 1 .. Len(queue'[r]) : queue'[r][j] = queue'[r][k] => j = k
    BY Zenon DEF QueueOfWaiters
  <2>1. CASE r = s
    BY <2>1, <1>9, <1>10, Zenon
  <2>2. CASE r # s
    BY <2>2, <1>11, Zenon
  <2> QED
    BY <2>1, <2>2
<1> QED
  BY <1>4, <1>5, <1>6, <1>12 DEF IInv

LEMMA NextIInv == IInv /\ [Next]_vars => IInv'
<1> SUFFICES ASSUME IInv, [Next]_vars PROVE IInv'
  OBVIOUS
<1> USE ConstantsAssumption
<1>0. /\ TypeOK /\ OneGeneration /\ PermitOwner /\ HolderHasPermit
      /\ QueueOfWaiters /\ NobodyWaitsForAFreePermit
  BY DEF IInv
<1>a. \A s \in Semaphores :
        /\ queue[s] \in Seq(Tasks)
        /\ \A k \in 1 .. Len(queue[s]) : queue[s][k] \in Tasks
  BY <1>0 DEF TypeOK
<1>1. CASE UNCHANGED vars
  BY <1>0, <1>1
  DEF vars, IInv, TypeOK, OneGeneration, PermitOwner, HolderHasPermit,
      QueueOfWaiters, NobodyWaitsForAFreePermit
<1>2. ASSUME NEW t \in Tasks, Entry(t) PROVE IInv'
  <2>1. pc[t] = "idle" /\ ref[t] = None
    BY <1>0, <1>2 DEF Entry, TypeOK
  <2>2. PICK call \in {"lock", "try"} : pc' = [pc EXCEPT ![t] = call]
    BY <1>2 DEF Entry, Goto
  <2>3. CASE entry # None
    <3>1. ref' = [ref EXCEPT ![t] = entry] /\ UNCHANGED <<entry, permit, queue>>
      BY <1>2, <2>3 DEF Entry
    <3>2. TypeOK' /\ OneGeneration'
      BY <1>0, <2>1, <2>2, <2>3, <3>1 DEF TypeOK, OneGeneration, Points
    <3>3. PermitOwner' /\ HolderHasPermit' /\ NobodyWaitsForAFreePermit'
      BY <1>0, <2>1, <2>2, <3>1
      DEF TypeOK, PermitOwner, HolderHasPermit, NobodyWaitsForAFreePermit
    <3>4. QueueOfWaiters'
      BY <1>0, <1>a, <2>1, <2>2, <3>1 DEF TypeOK, QueueOfWaiters
    <3> QED
      BY <3>2, <3>3, <3>4 DEF IInv
  <2>4. CASE entry = None
    <3>1. PICK s \in Unreferenced :
            /\ entry' = s
            /\ permit' = [permit EXCEPT ![s] = None]
            /\ queue' = [queue EXCEPT ![s] = << >>]
            /\ ref' = [ref EXCEPT ![t] = s]
      BY <1>2, <2>4 DEF Entry
    <3>2. s \in Semaphores /\ \A u \in Tasks : ref[u] = None
      BY <1>0, <2>4, <3>1 DEF Unreferenced, OneGeneration
    <3>3. TypeOK' /\ OneGeneration'
      BY <1>0, <2>1, <2>2, <3>1, <3>2 DEF TypeOK, OneGeneration, Points
    <3>4. \A r \in Semaphores : permit[r] = None
      BY <1>0, <3>2 DEF TypeOK, PermitOwner
    <3>5. PermitOwner' /\ HolderHasPermit'
      BY <1>0, <2>1, <2>2, <3>1, <3>2, <3>4 DEF TypeOK, PermitOwner, HolderHasPermit
    <3>6. NobodyWaitsForAFreePermit' /\ QueueOfWaiters'
      BY <1>0, <1>a, <2>1, <2>2, <3>1, <3>2, <3>4
      DEF TypeOK, NobodyWaitsForAFreePermit, QueueOfWaiters
    <3> QED
      BY <3>3, <3>5, <3>6 DEF IInv
  <2> QED
    BY <2>3, <2>4
<1>3. ASSUME NEW t \in Tasks, Acquire(t) PROVE IInv'
  <2>1. /\ ref[t] \in Semaphores /\ permit[ref[t]] = None
        /\ pc[t] \in {"lock", "try"}
        /\ permit' = [permit EXCEPT ![ref[t]] = t] /\ pc' = [pc EXCEPT ![t] = "held"]
        /\ UNCHANGED <<entry, queue, ref>>
    BY <1>0, <1>3 DEF Acquire, Goto, TypeOK
  <2>2. TypeOK' /\ OneGeneration' /\ NobodyWaitsForAFreePermit'
    BY <1>0, <2>1 DEF TypeOK, OneGeneration, NobodyWaitsForAFreePermit, Points
  <2>3. PermitOwner' /\ HolderHasPermit'
    BY <1>0, <2>1 DEF TypeOK, PermitOwner, HolderHasPermit
  <2>4. QueueOfWaiters'
    BY <1>0, <1>a, <2>1 DEF TypeOK, QueueOfWaiters
  <2> QED
    BY <2>2, <2>3, <2>4 DEF IInv
<1>4. ASSUME NEW t \in Tasks, Enqueue(t) PROVE IInv'
  <2> DEFINE s == ref[t]
  <2>1. /\ s \in Semaphores /\ permit[s] # None /\ pc[t] = "lock"
        /\ queue' = [queue EXCEPT ![s] = Append(queue[s], t)]
        /\ pc' = [pc EXCEPT ![t] = "waiting"]
        /\ UNCHANGED <<entry, permit, ref>>
    BY <1>0, <1>4 DEF Enqueue, Goto, TypeOK
  <2>2. /\ Append(queue[s], t) \in Seq(Tasks)
        /\ Len(Append(queue[s], t)) = Len(queue[s]) + 1
        /\ \A k \in 1 .. Len(queue[s]) : Append(queue[s], t)[k] = queue[s][k]
        /\ Append(queue[s], t)[Len(queue[s]) + 1] = t
    BY <1>a, <2>1
  <2>3. TypeOK' /\ OneGeneration' /\ NobodyWaitsForAFreePermit'
    BY <1>0, <2>1, <2>2
    DEF TypeOK, OneGeneration, NobodyWaitsForAFreePermit, Points
  <2>4. PermitOwner' /\ HolderHasPermit'
    BY <1>0, <2>1 DEF TypeOK, PermitOwner, HolderHasPermit
  <2>5. permit[s] # t /\ \A r \in Semaphores : \A k \in 1 .. Len(queue[r]) : queue[r][k] # t
    BY <1>0, <2>1 DEF PermitOwner, QueueOfWaiters
  <2>6. queue'[s] = Append(queue[s], t) /\ \A r \in Semaphores : r # s => queue'[r] = queue[r]
    BY <1>0, <2>1 DEF TypeOK
  <2>7. ASSUME NEW r \in Semaphores, r # s
        PROVE  /\ \A k \in 1 .. Len(queue'[r]) :
                    /\ ref'[queue'[r][k]] = r
                    /\ pc'[queue'[r][k]] = "waiting"
                    /\ permit'[r] # queue'[r][k]
               /\ \A j, k \in 1 .. Len(queue'[r]) : queue'[r][j] = queue'[r][k] => j = k
    BY <1>0, <1>a, <2>1, <2>5, <2>6, <2>7 DEF TypeOK, QueueOfWaiters
  <2>8. ASSUME NEW k \in 1 .. Len(queue'[s])
        PROVE  /\ ref'[queue'[s][k]] = s
               /\ pc'[queue'[s][k]] = "waiting"
               /\ permit'[s] # queue'[s][k]
    <3>1. CASE k \in 1 .. Len(queue[s])
      BY <1>0, <1>a, <2>1, <2>2, <2>5, <2>6, <3>1 DEF TypeOK, QueueOfWaiters
    <3>2. CASE k = Len(queue[s]) + 1
      BY <1>0, <2>1, <2>2, <2>5, <2>6, <3>2 DEF TypeOK
    <3> QED
      BY <1>a, <2>1, <2>2, <2>6, <3>1, <3>2
  <2>9. \A j, k \in 1 .. Len(queue'[s]) : queue'[s][j] = queue'[s][k] => j = k
    <3>1. \A k \in 1 .. Len(queue'[s]) :
            k \in 1 .. Len(queue[s]) \/ k = Len(queue[s]) + 1
      BY <1>a, <2>1, <2>2, <2>6
    <3> QED
      BY <1>0, <2>1, <2>2, <2>5, <2>6, <3>1 DEF QueueOfWaiters
  <2>10. QueueOfWaiters'
    BY <2>7, <2>8, <2>9 DEF QueueOfWaiters
  <2> QED
    BY <2>3, <2>4, <2>10 DEF IInv
<1>5. ASSUME NEW t \in Tasks, Wake(t) PROVE IInv'
  <2>1. /\ ref[t] \in Semaphores /\ permit[ref[t]] = t /\ pc[t] = "waiting"
        /\ pc' = [pc EXCEPT ![t] = "held"]
        /\ UNCHANGED <<entry, permit, queue, ref>>
    BY <1>0, <1>5 DEF Wake, Goto, TypeOK
  <2>2. TypeOK' /\ OneGeneration' /\ NobodyWaitsForAFreePermit'
    BY <1>0, <2>1 DEF TypeOK, OneGeneration, NobodyWaitsForAFreePermit, Points
  <2>3. PermitOwner' /\ HolderHasPermit'
    BY <1>0, <2>1 DEF TypeOK, PermitOwner, HolderHasPermit
  <2>4. \A r \in Semaphores : \A k \in 1 .. Len(queue[r]) : queue[r][k] # t
    BY <1>0, <2>1 DEF QueueOfWaiters
  <2>5. QueueOfWaiters'
    BY <1>0, <1>a, <2>1, <2>4 DEF TypeOK, QueueOfWaiters
  <2> QED
    BY <2>2, <2>3, <2>5 DEF IInv
<1>6. ASSUME NEW t \in Tasks, TryFail(t) \/ DropRef(t) PROVE IInv'
  <2>1. /\ pc[t] \in {"try", "dropping"}
        /\ pc' = [pc EXCEPT ![t] = "reap"] /\ ref' = [ref EXCEPT ![t] = None]
        /\ UNCHANGED <<entry, permit, queue>>
    BY <1>6 DEF TryFail, DropRef, Goto
  <2>2. TypeOK' /\ OneGeneration' /\ NobodyWaitsForAFreePermit'
    BY <1>0, <2>1 DEF TypeOK, OneGeneration, NobodyWaitsForAFreePermit, Points
  <2>3. PermitOwner' /\ HolderHasPermit'
    BY <1>0, <2>1 DEF TypeOK, PermitOwner, HolderHasPermit
  <2>4. \A r \in Semaphores : \A k \in 1 .. Len(queue[r]) : queue[r][k] # t
    BY <1>0, <2>1 DEF QueueOfWaiters
  <2>5. QueueOfWaiters'
    BY <1>0, <1>a, <2>1, <2>4 DEF TypeOK, QueueOfWaiters
  <2> QED
    BY <2>2, <2>3, <2>5 DEF IInv
<1>7. ASSUME NEW t \in Tasks, Timeout(t) PROVE IInv'
  BY <1>7, LeaveQueueInv DEF Timeout
<1>8. ASSUME NEW t \in Tasks, Cancel(t) PROVE IInv'
  <2>1. CASE permit[ref[t]] = t
    <3>1. pc' \in [Tasks -> Points] /\ ref' \in [Tasks -> Semaphores \cup {None}]
      BY <1>0, <1>8 DEF Cancel, Goto, TypeOK, Points
    <3>2. /\ ref[t] # None /\ pc'[t] = "idle" /\ ref'[t] = None
          /\ \A u \in Tasks : u # t => pc'[u] = pc[u] /\ ref'[u] = ref[u]
      BY <1>0, <1>8 DEF Cancel, Goto, TypeOK
    <3> QED
      BY <1>8, <2>1, <3>1, <3>2, PassOnInv DEF Cancel
  <2>2. CASE permit[ref[t]] # t
    BY <1>8, <2>2, LeaveQueueInv DEF Cancel
  <2> QED
    BY <2>1, <2>2
<1>9. ASSUME NEW t \in Tasks, Release(t) PROVE IInv'
  <2>1. pc' \in [Tasks -> Points] /\ ref' \in [Tasks -> Semaphores \cup {None}]
    BY <1>0, <1>9 DEF Release, Goto, TypeOK, Points
  <2>2. /\ ref[t] # None /\ permit[ref[t]] = t
        /\ pc'[t] = "dropping" /\ ref'[t] = ref[t]
        /\ \A u \in Tasks : u # t => pc'[u] = pc[u] /\ ref'[u] = ref[u]
    BY <1>0, <1>9 DEF Release, Goto, TypeOK, HolderHasPermit
  <2> QED
    BY <1>9, <2>1, <2>2, PassOnInv DEF Release
<1>10. ASSUME NEW t \in Tasks, Reap(t) PROVE IInv'
  <2>1. /\ pc[t] = "reap" /\ pc' = [pc EXCEPT ![t] = "idle"]
        /\ UNCHANGED <<permit, queue, ref>>
        /\ entry' \in {None, entry}
        /\ entry' # entry => \A u \in Tasks : ref[u] # entry
    BY <1>10 DEF Reap, Goto, Idle, Unreferenced
  <2>2. TypeOK' /\ OneGeneration' /\ NobodyWaitsForAFreePermit'
    BY <1>0, <2>1 DEF TypeOK, OneGeneration, NobodyWaitsForAFreePermit, Points
  <2>3. PermitOwner' /\ HolderHasPermit'
    BY <1>0, <2>1 DEF TypeOK, PermitOwner, HolderHasPermit
  <2>4. \A r \in Semaphores : \A k \in 1 .. Len(queue[r]) : queue[r][k] # t
    BY <1>0, <2>1 DEF QueueOfWaiters
  <2>5. QueueOfWaiters'
    BY <1>0, <1>a, <2>1, <2>4 DEF TypeOK, QueueOfWaiters
  <2> QED
    BY <2>2, <2>3, <2>5 DEF IInv
<1> QED
  BY <1>1, <1>2, <1>3, <1>4, <1>5, <1>6, <1>7, <1>8, <1>9, <1>10 DEF Next, Step

\* Every reachable state satisfies the inductive invariant.
THEOREM Invariance == Spec => []IInv
BY InitIInv, NextIInv, PTL DEF Spec

\* A task has an Arc of a semaphore exactly while it is on its way, whoever was
\* handed a permit or gave up.
THEOREM TypeCorrect == Spec => []TypeOK
<1>1. IInv => TypeOK
  BY DEF IInv
<1> QED
  BY <1>1, Invariance, PTL

\* No task is ever stranded on a semaphore that left the map.
THEOREM NobodyStranded == Spec => []OneGeneration
<1>1. IInv => OneGeneration
  BY DEF IInv
<1> QED
  BY <1>1, Invariance, PTL

\* A released permit always goes to a waiter if there is one.
THEOREM NoLostWakeup == Spec => []NobodyWaitsForAFreePermit
<1>1. IInv => NobodyWaitsForAFreePermit
  BY DEF IInv
<1> QED
  BY <1>1, Invariance, PTL

LEMMA IInvExcludes == IInv => MutualExclusion
BY DEF IInv, TypeOK, OneGeneration, HolderHasPermit, MutualExclusion, Holders

\* At most one LockGuard of an upload is alive, across all generations of its
\* semaphore.
THEOREM Exclusion == Spec => []MutualExclusion
BY IInvExcludes, Invariance, PTL

-----------------------------------------------------------------------------
\* An entry that stays has a task with an Arc of it, or a task that has yet to
\* look at it: whoever leaves last through remove_if_idle finds neither another
\* reference nor a permit that is taken, and removes the entry.
THEOREM LastAlwaysReaps == Spec => LastOutReaps
<1>1. ASSUME IInv, [Next]_vars, NEW u \in Tasks, pc[u] = "reap",
             \A v \in Tasks : pc'[v] = "idle"
      PROVE  entry' = None
  <2>1. TypeOK /\ PermitOwner
    BY <1>1 DEF IInv
  <2>2. Reap(u)
    <3>1. PICK t \in Tasks : Entry(t) \/ Step(t) \/ Timeout(t) \/ Cancel(t)
      BY <1>1 DEF Next, vars
    <3>2. \E point \in Points : pc' = [pc EXCEPT ![t] = point]
      BY <3>1 DEF Step, Goto, Points, Entry, Acquire, Enqueue, Wake, TryFail, Timeout,
         Release, DropRef, Reap, Cancel
    <3>3. t = u
      BY <1>1, <2>1, <3>2 DEF TypeOK
    <3> QED
      BY <1>1, <3>1, <3>3 DEF Step, Entry, Acquire, Enqueue, Wake, TryFail, Timeout,
         Release, DropRef, Cancel
  <2>3. \A v \in Tasks : ref[v] = None
    BY <1>1, <2>1, <2>2 DEF TypeOK, Reap, Goto
  <2>4. entry # None => Idle(entry)
    BY <2>1, <2>3, ConstantsAssumption DEF TypeOK, PermitOwner, Idle, Unreferenced
  <2> QED
    BY <2>2, <2>4 DEF Reap
<1>2. IInv /\ [Next]_vars =>
        [(\E t \in Tasks : pc[t] = "reap") /\ (\A t \in Tasks : pc'[t] = "idle")
           => entry' = None]_vars
  BY <1>1
<1> QED
  BY <1>2, Invariance, PTL DEF Spec, LastOutReaps

-----------------------------------------------------------------------------
LEMMA StepRefines == IInv /\ [Next]_vars => [Lock!Next]_Holders
<1> SUFFICES ASSUME IInv, [Next]_vars, Holders' # Holders PROVE Lock!Next
  OBVIOUS
<1> USE ConstantsAssumption
<1>0. TypeOK /\ OneGeneration /\ HolderHasPermit /\ MutualExclusion
  BY IInvExcludes DEF IInv
<1>1. PICK t \in Tasks : Acquire(t) \/ Wake(t) \/ Release(t)
  BY <1>0
  DEF Next, Step, vars, Holders, TypeOK, Goto, Entry, Enqueue, TryFail,
      Timeout, Cancel, DropRef, Reap
<1>2. CASE Acquire(t) \/ Wake(t)
  <2>1. /\ pc[t] # "held" /\ pc' = [pc EXCEPT ![t] = "held"]
        /\ ref[t] = entry /\ permit[entry] \in {None, t}
    BY <1>0, <1>2 DEF Acquire, Wake, Goto, TypeOK, OneGeneration
  <2>2. Holders = {}
    BY <1>0, <2>1 DEF HolderHasPermit, OneGeneration, Holders, TypeOK
  <2>3. Holders' = {t}
    BY <1>0, <2>1, <2>2 DEF Holders, TypeOK
  <2> QED
    BY <2>2, <2>3 DEF Lock!Next, Lock!Acquire
<1>3. CASE Release(t)
  <2>1. pc[t] = "held" /\ pc' = [pc EXCEPT ![t] = "dropping"]
    BY <1>3 DEF Release, Goto
  <2>2. Holders = {t} /\ Holders' = {}
    BY <1>0, <2>1 DEF MutualExclusion, Holders, TypeOK
  <2> QED
    BY <2>2 DEF Lock!Next, Lock!Release
<1> QED
  BY <1>1, <1>2, <1>3

\* MemoryLocker implements the Locker contract: its guards are the contract's.
THEOREM Refinement == Spec => ImplementsLock
<1>1. Init => Lock!Init
  BY DEF Init, Lock!Init, Holders
<1> QED
  BY <1>1, Invariance, StepRefines, PTL DEF Spec, ImplementsLock, Lock!Spec

-----------------------------------------------------------------------------
(* The file locker.  That None is no inode is FileLocker's assumption.     *)

Locking == {"check", "held", "unlock", "probed"}

OwnerHasFile == \A i \in Inodes : flock[i] # None => fd[flock[i]] = i

LockingOwns == \A t \in Tasks : at[t] \in Locking => flock[fd[t]] = t

FileInv == File!TypeOK /\ OwnerHasFile /\ LockingOwns /\ File!HolderOwnsPath

LEMMA FileInit ==
  ASSUME None \notin Inodes
  PROVE  File!Init => FileInv
BY ConstantsAssumption
DEF File!Init, FileInv, File!TypeOK, OwnerHasFile, LockingOwns, File!HolderOwnsPath,
    File!Holders,
    File!Points, File!WithFile, Locking

\* What is left of the invariant's lock part when a task closes its file.
LEMMA CloseFileInv ==
  ASSUME FileInv, NEW t \in Tasks, File!CloseFile(t),
         at' \in [Tasks -> File!Points], at'[t] \in {"idle", "open"},
         \A u \in Tasks : u # t => at'[u] = at[u],
         UNCHANGED path
  PROVE  FileInv'
<1>1. File!TypeOK'
  BY DEF FileInv, File!TypeOK, File!CloseFile, File!WithFile, File!Points
<1>2. OwnerHasFile'
  BY DEF FileInv, File!TypeOK, File!CloseFile, OwnerHasFile
<1>3. LockingOwns'
  <2> SUFFICES ASSUME NEW u \in Tasks, at'[u] \in Locking PROVE flock'[fd'[u]] = u
    BY DEF LockingOwns
  <2>1. u # t /\ at[u] \in Locking /\ fd'[u] = fd[u]
    BY DEF Locking, FileInv, File!TypeOK, File!CloseFile
  <2>2. fd[u] \in Inodes /\ flock[fd[u]] = u
    BY <2>1 DEF FileInv, File!TypeOK, LockingOwns, Locking, File!WithFile
  <2> QED
    BY <2>1, <2>2 DEF File!CloseFile
<1>4. File!HolderOwnsPath'
  <2> SUFFICES ASSUME NEW u \in Tasks, at'[u] = "held"
               PROVE  path' = fd'[u] /\ flock'[path'] = u
    BY DEF File!HolderOwnsPath, File!Holders
  <2>1. u # t /\ at[u] = "held" /\ fd'[u] = fd[u]
    BY DEF FileInv, File!TypeOK, File!CloseFile
  <2>2. fd[u] \in Inodes /\ path = fd[u] /\ flock[path] = u
    BY <2>1 DEF FileInv, File!TypeOK, File!HolderOwnsPath, File!Holders, File!WithFile
  <2> QED
    BY <2>1, <2>2 DEF File!CloseFile
<1> QED
  BY <1>1, <1>2, <1>3, <1>4 DEF FileInv

LEMMA FileNext ==
  ASSUME None \notin Inodes
  PROVE  FileInv /\ [File!Next]_(File!vars) => FileInv'
<1> SUFFICES ASSUME FileInv, [File!Next]_(File!vars) PROVE FileInv'
  OBVIOUS
<1> USE ConstantsAssumption
<1>0. File!TypeOK /\ OwnerHasFile /\ LockingOwns /\ File!HolderOwnsPath
  BY DEF FileInv
<1>1. CASE UNCHANGED File!vars
  BY <1>0, <1>1
  DEF File!vars, FileInv, File!TypeOK, OwnerHasFile, LockingOwns, File!HolderOwnsPath,
      File!Holders
<1>2. ASSUME NEW t \in Tasks, File!Call(t) PROVE FileInv'
  BY <1>0, <1>2
  DEF File!Call, File!Goto, FileInv, File!TypeOK, OwnerHasFile, LockingOwns,
      File!HolderOwnsPath,
      File!Holders, Locking, File!WithFile, File!Points
<1>3. ASSUME NEW t \in Tasks, File!Open(t) PROVE FileInv'
  <2>1. PICK i \in Inodes :
          /\ path' = i /\ fd' = [fd EXCEPT ![t] = i]
          /\ path # None => i = path
    BY <1>0, <1>3 DEF File!Open, File!Unused, File!TypeOK
  <2>2. /\ at[t] = "open" /\ at' = [at EXCEPT ![t] = "flock"]
        /\ flock' = flock /\ fd[t] = None
    BY <1>0, <1>3 DEF File!Open, File!Goto, File!TypeOK, File!WithFile
  <2>3. File!TypeOK'
    BY <1>0, <2>1, <2>2 DEF File!TypeOK, File!WithFile, File!Points
  <2>4. OwnerHasFile'
    BY <1>0, <2>1, <2>2 DEF File!TypeOK, OwnerHasFile
  <2>5. LockingOwns'
    BY <1>0, <2>1, <2>2 DEF File!TypeOK, LockingOwns, Locking
  <2>6. File!HolderOwnsPath'
    BY <1>0, <2>1, <2>2 DEF File!TypeOK, File!HolderOwnsPath, File!Holders, File!WithFile
  <2> QED
    BY <2>3, <2>4, <2>5, <2>6 DEF FileInv
<1>4. ASSUME NEW t \in Tasks, File!Flock(t) PROVE FileInv'
  <2>1. File!TypeOK'
    BY <1>0, <1>4 DEF File!Flock, File!Goto, File!TypeOK, File!WithFile, File!Points
  <2>2. OwnerHasFile'
    BY <1>0, <1>4 DEF File!Flock, File!TypeOK, OwnerHasFile
  <2>3. LockingOwns'
    BY <1>0, <1>4 DEF File!Flock, File!Goto, File!TypeOK, LockingOwns, Locking,
        File!WithFile
  <2>4. File!HolderOwnsPath'
    BY <1>0, <1>4 DEF File!Flock, File!Goto, File!TypeOK, File!HolderOwnsPath,
        File!Holders, File!WithFile
  <2> QED
    BY <2>1, <2>2, <2>3, <2>4 DEF FileInv
<1>5. ASSUME NEW t \in Tasks, File!Blocked(t) PROVE FileInv'
  BY <1>0, <1>5, CloseFileInv DEF File!Blocked, File!Goto, File!TypeOK, File!Points
<1>6. ASSUME NEW t \in Tasks, File!Check(t) PROVE FileInv'
  <2>1. CASE path = fd[t]
    BY <1>0, <1>6, <2>1
    DEF File!Check, File!Goto, FileInv, File!TypeOK, OwnerHasFile, LockingOwns,
        File!HolderOwnsPath,
        File!Holders, Locking, File!WithFile, File!Points
  <2>2. CASE path # fd[t]
    BY <1>0, <1>6, <2>2, CloseFileInv DEF File!Check, File!Goto, File!TypeOK, File!Points
  <2> QED
    BY <2>1, <2>2
<1>7. ASSUME NEW t \in Tasks, File!Unlink(t) PROVE FileInv'
  <2>1. \A u \in Tasks : at[u] = "held" => u = t
    BY <1>0, <1>7 DEF File!Unlink, File!HolderOwnsPath, File!Holders
  <2>2. File!TypeOK' /\ OwnerHasFile' /\ LockingOwns'
    BY <1>0, <1>7
    DEF File!Unlink, File!Goto, File!TypeOK, OwnerHasFile, LockingOwns, Locking,
        File!WithFile, File!Points
  <2>3. File!HolderOwnsPath'
    BY <1>0, <1>7, <2>1 DEF File!Unlink, File!Goto, File!TypeOK, File!HolderOwnsPath,
        File!Holders
  <2> QED
    BY <2>2, <2>3 DEF FileInv
<1>8. ASSUME NEW t \in Tasks, File!Unlock(t) \/ File!ProbeEnd(t) \/ File!Die(t) PROVE FileInv'
  BY <1>0, <1>8, CloseFileInv DEF File!Unlock, File!ProbeEnd, File!Die, File!Goto,
      File!TypeOK, File!Points
<1>9. ASSUME NEW t \in Tasks, File!ProbeOpen(t) PROVE FileInv'
  BY <1>0, <1>9
  DEF File!ProbeOpen, File!Goto, FileInv, File!TypeOK, OwnerHasFile, LockingOwns,
      File!HolderOwnsPath,
      File!Holders, Locking, File!WithFile, File!Points
<1>10. ASSUME NEW t \in Tasks, File!ProbeFlock(t) PROVE FileInv'
  <2>1. CASE flock[fd[t]] = None
    <3>1. File!TypeOK'
      BY <1>0, <1>10, <2>1 DEF File!ProbeFlock, File!Goto, File!TypeOK, File!WithFile,
          File!Points
    <3>2. OwnerHasFile'
      BY <1>0, <1>10, <2>1 DEF File!ProbeFlock, File!TypeOK, OwnerHasFile
    <3>3. LockingOwns'
      BY <1>0, <1>10, <2>1 DEF File!ProbeFlock, File!Goto, File!TypeOK, LockingOwns,
          Locking, File!WithFile
    <3>4. File!HolderOwnsPath'
      BY <1>0, <1>10, <2>1 DEF File!ProbeFlock, File!Goto, File!TypeOK,
          File!HolderOwnsPath, File!Holders, File!WithFile
    <3> QED
      BY <3>1, <3>2, <3>3, <3>4 DEF FileInv
  <2>2. CASE flock[fd[t]] # None
    BY <1>0, <1>10, <2>2, CloseFileInv DEF File!ProbeFlock, File!Goto, File!TypeOK,
        File!Points
  <2> QED
    BY <2>1, <2>2
<1> QED
  BY <1>1, <1>2, <1>3, <1>4, <1>5, <1>6, <1>7, <1>8, <1>9, <1>10 DEF File!Next, File!Step

\* Every reachable state satisfies the inductive invariant.
THEOREM FileInvariance ==
  ASSUME None \notin Inodes
  PROVE  File!Spec => []FileInv
BY FileInit, FileNext, PTL DEF File!Spec

\* A task has a descriptor exactly while it uses the lock file.
THEOREM FileTypeCorrect ==
  ASSUME None \notin Inodes
  PROVE  File!Spec => []File!TypeOK
<1>1. FileInv => File!TypeOK
  BY DEF FileInv
<1> QED
  BY <1>1, FileInvariance, PTL

\* A guard's lock file is never unlinked or replaced behind its back.
THEOREM HolderKeepsPath ==
  ASSUME None \notin Inodes
  PROVE  File!Spec => []File!HolderOwnsPath
<1>1. FileInv => File!HolderOwnsPath
  BY DEF FileInv
<1> QED
  BY <1>1, FileInvariance, PTL

LEMMA FileExcludes == FileInv => File!MutualExclusion
BY DEF FileInv, File!HolderOwnsPath, File!MutualExclusion

\* At most one LockGuard of an upload is alive, whatever contenders do to old
\* and new inodes of the lock file.
THEOREM FileExclusion ==
  ASSUME None \notin Inodes
  PROVE  File!Spec => []File!MutualExclusion
BY FileExcludes, FileInvariance, PTL

-----------------------------------------------------------------------------
LEMMA FileStepRefines == FileInv /\ [File!Next]_(File!vars) => [File!Lock!Next]_(File!Holders)
<1> SUFFICES ASSUME FileInv, [File!Next]_(File!vars), File!Holders' # File!Holders
             PROVE  File!Lock!Next
  OBVIOUS
<1>0. File!TypeOK /\ LockingOwns /\ File!HolderOwnsPath /\ File!MutualExclusion
  BY FileExcludes DEF FileInv
<1>1. PICK t \in Tasks : File!Check(t) \/ File!Unlink(t) \/ File!Die(t)
  BY <1>0
  DEF File!Next, File!Step, File!vars, File!Holders, File!TypeOK, File!Goto, File!Call,
      File!Open, File!Flock, File!Blocked,
      File!Unlock, File!ProbeOpen, File!ProbeFlock, File!ProbeEnd
<1>2. CASE File!Check(t)
  <2>1. at[t] = "check" /\ path = fd[t] /\ flock[path] = t
    BY <1>0, <1>2 DEF File!Check, File!Goto, File!Holders, File!TypeOK, LockingOwns, Locking
  <2>2. File!Holders = {}
    BY <1>0, <2>1 DEF File!HolderOwnsPath, File!Holders
  <2>3. File!Holders' = {t}
    BY <1>0, <1>2, <2>1, <2>2 DEF File!Check, File!Goto, File!Holders, File!TypeOK
  <2> QED
    BY <2>2, <2>3 DEF File!Lock!Next, File!Lock!Acquire
<1>3. CASE File!Unlink(t) \/ File!Die(t)
  <2>1. at[t] = "held" /\ at' \in [Tasks -> File!Points] /\ at'[t] # "held"
          /\ \A u \in Tasks : u # t => at'[u] = at[u]
    BY <1>0, <1>3 DEF File!Unlink, File!Die, File!Goto, File!Holders, File!TypeOK,
        File!Points, File!WithFile
  <2>2. File!Holders = {t} /\ File!Holders' = {}
    BY <1>0, <2>1 DEF File!MutualExclusion, File!Holders
  <2> QED
    BY <2>2 DEF File!Lock!Next, File!Lock!Release
<1> QED
  BY <1>1, <1>2, <1>3

\* FileLocker implements the Locker contract: its guards are the contract's.
THEOREM FileRefinement ==
  ASSUME None \notin Inodes
  PROVE  File!Spec => File!ImplementsLock
<1>1. File!Init => File!Lock!Init
  BY DEF File!Init, File!Lock!Init, File!Holders
<1> QED
  BY <1>1, FileInvariance, FileStepRefines, PTL DEF File!Spec, File!ImplementsLock,
      File!Lock!Spec
=============================================================================
