----------------------- MODULE UploadLifecycleProofs -----------------------
(***************************************************************************)
(* Proofs about UploadLifecycle, for any number of requests and sweepers,  *)
(* any lengths, limits, failures and crashes.  Three inductive invariants, *)
(* each resting on the one before:                                         *)
(*                                                                         *)
(* TypeInv.  TypeOK is not inductive: advancing an offset needs a body to  *)
(* have been sent, adopting a length needs it to be declared.  Local says  *)
(* which locals a process has at each point of its handler.                *)
(*                                                                         *)
(* CInv.  There is one writer (Exclusive: requests by the lock, the        *)
(* creating POST because nobody else knows the upload yet), and a failed   *)
(* creation has undone itself because nothing that could bring the record  *)
(* back is left behind (Clean).  It holds even when breached.              *)
(*                                                                         *)
(* SInv.  Until breached, the store is Sound.  The object is a prefix of   *)
(* the file and the writer stands at its end (Content).  What a handler    *)
(* read under the lock long ago still holds (Steady).  An operation that a *)
(* dropped handler left behind finds what its handler would have found, as *)
(* everybody else is at rest (Quiet, Owed); granting the lock to somebody  *)
(* before it is executed is what breached records.  Nobody deletes the     *)
(* bytes of a creation that has yet to answer (Told).                      *)
(***************************************************************************)
EXTENDS UploadLifecycle, TLAPS

Args == [offset : Nat, size : Nat \cup {NoBody}]

\* The points each handler passes.
Access == {"lock", "load", "detect", "recGate", "recPersist", "recNotify",
           "reconcile", "respond", "done"}
Receiving == {"open", "write", "commit", "gate", "notify"}
Route(k) ==
  CASE k = "none"   -> {"idle"}
    [] k = "post"   -> Creation \cup {"done"}
    [] k = "patch"  -> Access \cup Receiving \cup {"prepare"}
    [] k = "head"   -> Access
    [] k = "get"    -> Access
    [] k = "delete" -> {"lock", "load", "terminate", "delBlob", "delState",
                        "respond", "done"}
    [] OTHER        -> {"idle", "tryLock", "load", "assess", "delBlob", "delState"}

\* The points before the first byte of the body is written.
Early == {"idle", "create", "record", "lock", "tryLock", "load", "detect",
          "recGate", "recPersist", "recNotify", "reconcile", "prepare", "open"}

\* What a process's locals are at each point.
Local(p) ==
  /\ kind[p] \in Kinds
  /\ pc[p] \in Route(kind[p])
  /\ kind[p] = "sweep" <=> p \in Sweepers
  /\ st[p] \in UploadState
  /\ arg[p] \in Args
  /\ sent[p] \in Nat
  /\ reply[p] \in Replies
  /\ pc[p] \in {"open", "write", "commit"} => arg[p].size # NoBody
  /\ pc[p] \in {"recGate", "recPersist"} => st[p].length # Deferred
  /\ pc[p] \in {"create", "record", "open", "write"} => arg[p].offset = st[p].offset
  /\ pc[p] \in Early => sent[p] = 0

StoreOK ==
  /\ hasState \in BOOLEAN
  /\ state \in UploadState
  /\ hasBlob \in BOOLEAN
  /\ bytes \in Seq(Nat)

RestOK ==
  /\ lock \in Procs \cup {NoOne}
  /\ late \in BOOLEAN
  /\ detached \in SUBSET Operations
  /\ known \in BOOLEAN
  /\ acked \in Nat
  /\ doomed \in BOOLEAN
  /\ finished \in Nat
  /\ breached \in BOOLEAN
  /\ faults \in 0 .. MaxFaults
  /\ crashes \in 0 .. MaxCrashes

\* The locals are functions on the processes.
AreFunctions ==
  /\ pc = [p \in Procs |-> pc[p]]
  /\ kind = [p \in Procs |-> kind[p]]
  /\ st = [p \in Procs |-> st[p]]
  /\ arg = [p \in Procs |-> arg[p]]
  /\ sent = [p \in Procs |-> sent[p]]
  /\ reply = [p \in Procs |-> reply[p]]

Locals == AreFunctions /\ \A p \in Procs : Local(p)

TypeInv == StoreOK /\ RestOK /\ Locals

-----------------------------------------------------------------------------
(* The helpers of the handlers.                                            *)

LEMMA FreshType == Fresh \in UploadState /\ NoArg \in Args
BY DEF Fresh, NoArg, UploadState, Args, Deferred, NoBody

LEMMA RouteInPoints == \A k \in Kinds : Route(k) \subseteq Points
BY DEF Route, Kinds, Points, Access, Receiving, Critical, Creation

LEMMA TypeInvType == TypeInv => TypeOK
<1> SUFFICES ASSUME TypeInv PROVE TypeOK
  OBVIOUS
<1>1. \A p \in Procs : pc[p] \in Points
  BY RouteInPoints DEF TypeInv, Locals, Local
<1>2. pc \in [Procs -> Points] /\ kind \in [Procs -> Kinds]
  BY <1>1 DEF TypeInv, Locals, Local, AreFunctions
<1>3. st \in [Procs -> UploadState] /\ arg \in [Procs -> Args]
        /\ sent \in [Procs -> Nat] /\ reply \in [Procs -> Replies]
  BY DEF TypeInv, Locals, Local, AreFunctions
<1> QED
  BY <1>2, <1>3 DEF TypeInv, StoreOK, RestOK, TypeOK, Args

\* A step of p leaves the locals of the others alone.
Frame(p) ==
  /\ pc' = [pc EXCEPT ![p] = pc'[p]]
  /\ kind' = [kind EXCEPT ![p] = kind'[p]]
  /\ st' = [st EXCEPT ![p] = st'[p]]
  /\ arg' = [arg EXCEPT ![p] = arg'[p]]
  /\ sent' = [sent EXCEPT ![p] = sent'[p]]
  /\ reply' = [reply EXCEPT ![p] = reply'[p]]

LEMMA FrameLocals ==
  ASSUME Locals, NEW p \in Procs, Frame(p), Local(p)'
  PROVE  Locals'
<1>1. AreFunctions'
  BY DEF Locals, AreFunctions, Frame
<1>2. ASSUME NEW q \in Procs, q # p PROVE Local(q)'
  <2>1. /\ pc'[q] = pc[q] /\ kind'[q] = kind[q] /\ st'[q] = st[q]
        /\ arg'[q] = arg[q] /\ sent'[q] = sent[q] /\ reply'[q] = reply[q]
    BY <1>2 DEF Frame, Locals, AreFunctions
  <2> QED
    BY <2>1 DEF Locals, Local
<1> QED
  BY <1>1, <1>2 DEF Locals

LEMMA ProceedFrame ==
  ASSUME Locals, NEW p \in Procs, NEW point, NEW s, NEW a, Proceed(p, point, s, a),
         UNCHANGED kind
  PROVE  /\ Frame(p)
         /\ pc'[p] = point /\ st'[p] = s /\ arg'[p] = a
         /\ kind'[p] = kind[p] /\ sent'[p] = sent[p] /\ reply'[p] = reply[p]
         /\ lock' = lock
BY DEF Locals, AreFunctions, Proceed, Goto, Frame

LEMMA ContinueFrame ==
  ASSUME Locals, NEW p \in Procs, NEW point, Continue(p, point), UNCHANGED kind
  PROVE  /\ Frame(p)
         /\ pc'[p] = point /\ st'[p] = st[p] /\ arg'[p] = arg[p]
         /\ kind'[p] = kind[p] /\ sent'[p] = sent[p] /\ reply'[p] = reply[p]
         /\ lock' = lock
BY DEF Locals, AreFunctions, Continue, Goto, Frame

LEMMA EndFrame ==
  ASSUME Locals, NEW p \in Procs, NEW answer, End(p, answer), UNCHANGED kind
  PROVE  /\ Frame(p)
         /\ pc'[p] = (IF p \in Sweepers THEN "idle" ELSE "done")
         /\ st'[p] = Fresh /\ arg'[p] = NoArg /\ sent'[p] = 0
         /\ kind'[p] = kind[p]
         /\ reply'[p] = (IF p \in Sweepers THEN reply[p] ELSE answer)
         /\ lock' = (IF lock = p THEN NoOne ELSE lock)
BY DEF Locals, AreFunctions, End, Goto, Frame

\* What it takes for a step inside a handler to keep the locals right.
LEMMA ProceedLocals ==
  ASSUME Locals, NEW p \in Procs, NEW point, NEW s \in UploadState, NEW a \in Args,
         Proceed(p, point, s, a), UNCHANGED kind,
         point \in Route(kind[p]),
         point \in {"open", "write", "commit"} => a.size # NoBody,
         point \in {"recGate", "recPersist"} => s.length # Deferred,
         point \in {"create", "record", "open", "write"} => a.offset = s.offset,
         point \in Early => sent[p] = 0
  PROVE  Locals' /\ lock' = lock
<1>1. Local(p)'
  BY ProceedFrame DEF Locals, Local
<1> QED
  BY <1>1, ProceedFrame, FrameLocals

LEMMA ContinueLocals ==
  ASSUME Locals, NEW p \in Procs, NEW point, Continue(p, point), UNCHANGED kind,
         point \in Route(kind[p]),
         point \in {"open", "write", "commit"} => arg[p].size # NoBody,
         point \in {"recGate", "recPersist"} => st[p].length # Deferred,
         point \in {"create", "record", "open", "write"} => arg[p].offset = st[p].offset,
         point \in Early => sent[p] = 0
  PROVE  Locals' /\ lock' = lock
<1>1. Local(p)'
  BY ContinueFrame DEF Locals, Local
<1> QED
  BY <1>1, ContinueFrame, FrameLocals

LEMMA EndLocals ==
  ASSUME Locals, NEW p \in Procs, NEW answer \in Replies, End(p, answer),
         UNCHANGED kind, p \in Sweepers \/ pc[p] # "idle"
  PROVE  Locals' /\ lock' = (IF lock = p THEN NoOne ELSE lock)
<1>1. kind[p] \in Kinds /\ kind[p] # "none" /\ (kind[p] = "sweep" <=> p \in Sweepers)
  BY ConstantsAssumption DEF Locals, Local, Route
<1>2. pc'[p] \in Route(kind[p])
  BY <1>1, EndFrame DEF Route, Kinds, Access, Receiving, Creation
<1>3. Local(p)'
  BY <1>1, <1>2, EndFrame, FreshType DEF Locals, Local, Early, Fresh, NoArg
<1> QED
  BY <1>3, EndFrame, FrameLocals

\* An error while receiving bytes.
LEMMA AbortLocals ==
  ASSUME Locals, NEW p \in Procs, NEW answer \in Replies, Abort(p, answer),
         UNCHANGED kind, pc[p] \in Receiving
  PROVE  Locals' /\ (lock' = lock \/ lock' = NoOne)
<1>1. CASE kind[p] = "post"
  <2>1. /\ pc' = [pc EXCEPT ![p] = "undoAll"]
        /\ reply' = [reply EXCEPT ![p] = answer]
        /\ UNCHANGED <<lock, st, arg, sent, kind>>
    BY <1>1 DEF Abort, Creating, Goto
  <2>2. Frame(p) /\ pc'[p] = "undoAll" /\ reply'[p] = answer
    BY <2>1 DEF Locals, AreFunctions, Frame
  <2>3. Local(p)'
    BY <1>1, <2>1, <2>2 DEF Locals, Local, Route, Creation, Early, Kinds
  <2> QED
    BY <2>1, <2>2, <2>3, FrameLocals
<1>2. CASE kind[p] # "post"
  <2>1. End(p, answer) /\ pc[p] # "idle"
    BY <1>2 DEF Abort, Creating, Receiving
  <2> QED
    BY <2>1, EndLocals
<1> QED
  BY <1>1, <1>2

-----------------------------------------------------------------------------
(* Type correctness.                                                       *)

LEMMA EmptyType == << >> \in Seq(Nat)
OBVIOUS

LEMMA CutType ==
  ASSUME StoreOK, NEW n \in Nat
  PROVE  Truncated(n) \in Seq(Nat)
<1>1. \A i \in 1 .. n : (IF i \in DOMAIN bytes THEN bytes[i] ELSE 0) \in Nat
  BY DEF StoreOK
<1>2. [i \in 1 .. n |-> IF i \in DOMAIN bytes THEN bytes[i] ELSE 0] \in Seq(Nat)
  BY <1>1
<1> QED
  BY <1>2 DEF Truncated, StoreOK

LEMMA InitTypeInv == Init => TypeInv
<1> SUFFICES ASSUME Init PROVE TypeInv
  OBVIOUS
<1>1. StoreOK
  BY FreshType, EmptyType DEF Init, StoreOK
<1>2. RestOK
  <2>1. faults \in 0 .. MaxFaults /\ crashes \in 0 .. MaxCrashes
    BY ConstantsAssumption DEF Init
  <2> QED
    BY <2>1 DEF Init, RestOK
<1>3. AreFunctions
  BY DEF Init, AreFunctions
<1>4. ASSUME NEW p \in Procs PROVE Local(p)
  BY FreshType DEF Init, Local, Route, Kinds, Replies, Early, Fresh, NoArg
<1> QED
  BY <1>1, <1>2, <1>3, <1>4 DEF TypeInv, Locals

\* Most steps change one process's locals and the lock, and count faults.
LEMMA HandlerRest ==
  ASSUME RestOK, NEW p \in Procs, lock' \in {lock, NoOne, p},
         UNCHANGED <<late, detached, crashes>>, breached' \in {breached, TRUE},
         UNCHANGED histVars, Ready \/ Fault
  PROVE  RestOK'
<1>1. faults' \in 0 .. MaxFaults
  BY ConstantsAssumption DEF RestOK, Ready, Fault
<1>2. lock' \in Procs \cup {NoOne}
  BY DEF RestOK
<1>3. breached' \in BOOLEAN
  BY DEF RestOK
<1> QED
  BY <1>1, <1>2, <1>3 DEF RestOK, histVars

\* The same for a step that may delete the object.
LEMMA DoomRest ==
  ASSUME RestOK, NEW p \in Procs, lock' \in {lock, NoOne, p}, Ready \/ Fault,
         doomed' \in {doomed, TRUE},
         UNCHANGED <<late, detached, breached, crashes, known, acked, finished>>
  PROVE  RestOK'
<1>1. faults' \in 0 .. MaxFaults
  BY ConstantsAssumption DEF RestOK, Ready, Fault
<1>2. lock' \in Procs \cup {NoOne}
  BY DEF RestOK
<1> QED
  BY <1>1, <1>2 DEF RestOK

LEMMA StateTypes ==
  ASSUME NEW s \in UploadState
  PROVE  /\ s.offset \in Nat /\ s.length \in Nat \cup {Deferred}
         /\ \A n \in Nat : [s EXCEPT !.offset = n] \in UploadState
         /\ \A n \in Nat : [s EXCEPT !.length = n] \in UploadState
         /\ \A n \in Nat : [s EXCEPT !.offset = n].length = s.length
         /\ \A n \in Nat : [s EXCEPT !.length = n].offset = s.offset
BY DEF UploadState

LEMMA LeftoverType ==
  ASSUME StoreOK, NEW r \in Procs, Local(r)
  PROVE  Leftover(r) \subseteq Operations
<1>1. /\ st[r] \in UploadState /\ arg[r] \in Args /\ sent[r] \in Nat
      /\ st[r].offset \in Nat /\ arg[r].offset \in Nat
      /\ arg[r].size \in Nat \cup {NoBody} /\ Size \in Nat
  BY StateTypes DEF Local, Args, StoreOK, Size
<1>2. CASE pc[r] = "write"
  <2>1. [op |-> "truncate", size |-> st[r].offset] \in Operations
    BY <1>1 DEF Operations
  <2>2. \A n \in {sent[r] + 1} \cap 1 .. arg[r].size :
          [op |-> "write", byte |-> arg[r].offset + n] \in Operations
    BY <1>1 DEF Operations
  <2> QED
    BY <1>2, <2>1, <2>2 DEF Leftover, At
<1>3. CASE pc[r] = "commit"
  <2>1. arg[r].size \in Nat
    BY <1>1, <1>3 DEF Local
  <2>2. [st[r] EXCEPT !.offset = @ + arg[r].size] \in UploadState
    BY <1>1, <2>1 DEF UploadState
  <2> QED
    BY <1>3, <2>2 DEF Leftover, At, Operations
<1>4. CASE pc[r] = "recPersist"
  <2>1. [st[r] EXCEPT !.offset = st[r].length] \in UploadState
    BY <1>1, <1>4, StateTypes DEF Local
  <2> QED
    BY <1>4, <2>1 DEF Leftover, At, Operations
<1>5. CASE pc[r] = "reconcile"
  <2>1. [st[r] EXCEPT !.offset = Size] \in UploadState
    BY <1>1, StateTypes
  <2> QED
    BY <1>5, <2>1 DEF Leftover, At, Operations
<1>6. CASE pc[r] \notin {"write", "commit", "recPersist", "reconcile"}
  BY <1>6 DEF Leftover, At, Operations
<1> QED
  BY <1>2, <1>3, <1>4, <1>5, <1>6

LEMMA TypeInvNext == TypeInv /\ [Next]_vars => TypeInv'
<1> SUFFICES ASSUME TypeInv, [Next]_vars PROVE TypeInv'
  OBVIOUS
<1>0. StoreOK /\ RestOK /\ Locals
  BY DEF TypeInv
<1>a. ASSUME NEW p \in Procs PROVE Local(p)
  BY <1>0 DEF Locals
<1>b. "error" \in Replies /\ "ok" \in Replies /\ "rejected" \in Replies /\ "cut" \in Replies
  BY DEF Replies
<1>1. CASE UNCHANGED vars
  BY <1>0, <1>1
  DEF vars, storeVars, procVars, histVars, TypeInv, StoreOK, RestOK, Locals,
      AreFunctions, Local
<1>2. ASSUME NEW r \in Requests, Post(r) PROVE TypeInv'
  <2>1. r \in Procs /\ StoreOK' /\ pc[r] = "idle" /\ kind' = [kind EXCEPT ![r] = "post"]
    BY <1>0, <1>2 DEF Post, Procs, At, KeepStores, storeVars, StoreOK
  <2>2. r \notin Sweepers /\ Local(r)
    BY <1>a, <2>1, ConstantsAssumption
  <2>3. CASE End(r, "error")
    <3>1. /\ Frame(r) /\ pc'[r] = "done" /\ kind'[r] = "post" /\ st'[r] = Fresh
          /\ arg'[r] = NoArg /\ sent'[r] = 0 /\ reply'[r] = "error"
          /\ lock' \in {lock, NoOne}
      BY <1>0, <2>1, <2>2, <2>3 DEF Locals, AreFunctions, End, Goto, Frame
    <3>2. Local(r)'
      BY <1>b, <2>2, <3>1, FreshType DEF Local, Route, Kinds, Early, Fresh, NoArg
    <3>3. RestOK'
      BY <1>0, <1>2, <3>1, <2>1, HandlerRest DEF Post, KeepEnv, KeepHist
    <3> QED
      BY <1>0, <2>1, <3>1, <3>2, <3>3, FrameLocals DEF TypeInv
  <2>4. CASE ~End(r, "error")
    <3>1. PICK length \in Lengths \cup {Deferred}, size \in BodySizes \cup {NoBody},
               partial \in BOOLEAN :
            Proceed(r, "create", [offset |-> 0, length |-> length, partial |-> partial],
                    [offset |-> 0, size |-> size])
      BY <1>2, <2>4 DEF Post
    <3>2. /\ Frame(r) /\ pc'[r] = "create" /\ kind'[r] = "post"
          /\ st'[r] = [offset |-> 0, length |-> length, partial |-> partial]
          /\ arg'[r] = [offset |-> 0, size |-> size]
          /\ sent'[r] = sent[r] /\ reply'[r] = reply[r] /\ lock' = lock
      BY <1>0, <2>1, <3>1 DEF Locals, AreFunctions, Proceed, Goto, Frame
    <3>3. st'[r] \in UploadState /\ arg'[r] \in Args /\ sent[r] = 0
      BY <2>1, <2>2, <3>2, ConstantsAssumption DEF UploadState, Args, Local, Early
    <3>4. Local(r)'
      BY <2>2, <3>2, <3>3 DEF Local, Route, Kinds, Creation, Early
    <3>5. RestOK'
      BY <1>0, <1>2, <3>2, <2>1, HandlerRest DEF Post, KeepEnv, KeepHist
    <3> QED
      BY <1>0, <2>1, <3>2, <3>4, <3>5, FrameLocals DEF TypeInv
  <2> QED
    BY <2>3, <2>4
<1>3. ASSUME NEW r \in Requests, Arrive(r) PROVE TypeInv'
  <2>1. r \in Procs /\ StoreOK' /\ pc[r] = "idle"
    BY <1>0, <1>3 DEF Arrive, Procs, At, KeepStores, storeVars, StoreOK
  <2>2. r \notin Sweepers /\ Local(r)
    BY <1>a, <2>1, ConstantsAssumption
  <2>3. PICK k \in {"patch", "head", "get", "delete"} : kind' = [kind EXCEPT ![r] = k]
    BY <1>3 DEF Arrive
  <2>4. CASE End(r, "error")
    <3>1. /\ Frame(r) /\ pc'[r] = "done" /\ kind'[r] = k /\ st'[r] = Fresh
          /\ arg'[r] = NoArg /\ sent'[r] = 0 /\ reply'[r] = "error"
          /\ lock' \in {lock, NoOne}
      BY <1>0, <2>1, <2>2, <2>3, <2>4 DEF Locals, AreFunctions, End, Goto, Frame
    <3>2. Local(r)'
      BY <1>b, <2>2, <3>1, FreshType DEF Local, Route, Access, Kinds, Early, Fresh, NoArg
    <3>3. RestOK'
      BY <1>0, <1>3, <3>1, <2>1, HandlerRest DEF Arrive, KeepEnv, KeepHist
    <3> QED
      BY <1>0, <2>1, <3>1, <3>2, <3>3, FrameLocals DEF TypeInv
  <2>5. CASE Continue(r, "lock")
    <3>1. /\ Frame(r) /\ pc'[r] = "lock" /\ kind'[r] = k /\ st'[r] = st[r]
          /\ arg'[r] = arg[r] /\ sent'[r] = sent[r] /\ reply'[r] = reply[r]
          /\ lock' = lock
      BY <1>0, <2>1, <2>3, <2>5 DEF Locals, AreFunctions, Continue, Goto, Frame
    <3>2. Local(r)'
      BY <2>1, <2>2, <3>1 DEF Local, Route, Access, Kinds, Early
    <3>3. RestOK'
      BY <1>0, <1>3, <3>1, <2>1, HandlerRest DEF Arrive, KeepEnv, KeepHist
    <3> QED
      BY <1>0, <2>1, <3>1, <3>2, <3>3, FrameLocals DEF TypeInv
  <2> QED
    BY <1>3, <2>4, <2>5 DEF Arrive
<1>4. ASSUME NEW p \in Procs, StorageCreate(p) PROVE TypeInv'
  <2>0. StoreOK'
    <3>1. hasBlob' \in BOOLEAN /\ bytes' = << >> /\ hasState' = hasState /\ state' = state
      BY <1>4 DEF StorageCreate, KeepState
    <3> QED
      BY <1>0, <3>1, EmptyType DEF StoreOK
  <2>1. StoreOK' /\ UNCHANGED kind /\ pc[p] = "create" /\ kind[p] = "post" /\ sent[p] = 0
    BY <1>a, <1>4, <2>0 DEF StorageCreate, At, Local, Route, Access, Receiving, Kinds, Early
  <2>2. Locals' /\ lock' \in {lock, NoOne}
    <3>1. CASE Continue(p, "record")
      BY <1>0, <1>a, <2>1, <3>1, ContinueLocals DEF Route, Creation, Local
    <3>2. CASE End(p, "error")
      BY <1>0, <1>b, <2>1, <3>2, EndLocals
    <3> QED
      BY <1>4, <3>1, <3>2 DEF StorageCreate
  <2>3. RestOK'
    BY <1>0, <1>4, <2>2, HandlerRest DEF StorageCreate, KeepEnv, KeepHist
  <2> QED
    BY <2>1, <2>2, <2>3 DEF TypeInv
<1>5. ASSUME NEW p \in Procs, RecordNew(p) PROVE TypeInv'
  <2>1. /\ StoreOK' /\ UNCHANGED kind /\ pc[p] = "record" /\ kind[p] = "post"
        /\ sent[p] = 0 /\ arg[p].offset = st[p].offset
    BY <1>0, <1>a, <1>5 DEF RecordNew, At, KeepState, KeepBlob, Update, StoreOK, Local, Route,
       Access, Receiving, Kinds, Early
  <2>2. Locals' /\ lock' \in {lock, NoOne}
    <3>1. CASE Continue(p, "open") /\ arg[p].size # NoBody
      BY <1>0, <2>1, <3>1, ContinueLocals DEF Route, Creation
    <3>2. CASE Continue(p, "gate")
      BY <1>0, <2>1, <3>2, ContinueLocals DEF Route, Creation, Early
    <3>3. CASE Continue(p, "respond")
      BY <1>0, <2>1, <3>3, ContinueLocals DEF Route, Creation, Early
    <3>4. CASE Continue(p, "undoBlob")
      BY <1>0, <2>1, <3>4, ContinueLocals DEF Route, Creation, Early
    <3> QED
      BY <1>5, <3>1, <3>2, <3>3, <3>4 DEF RecordNew
  <2>3. RestOK'
    BY <1>0, <1>5, <2>2, HandlerRest DEF RecordNew, KeepEnv, KeepHist
  <2> QED
    BY <2>1, <2>2, <2>3 DEF TypeInv
<1>6. ASSUME NEW p \in Procs, UndoBlob(p) PROVE TypeInv'
  <2>0. /\ bytes' \in {bytes, << >>} /\ hasBlob' \in {hasBlob, FALSE}
        /\ doomed' \in {doomed, TRUE} /\ (Ready \/ Fault)
        /\ hasState' = hasState /\ state' = state
    BY <1>6 DEF UndoBlob, KeepState, KeepBlob
  <2>a. StoreOK'
    BY <1>0, <2>0, EmptyType DEF StoreOK
  <2>1. /\ StoreOK' /\ UNCHANGED kind /\ pc[p] \in {"undoBlob", "undoAll"} /\ kind[p] = "post"
    BY <1>a, <1>6, <2>a DEF UndoBlob, At, Local, Route, Access, Receiving, Kinds
  <2>2. Locals' /\ lock' \in {lock, NoOne}
    <3>1. CASE Continue(p, "undoState")
      BY <1>0, <2>1, <3>1, ContinueLocals DEF Route, Creation, Early
    <3>2. CASE End(p, "error")
      BY <1>0, <1>b, <2>1, <3>2, EndLocals
    <3> QED
      BY <1>6, <3>1, <3>2 DEF UndoBlob
  <2>3. RestOK'
    <3>1. UNCHANGED <<late, detached, breached, crashes, known, acked, finished>>
      BY <1>6 DEF UndoBlob, KeepEnv
    <3> QED
      BY <1>0, <2>0, <2>2, <3>1, DoomRest
  <2> QED
    BY <2>1, <2>2, <2>3 DEF TypeInv
<1>7. ASSUME NEW p \in Procs, UndoState(p) PROVE TypeInv'
  <2>1. /\ StoreOK' /\ UNCHANGED kind /\ pc[p] # "idle" /\ reply[p] \in Replies
    BY <1>0, <1>a, <1>7 DEF UndoState, At, KeepBlob, StoreOK, Local
  <2>2. Locals' /\ lock' \in {lock, NoOne}
    BY <1>0, <1>7, <2>1, EndLocals DEF UndoState
  <2>3. RestOK'
    BY <1>0, <1>7, <2>2, HandlerRest DEF UndoState, KeepEnv, KeepHist
  <2> QED
    BY <2>1, <2>2, <2>3 DEF TypeInv
<1>8. ASSUME NEW p \in Procs, Lock(p) PROVE TypeInv'
  <2>0. breached' \in {breached, TRUE}
    BY <1>0, <1>8 DEF Lock, Acquire, RestOK
  <2>1. StoreOK' /\ UNCHANGED kind /\ pc[p] = "lock" /\ Local(p)
    BY <1>0, <1>a, <1>8 DEF Lock, At, KeepStores, storeVars, StoreOK
  <2>2. CASE End(p, "error")
    <3>1. Locals' /\ lock' \in {lock, NoOne}
      BY <1>0, <1>b, <2>1, <2>2, EndLocals
    <3>2. RestOK'
      BY <1>0, <1>8, <2>0, <3>1, HandlerRest DEF Lock, KeepHist
    <3> QED
      BY <2>1, <3>1, <3>2 DEF TypeInv
  <2>3. CASE ~End(p, "error")
    <3>1. lock' = p /\ pc' = [pc EXCEPT ![p] = "load"] /\ UNCHANGED <<reply, st, arg, sent>>
      BY <1>8, <2>3 DEF Lock, Acquire, Goto
    <3>2. Frame(p) /\ pc'[p] = "load"
      BY <1>0, <2>1, <3>1 DEF Locals, AreFunctions, Frame
    <3>3. Local(p)'
      BY <2>1, <3>1, <3>2 DEF Local, Route, Access, Receiving, Creation, Kinds, Early
    <3>4. RestOK'
      BY <1>0, <1>8, <2>0, <3>1, HandlerRest DEF Lock, KeepHist
    <3> QED
      BY <1>0, <2>1, <3>2, <3>3, <3>4, FrameLocals DEF TypeInv
  <2> QED
    BY <2>2, <2>3
<1>9. ASSUME NEW p \in Procs, TryLock(p) PROVE TypeInv'
  <2>0. breached' \in {breached, TRUE}
    BY <1>0, <1>9 DEF TryLock, Acquire, RestOK
  <2>1. StoreOK' /\ UNCHANGED kind /\ pc[p] = "tryLock" /\ Local(p)
    BY <1>0, <1>a, <1>9 DEF TryLock, At, KeepStores, storeVars, StoreOK
  <2>2. CASE End(p, "error")
    <3>1. Locals' /\ lock' \in {lock, NoOne}
      BY <1>0, <1>b, <2>1, <2>2, EndLocals
    <3>2. RestOK'
      BY <1>0, <1>9, <2>0, <3>1, HandlerRest DEF TryLock, KeepHist
    <3> QED
      BY <2>1, <3>1, <3>2 DEF TypeInv
  <2>3. CASE ~End(p, "error")
    <3>1. lock' = p /\ pc' = [pc EXCEPT ![p] = "load"] /\ UNCHANGED <<reply, st, arg, sent>>
      BY <1>9, <2>3 DEF TryLock, Acquire, Goto
    <3>2. Frame(p) /\ pc'[p] = "load"
      BY <1>0, <2>1, <3>1 DEF Locals, AreFunctions, Frame
    <3>3. Local(p)'
      BY <2>1, <3>1, <3>2 DEF Local, Route, Access, Receiving, Creation, Kinds, Early
    <3>4. RestOK'
      BY <1>0, <1>9, <2>0, <3>1, HandlerRest DEF TryLock, KeepHist
    <3> QED
      BY <1>0, <2>1, <3>2, <3>3, <3>4, FrameLocals DEF TypeInv
  <2> QED
    BY <2>2, <2>3
<1>10. ASSUME NEW p \in Procs, Load(p) PROVE TypeInv'
  <2>1. StoreOK' /\ UNCHANGED kind /\ pc[p] = "load" /\ Local(p) /\ state \in UploadState
    BY <1>0, <1>a, <1>10 DEF Load, At, KeepStores, storeVars, StoreOK
  <2>2. Locals' /\ lock' \in {lock, NoOne}
    <3>0. sent[p] = 0 /\ arg[p] \in Args
      BY <2>1 DEF Local, Early
    <3>1. CASE End(p, "error")
      BY <1>0, <1>b, <2>1, <3>1, EndLocals
    <3>2. CASE kind[p] = "sweep" /\ ContinueWith(p, "assess", state)
      BY <1>0, <2>1, <3>0, <3>2, ProceedLocals DEF ContinueWith, Route, Early
    <3>3. CASE kind[p] = "delete" /\ ContinueWith(p, "terminate", state)
      BY <1>0, <2>1, <3>0, <3>3, ProceedLocals DEF ContinueWith, Route, Early
    <3>4. CASE kind[p] \notin {"sweep", "delete"} /\ ContinueWith(p, "detect", state)
      <4>1. "detect" \in Route(kind[p])
        BY <2>1, <3>4 DEF Local, Route, Access, Creation, Kinds
      <4> QED
        BY <1>0, <2>1, <3>0, <3>4, <4>1, ProceedLocals DEF ContinueWith
    <3> QED
      BY <1>10, <3>1, <3>2, <3>3, <3>4 DEF Load
  <2>3. RestOK'
    BY <1>0, <1>10, <2>2, HandlerRest DEF Load, KeepEnv, KeepHist
  <2> QED
    BY <2>1, <2>2, <2>3 DEF TypeInv
<1>11. ASSUME NEW p \in Procs, Detect(p) PROVE TypeInv'
  <2>1. StoreOK' /\ UNCHANGED kind /\ pc[p] = "detect" /\ Local(p)
    BY <1>0, <1>a, <1>11 DEF Detect, At, KeepStores, storeVars, StoreOK
  <2>2. /\ sent[p] = 0 /\ "recGate" \in Route(kind[p]) /\ "reconcile" \in Route(kind[p])
    BY <2>1 DEF Local, Early, Route, Access, Creation, Kinds
  <2>3. Locals' /\ lock' \in {lock, NoOne}
    <3>1. CASE End(p, "error")
      BY <1>0, <1>b, <2>1, <3>1, EndLocals
    <3>2. CASE StoredCompletion(st[p]) /\ Continue(p, "recGate")
      BY <1>0, <2>1, <2>2, <3>2, ContinueLocals DEF StoredCompletion, Recoverable
    <3>3. CASE Continue(p, "reconcile")
      BY <1>0, <2>1, <2>2, <3>3, ContinueLocals
    <3> QED
      BY <1>11, <3>1, <3>2, <3>3 DEF Detect
  <2>4. RestOK'
    BY <1>0, <1>11, <2>3, HandlerRest DEF Detect, KeepEnv, KeepHist
  <2> QED
    BY <2>1, <2>3, <2>4 DEF TypeInv
<1>12. ASSUME NEW p \in Procs, RecoverGate(p) PROVE TypeInv'
  <2>1. StoreOK' /\ UNCHANGED kind /\ pc[p] = "recGate" /\ Local(p)
    BY <1>0, <1>a, <1>12 DEF RecoverGate, At, KeepStores, storeVars, StoreOK
  <2>2. /\ sent[p] = 0 /\ "recPersist" \in Route(kind[p]) /\ st[p].length # Deferred
    BY <2>1 DEF Local, Early, Route, Access, Creation, Kinds
  <2>3. Locals' /\ lock' \in {lock, NoOne}
    <3>1. CASE End(p, "rejected")
      BY <1>0, <1>b, <2>1, <3>1, EndLocals
    <3>2. CASE Continue(p, "recPersist")
      BY <1>0, <2>1, <2>2, <3>2, ContinueLocals
    <3> QED
      BY <1>12, <3>1, <3>2 DEF RecoverGate
  <2>4. RestOK'
    BY <1>0, <1>12, <2>3, HandlerRest DEF RecoverGate, KeepEnv, KeepHist
  <2> QED
    BY <2>1, <2>3, <2>4 DEF TypeInv
<1>13. ASSUME NEW p \in Procs, RecoverPersist(p) PROVE TypeInv'
  <2> DEFINE s == [st[p] EXCEPT !.offset = st[p].length]
  <2>1. UNCHANGED kind /\ pc[p] = "recPersist" /\ Local(p)
    BY <1>a, <1>13 DEF RecoverPersist, At
  <2>2. /\ sent[p] = 0 /\ "recNotify" \in Route(kind[p]) /\ s \in UploadState
        /\ arg[p] \in Args
    BY <2>1, StateTypes DEF Local, Early, Route, Access, Creation, Kinds
  <2>3. StoreOK'
    BY <1>0, <1>13, <2>2 DEF RecoverPersist, Update, KeepState, KeepBlob, StoreOK
  <2>4. Locals' /\ lock' \in {lock, NoOne}
    <3>1. CASE End(p, "error")
      BY <1>0, <1>b, <2>1, <3>1, EndLocals
    <3>2. CASE ContinueWith(p, "recNotify", s)
      BY <1>0, <2>1, <2>2, <3>2, ProceedLocals DEF ContinueWith
    <3> QED
      BY <1>13, <3>1, <3>2 DEF RecoverPersist
  <2>5. RestOK'
    BY <1>0, <1>13, <2>4, HandlerRest DEF RecoverPersist, KeepEnv, KeepHist
  <2> QED
    BY <2>3, <2>4, <2>5 DEF TypeInv
<1>14. ASSUME NEW p \in Procs, RecoverNotify(p) PROVE TypeInv'
  <2>1. StoreOK' /\ UNCHANGED kind /\ pc[p] = "recNotify" /\ Local(p)
    BY <1>0, <1>a, <1>14 DEF RecoverNotify, At, KeepStores, storeVars, StoreOK
  <2>2. "reconcile" \in Route(kind[p]) /\ ("reconcile" \in Early => sent[p] = 0)
    BY <2>1 DEF Local, Early, Route, Access, Receiving, Creation, Kinds
  <2>3. Locals' /\ lock' = lock
    BY <1>0, <1>14, <2>1, <2>2, ContinueLocals DEF RecoverNotify
  <2>4. RestOK'
    BY <1>0, <1>14, <2>3 DEF RecoverNotify, KeepEnv, RestOK, Ready
  <2> QED
    BY <2>1, <2>3, <2>4 DEF TypeInv
<1>15. ASSUME NEW p \in Procs, FinishNotify(p) PROVE TypeInv'
  <2>1. StoreOK' /\ UNCHANGED kind /\ pc[p] = "notify" /\ Local(p)
    BY <1>0, <1>a, <1>15 DEF FinishNotify, At, KeepStores, storeVars, StoreOK
  <2>2. "respond" \in Route(kind[p]) /\ ("respond" \in Early => sent[p] = 0)
    BY <2>1 DEF Local, Early, Route, Access, Receiving, Creation, Kinds
  <2>3. Locals' /\ lock' = lock
    BY <1>0, <1>15, <2>1, <2>2, ContinueLocals DEF FinishNotify
  <2>4. RestOK'
    BY <1>0, <1>15, <2>3 DEF FinishNotify, KeepEnv, RestOK, Ready
  <2> QED
    BY <2>1, <2>3, <2>4 DEF TypeInv
<1>16. ASSUME NEW p \in Procs, Reconcile(p) PROVE TypeInv'
  <2> DEFINE s == [st[p] EXCEPT !.offset = Size]
  <2>1. UNCHANGED kind /\ pc[p] = "reconcile" /\ Local(p)
    BY <1>a, <1>16 DEF Reconcile, At
  <2>2. /\ sent[p] = 0 /\ "respond" \in Route(kind[p])
        /\ kind[p] = "patch" => "prepare" \in Route(kind[p])
        /\ s \in UploadState /\ st[p] \in UploadState /\ arg[p] \in Args
    BY <1>0, <2>1, StateTypes DEF Local, Early, Route, Access, Creation, Kinds, Size, StoreOK
  <2>3. StoreOK'
    BY <1>0, <1>16, <2>2 DEF Reconcile, Update, KeepState, KeepBlob, StoreOK
  <2>4. Locals' /\ lock' \in {lock, NoOne}
    <3>1. CASE End(p, "error")
      BY <1>0, <1>b, <2>1, <3>1, EndLocals
    <3>2. ASSUME NEW v \in UploadState, AfterAccess(p, v) PROVE Locals' /\ lock' \in {lock, NoOne}
      <4>1. CASE End(p, "error")
        BY <1>0, <1>b, <2>1, <4>1, EndLocals
      <4>2. CASE ContinueWith(p, "prepare", v) /\ kind[p] = "patch"
        BY <1>0, <2>1, <2>2, <4>2, ProceedLocals DEF ContinueWith
      <4>3. CASE ContinueWith(p, "respond", v)
        BY <1>0, <2>1, <2>2, <4>3, ProceedLocals DEF ContinueWith
      <4> QED
        BY <3>2, <4>1, <4>2, <4>3 DEF AfterAccess
    <3> QED
      BY <1>16, <2>2, <3>1, <3>2 DEF Reconcile
  <2>5. RestOK'
    BY <1>0, <1>16, <2>4, HandlerRest DEF Reconcile, KeepEnv, KeepHist
  <2> QED
    BY <2>3, <2>4, <2>5 DEF TypeInv
<1>17. ASSUME NEW p \in Procs, Prepare(p) PROVE TypeInv'
  <2>1. StoreOK' /\ UNCHANGED kind /\ pc[p] = "prepare" /\ Local(p)
    BY <1>0, <1>a, <1>17 DEF Prepare, At, KeepStores, storeVars, StoreOK
  <2>2. kind[p] = "patch" /\ "open" \in Route(kind[p]) /\ sent[p] = 0 /\ st[p] \in UploadState
    BY <2>1 DEF Local, Early, Route, Access, Receiving, Creation, Kinds
  <2>3. Locals' /\ lock' \in {lock, NoOne}
    <3>1. CASE End(p, "error")
      BY <1>0, <1>b, <2>1, <3>1, EndLocals
    <3>2. CASE ~End(p, "error")
      <4>1. PICK offset \in 0 .. MaxSize, length \in Lengths \cup {Deferred}, size \in BodySizes :
              /\ offset = st[p].offset
              /\ Proceed(p, "open", WithLength(st[p], length), [offset |-> offset, size |-> size])
        BY <1>17, <3>2 DEF Prepare, Receivable
      <4>2. WithLength(st[p], length) \in UploadState
              /\ WithLength(st[p], length).offset = st[p].offset
        BY <2>2, StateTypes, ConstantsAssumption DEF WithLength
      <4>3. /\ [offset |-> offset, size |-> size] \in Args
            /\ [offset |-> offset, size |-> size].size # NoBody
        BY <2>2, <4>1, StateTypes, ConstantsAssumption DEF Args, NoBody
      <4> QED
        BY <1>0, <2>1, <2>2, <4>1, <4>2, <4>3, ProceedLocals
    <3> QED
      BY <3>1, <3>2
  <2>4. RestOK'
    BY <1>0, <1>17, <2>3, HandlerRest DEF Prepare, KeepEnv, KeepHist
  <2> QED
    BY <2>1, <2>3, <2>4 DEF TypeInv
<1>18. ASSUME NEW p \in Procs, Open(p) PROVE TypeInv'
  <2>1. StoreOK' /\ UNCHANGED kind /\ pc[p] = "open" /\ Local(p)
    BY <1>0, <1>a, <1>18 DEF Open, At, KeepStores, storeVars, StoreOK
  <2>2. "write" \in Route(kind[p]) /\ arg[p].size # NoBody /\ arg[p].offset = st[p].offset
    BY <2>1 DEF Local, Route, Access, Receiving, Creation, Kinds
  <2>3. Locals' /\ lock' \in {lock, NoOne}
    <3>1. CASE Abort(p, "error")
      BY <1>0, <1>b, <2>1, <3>1, AbortLocals DEF Receiving
    <3>2. CASE Continue(p, "write")
      BY <1>0, <2>1, <2>2, <3>2, ContinueLocals DEF Early
    <3> QED
      BY <1>18, <3>1, <3>2 DEF Open
  <2>4. RestOK'
    BY <1>0, <1>18, <2>3, HandlerRest DEF Open, KeepEnv, KeepHist
  <2> QED
    BY <2>1, <2>3, <2>4 DEF TypeInv
<1>19. ASSUME NEW p \in Procs, WriteChunk(p) PROVE TypeInv'
  <2>1. pc[p] = "write" /\ Local(p) /\ arg[p].offset + sent[p] + 1 \in Nat
    BY <1>a, <1>19 DEF WriteChunk, At, Local, Args
  <2>2. StoreOK'
    BY <1>0, <1>19, <2>1 DEF WriteChunk, Appended, KeepState, StoreOK
  <2>3. Frame(p) /\ sent'[p] = sent[p] + 1 /\ UNCHANGED <<lock, pc, kind, st, arg, reply>>
    BY <1>0, <1>19 DEF WriteChunk, Locals, AreFunctions, Frame
  <2>4. Local(p)'
    BY <2>1, <2>3 DEF Local, Early
  <2>5. RestOK'
    BY <1>0, <1>19, <2>3, HandlerRest DEF WriteChunk, KeepEnv, KeepHist
  <2> QED
    BY <1>0, <2>2, <2>3, <2>4, <2>5, FrameLocals DEF TypeInv
<1>20. ASSUME NEW p \in Procs, StreamError(p) PROVE TypeInv'
  <2>1. UNCHANGED kind /\ pc[p] = "write" /\ st[p].offset \in Nat
    BY <1>a, <1>20, StateTypes DEF StreamError, At, Local
  <2>2. Truncated(st[p].offset) \in Seq(Nat)
    BY <1>0, <2>1, CutType
  <2>3. StoreOK'
    BY <1>0, <1>20, <2>2 DEF StreamError, KeepState, StoreOK
  <2>4. Locals' /\ lock' \in {lock, NoOne}
    BY <1>0, <1>b, <1>20, <2>1, AbortLocals DEF StreamError, Receiving
  <2>5. RestOK'
    BY <1>0, <1>20, <2>4, HandlerRest DEF StreamError, KeepEnv, KeepHist
  <2> QED
    BY <2>3, <2>4, <2>5 DEF TypeInv
<1>21. ASSUME NEW p \in Procs, Sync(p) PROVE TypeInv'
  <2>1. StoreOK' /\ UNCHANGED kind /\ pc[p] = "write" /\ Local(p)
    BY <1>0, <1>a, <1>21 DEF Sync, At, KeepStores, storeVars, StoreOK
  <2>2. "commit" \in Route(kind[p]) /\ arg[p].size # NoBody
    BY <2>1 DEF Local, Route, Access, Receiving, Creation, Kinds
  <2>3. Locals' /\ lock' \in {lock, NoOne}
    <3>1. CASE Abort(p, "error")
      BY <1>0, <1>b, <2>1, <3>1, AbortLocals DEF Receiving
    <3>2. CASE Continue(p, "commit")
      BY <1>0, <2>1, <2>2, <3>2, ContinueLocals DEF Early
    <3> QED
      BY <1>21, <3>1, <3>2 DEF Sync
  <2>4. RestOK'
    BY <1>0, <1>21, <2>3, HandlerRest DEF Sync, KeepEnv, KeepHist
  <2> QED
    BY <2>1, <2>3, <2>4 DEF TypeInv
<1>22. ASSUME NEW p \in Procs, Commit(p) PROVE TypeInv'
  <2> DEFINE s == [st[p] EXCEPT !.offset = @ + arg[p].size]
  <2>1. UNCHANGED kind /\ pc[p] = "commit" /\ Local(p)
    BY <1>a, <1>22 DEF Commit, At
  <2>2. /\ arg[p].size \in Nat /\ arg[p] \in Args
        /\ "gate" \in Route(kind[p]) /\ "respond" \in Route(kind[p])
    BY <2>1 DEF Local, Args, Route, Access, Receiving, Creation, Kinds
  <2>3. s \in UploadState
    BY <2>1, <2>2 DEF Local, UploadState
  <2>4. StoreOK'
    BY <1>0, <1>22, <2>3 DEF Commit, Update, KeepState, KeepBlob, StoreOK
  <2>5. Locals' /\ lock' \in {lock, NoOne}
    <3>1. CASE Abort(p, "error")
      BY <1>0, <1>b, <2>1, <3>1, AbortLocals DEF Receiving
    <3>2. CASE ContinueWith(p, "gate", s)
      BY <1>0, <2>1, <2>2, <2>3, <3>2, ProceedLocals DEF ContinueWith, Early
    <3>3. CASE ContinueWith(p, "respond", s)
      BY <1>0, <2>1, <2>2, <2>3, <3>3, ProceedLocals DEF ContinueWith, Early
    <3> QED
      BY <1>22, <3>1, <3>2, <3>3 DEF Commit
  <2>6. RestOK'
    BY <1>0, <1>22, <2>5, HandlerRest DEF Commit, KeepEnv, KeepHist
  <2> QED
    BY <2>4, <2>5, <2>6 DEF TypeInv
<1>23. ASSUME NEW p \in Procs, FinishGate(p) PROVE TypeInv'
  <2>1. StoreOK' /\ UNCHANGED kind /\ pc[p] = "gate" /\ Local(p)
    BY <1>0, <1>a, <1>23 DEF FinishGate, At, KeepStores, storeVars, StoreOK
  <2>2. "notify" \in Route(kind[p])
    BY <2>1 DEF Local, Route, Access, Receiving, Creation, Kinds
  <2>3. Locals' /\ lock' \in {lock, NoOne}
    <3>1. CASE Abort(p, "rejected")
      BY <1>0, <1>b, <2>1, <3>1, AbortLocals DEF Receiving
    <3>2. CASE Continue(p, "notify")
      BY <1>0, <2>1, <2>2, <3>2, ContinueLocals DEF Early
    <3> QED
      BY <1>23, <3>1, <3>2 DEF FinishGate
  <2>4. RestOK'
    BY <1>0, <1>23, <2>3, HandlerRest DEF FinishGate, KeepEnv, KeepHist
  <2> QED
    BY <2>1, <2>3, <2>4 DEF TypeInv
<1>24. ASSUME NEW p \in Procs, Respond(p) PROVE TypeInv'
  <2>1. StoreOK' /\ UNCHANGED kind /\ pc[p] = "respond" /\ Local(p)
    BY <1>0, <1>a, <1>24 DEF Respond, At, KeepStores, storeVars, StoreOK
  <2>2. Locals' /\ lock' \in {lock, NoOne}
    BY <1>0, <1>b, <1>24, <2>1, EndLocals DEF Respond
  <2>3. st[p].offset \in Nat
    BY <2>1, StateTypes DEF Local
  <2>4. acked' \in Nat /\ known' \in BOOLEAN
    BY <1>0, <1>24, <2>3 DEF Respond, RestOK, Creating
  <2>5. faults' \in 0 .. MaxFaults
    BY <1>0, <1>24, ConstantsAssumption DEF Respond, RestOK, Ready, Fault
  <2>6. RestOK'
    BY <1>0, <1>24, <2>2, <2>4, <2>5 DEF Respond, KeepEnv, RestOK
  <2> QED
    BY <2>1, <2>2, <2>6 DEF TypeInv
<1>25. ASSUME NEW p \in Procs, PreTerminate(p) PROVE TypeInv'
  <2>1. StoreOK' /\ UNCHANGED kind /\ pc[p] = "terminate" /\ Local(p)
    BY <1>0, <1>a, <1>25 DEF PreTerminate, At, KeepStores, storeVars, StoreOK
  <2>2. "delBlob" \in Route(kind[p])
    BY <2>1 DEF Local, Route, Access, Receiving, Creation, Kinds
  <2>3. Locals' /\ lock' \in {lock, NoOne}
    <3>1. CASE End(p, "rejected")
      BY <1>0, <1>b, <2>1, <3>1, EndLocals
    <3>2. CASE Continue(p, "delBlob")
      BY <1>0, <2>1, <2>2, <3>2, ContinueLocals DEF Early
    <3> QED
      BY <1>25, <3>1, <3>2 DEF PreTerminate
  <2>4. RestOK'
    BY <1>0, <1>25, <2>3, HandlerRest DEF PreTerminate, KeepEnv, KeepHist
  <2> QED
    BY <2>1, <2>3, <2>4 DEF TypeInv
<1>26. ASSUME NEW p \in Procs, DeleteBlob(p) PROVE TypeInv'
  <2>0. /\ bytes' \in {bytes, << >>} /\ hasBlob' \in {hasBlob, FALSE}
        /\ doomed' \in {doomed, TRUE} /\ (Ready \/ Fault)
        /\ hasState' = hasState /\ state' = state
    BY <1>26 DEF DeleteBlob, KeepState, KeepBlob
  <2>a. StoreOK'
    BY <1>0, <2>0, EmptyType DEF StoreOK
  <2>1. StoreOK' /\ UNCHANGED kind /\ pc[p] = "delBlob" /\ Local(p)
    BY <1>a, <1>26, <2>a DEF DeleteBlob, At
  <2>2. "delState" \in Route(kind[p])
    BY <2>1 DEF Local, Route, Access, Receiving, Creation, Kinds
  <2>3. Locals' /\ lock' \in {lock, NoOne}
    <3>1. CASE End(p, "error")
      BY <1>0, <1>b, <2>1, <3>1, EndLocals
    <3>2. CASE Continue(p, "delState")
      BY <1>0, <2>1, <2>2, <3>2, ContinueLocals DEF Early
    <3> QED
      BY <1>26, <3>1, <3>2 DEF DeleteBlob
  <2>4. RestOK'
    <3>1. UNCHANGED <<late, detached, breached, crashes, known, acked, finished>>
      BY <1>26 DEF DeleteBlob, KeepEnv
    <3> QED
      BY <1>0, <2>0, <2>3, <3>1, DoomRest
  <2> QED
    BY <2>1, <2>3, <2>4 DEF TypeInv
<1>27. ASSUME NEW p \in Procs, DeleteState(p) PROVE TypeInv'
  <2>1. StoreOK' /\ UNCHANGED kind /\ pc[p] = "delState" /\ Local(p)
    BY <1>0, <1>a, <1>27 DEF DeleteState, At, KeepBlob, StoreOK
  <2>2. p \notin Sweepers => "respond" \in Route(kind[p])
    BY <2>1 DEF Local, Route, Access, Receiving, Creation, Kinds
  <2>3. Locals' /\ lock' \in {lock, NoOne}
    <3>1. CASE End(p, "error")
      BY <1>0, <1>b, <2>1, <3>1, EndLocals
    <3>2. CASE End(p, "ok")
      BY <1>0, <1>b, <2>1, <3>2, EndLocals
    <3>3. CASE p \notin Sweepers /\ Continue(p, "respond")
      BY <1>0, <2>1, <2>2, <3>3, ContinueLocals DEF Early
    <3> QED
      BY <1>27, <3>1, <3>2, <3>3 DEF DeleteState
  <2>4. RestOK'
    BY <1>0, <1>27, <2>3, HandlerRest DEF DeleteState, KeepEnv, KeepHist
  <2> QED
    BY <2>1, <2>3, <2>4 DEF TypeInv
<1>28. ASSUME NEW p \in Procs, Assess(p) PROVE TypeInv'
  <2>1. StoreOK' /\ UNCHANGED kind /\ pc[p] = "assess" /\ Local(p)
    BY <1>0, <1>a, <1>28 DEF Assess, At, KeepStores, storeVars, StoreOK
  <2>2. "delBlob" \in Route(kind[p])
    BY <2>1 DEF Local, Route, Access, Receiving, Creation, Kinds
  <2>3. Locals' /\ lock' \in {lock, NoOne}
    <3>1. CASE End(p, "error")
      BY <1>0, <1>b, <2>1, <3>1, EndLocals
    <3>2. CASE Continue(p, "delBlob")
      BY <1>0, <2>1, <2>2, <3>2, ContinueLocals DEF Early
    <3> QED
      BY <1>28, <3>1, <3>2 DEF Assess
  <2>4. RestOK'
    BY <1>0, <1>28, <2>3, HandlerRest DEF Assess, KeepEnv, KeepHist
  <2> QED
    BY <2>1, <2>3, <2>4 DEF TypeInv
<1>29. ASSUME NEW s \in Sweepers, ListExpired(s) PROVE TypeInv'
  <2>1. StoreOK' /\ UNCHANGED kind /\ pc[s] = "idle" /\ s \in Procs /\ s \in Sweepers
    BY <1>0, <1>29 DEF ListExpired, At, Procs, KeepStores, storeVars, StoreOK
  <2>2. "tryLock" \in Route(kind[s]) /\ sent[s] = 0
    BY <1>a, <2>1 DEF Local, Route, Early
  <2>3. Locals' /\ lock' = lock
    BY <1>0, <1>29, <2>1, <2>2, ContinueLocals DEF ListExpired
  <2>4. RestOK'
    BY <1>0, <1>29, <2>1, <2>3, HandlerRest DEF ListExpired, KeepEnv, KeepHist
  <2> QED
    BY <2>1, <2>3, <2>4 DEF TypeInv
<1>30. ASSUME NEW r \in Requests, Cancel(r) PROVE TypeInv'
  <2>1. StoreOK' /\ UNCHANGED kind /\ pc[r] # "idle" /\ r \in Procs /\ Local(r)
    BY <1>0, <1>a, <1>30 DEF Cancel, At, Procs, KeepStores, storeVars, StoreOK
  <2>2. Locals' /\ lock' \in {lock, NoOne}
    BY <1>0, <1>b, <1>30, <2>1, EndLocals DEF Cancel
  <2>3. Leftover(r) \subseteq Operations
    BY <1>0, <2>1, LeftoverType
  <2>4. detached' \in SUBSET Operations
    BY <1>0, <1>30, <2>3 DEF Cancel, RestOK
  <2>5. RestOK'
    BY <1>0, <1>30, <2>1, <2>2, <2>4 DEF Cancel, RestOK, Ready, KeepHist, histVars
  <2> QED
    BY <2>1, <2>2, <2>5 DEF TypeInv
<1>31. ASSUME NEW d \in detached, Late(d) PROVE TypeInv'
  <2>1. d \in Operations /\ UNCHANGED procVars
    BY <1>0, <1>31 DEF Late, RestOK
  <2>2. /\ d.op = "write" => d.byte \in Nat
        /\ d.op = "truncate" => d.size \in Nat
        /\ d.op = "set" => d.st \in UploadState
    BY <2>1 DEF Operations
  <2>3. StoreOK'
    <3>1. CASE d.op = "write"
      <4>1. bytes' = Appended(d.byte) /\ UNCHANGED <<hasState, state, hasBlob>>
        BY <1>31, <3>1 DEF Late, KeepState
      <4>2. Appended(d.byte) \in Seq(Nat)
        BY <1>0, <2>2, <3>1 DEF Appended, StoreOK
      <4> QED
        BY <1>0, <4>1, <4>2 DEF StoreOK
    <3>2. CASE d.op = "truncate"
      <4>1. bytes' = Truncated(d.size) /\ UNCHANGED <<hasState, state, hasBlob>>
        BY <1>31, <3>2 DEF Late, KeepState
      <4> QED
        BY <1>0, <2>2, <3>2, <4>1, CutType DEF StoreOK
    <3>3. CASE d.op = "set"
      <4>1. hasState' = TRUE /\ state' = d.st /\ UNCHANGED <<hasBlob, bytes>>
        BY <1>31, <3>3 DEF Late, Update, KeepBlob
      <4> QED
        BY <1>0, <2>2, <3>3, <4>1 DEF StoreOK
    <3>4. CASE d.op = "unlink"
      <4>1. hasBlob' = FALSE /\ bytes' = << >> /\ UNCHANGED <<hasState, state>>
        BY <1>31, <3>4 DEF Late, KeepState
      <4> QED
        BY <1>0, <4>1, EmptyType DEF StoreOK
    <3>5. CASE d.op = "forget"
      <4>1. hasState' = FALSE /\ UNCHANGED <<hasBlob, bytes, state>>
        BY <1>31, <3>5 DEF Late, KeepBlob
      <4> QED
        BY <1>0, <4>1 DEF StoreOK
    <3> QED
      BY <1>31, <3>1, <3>2, <3>3, <3>4, <3>5 DEF Late
  <2>4. RestOK'
    BY <1>0, <1>31 DEF Late, RestOK, Ready
  <2>5. Locals'
    BY <1>0, <2>1 DEF procVars, Locals, AreFunctions, Local
  <2> QED
    BY <2>3, <2>4, <2>5 DEF TypeInv
<1>32. CASE Tick
  BY <1>0, <1>32 DEF Tick, TypeInv, StoreOK, RestOK, Locals, AreFunctions, Local,
     storeVars, procVars, histVars
<1>33. CASE Crash
  <2>1. StoreOK'
    BY <1>0, <1>33 DEF Crash, KeepStores, storeVars, StoreOK
  <2>2. RestOK'
    <3>1. crashes' \in 0 .. MaxCrashes
      BY <1>0, <1>33, ConstantsAssumption DEF Crash, RestOK
    <3>2. /\ lock' = NoOne /\ detached' = {}
          /\ UNCHANGED <<late, known, acked, doomed, finished, breached, faults>>
      BY <1>33 DEF Crash, Ready, KeepHist, histVars
    <3> QED
      BY <1>0, <3>1, <3>2 DEF RestOK
  <2>3. AreFunctions'
    BY <1>0, <1>33 DEF Crash, Locals, AreFunctions
  <2>4. ASSUME NEW p \in Procs PROVE Local(p)'
    <3>1. /\ pc'[p] = (IF p \in Sweepers \/ pc[p] = "idle" THEN "idle" ELSE "done")
          /\ kind'[p] = kind[p] /\ st'[p] = Fresh /\ arg'[p] = NoArg /\ sent'[p] = 0
          /\ reply'[p] \in {reply[p], "cut"}
      BY <1>33 DEF Crash, At
    <3>2. pc'[p] \in Route(kind[p])
      BY <1>a, <3>1 DEF Local, Route, Access, Receiving, Creation, Kinds
    <3> QED
      BY <1>a, <1>b, <3>1, <3>2, FreshType DEF Local, Early, Fresh, NoArg
  <2> QED
    BY <2>1, <2>2, <2>3, <2>4 DEF TypeInv, Locals
<1> QED
  BY <1>1, <1>2, <1>3, <1>4, <1>5, <1>6, <1>7, <1>8, <1>9, <1>10, <1>11, <1>12, <1>13, <1>14, <1>15, <1>16, <1>17, <1>18, <1>19, <1>20, <1>21, <1>22, <1>23, <1>24, <1>25, <1>26, <1>27, <1>28, <1>29, <1>30, <1>31, <1>32, <1>33 DEF Next, Handle

\* Every reachable state is well typed and the locals fit the control points.
THEOREM TypeInvariance == Spec => []TypeInv
BY InitTypeInv, TypeInvNext, PTL DEF Spec

\* Type correctness, for every value of the constants.
THEOREM TypeCorrect == Spec => []TypeOK
BY TypeInvariance, TypeInvType, PTL

-----------------------------------------------------------------------------
(* One process at a time is at work, and what it writes is in place.       *)

Comers == {"patch", "head", "get", "delete"}

LockCovers == \A p \in Procs : kind[p] # "post" /\ pc[p] \in Critical => lock = p

\* Other requests come only after the one creation has answered.
CreationFirst ==
  /\ \A p \in Procs : kind[p] \in Comers => known
  /\ \A p \in Procs : kind[p] = "post" /\ pc[p] # "done" => ~known
  /\ known => \E r \in Requests : kind[r] = "post"
  /\ \A p, q \in Procs : kind[p] = "post" /\ kind[q] = "post" => p = q

Exclusive == LockCovers /\ CreationFirst

WriterAtEnd ==
  \A p \in Procs : pc[p] = "write" /\ hasBlob => Len(bytes) = st[p].offset + sent[p]

Content ==
  /\ ~hasBlob => bytes = << >>
  /\ InPlace
  /\ WriterAtEnd

-----------------------------------------------------------------------------
\* A step of p that keeps to the lock.
Move(p) ==
  /\ Frame(p)
  /\ kind' = kind
  /\ pc[p] # "done"
  /\ \/ /\ lock' = lock
        /\ pc[p] \in Critical \/ kind[p] = "post" \/ pc'[p] \notin Critical
     \/ /\ lock' = (IF lock = p THEN NoOne ELSE lock)
        /\ pc'[p] \notin Critical
     \/ pc[p] \in {"lock", "tryLock"} /\ lock = NoOne /\ lock' = p

LEMMA Busy ==
  ASSUME Locals, NEW p \in Procs, pc[p] \notin {"idle", "done", "lock", "tryLock"}
  PROVE  pc[p] \in Critical \/ kind[p] = "post"
BY DEF Locals, Local, Route, Kinds, Access, Receiving, Creation, Critical

LEMMA ContinueMove ==
  ASSUME Locals, NEW p \in Procs, NEW point, Continue(p, point), UNCHANGED kind,
         pc[p] \notin {"idle", "done", "lock", "tryLock"}
  PROVE  Move(p) /\ pc'[p] = point
BY Busy, ContinueFrame DEF Move

LEMMA ProceedMove ==
  ASSUME Locals, NEW p \in Procs, NEW point, NEW s, NEW a, Proceed(p, point, s, a),
         UNCHANGED kind, pc[p] \notin {"idle", "done", "lock", "tryLock"}
  PROVE  Move(p) /\ pc'[p] = point
BY Busy, ProceedFrame DEF Move

LEMMA EndMove ==
  ASSUME Locals, NEW p \in Procs, NEW answer, End(p, answer), UNCHANGED kind,
         pc[p] # "done"
  PROVE  Move(p) /\ pc'[p] \in {"idle", "done"}
BY EndFrame DEF Move, Critical

LEMMA AbortMove ==
  ASSUME Locals, NEW p \in Procs, NEW answer, Abort(p, answer), UNCHANGED kind,
         pc[p] \in Receiving
  PROVE  Move(p) /\ pc'[p] \in {"idle", "done", "undoAll"}
<1>1. CASE kind[p] = "post"
  <2>1. /\ pc' = [pc EXCEPT ![p] = "undoAll"] /\ reply' = [reply EXCEPT ![p] = answer]
        /\ UNCHANGED <<lock, st, arg, sent, kind>>
    BY <1>1 DEF Abort, Creating, Goto
  <2> QED
    BY <1>1, <2>1 DEF Locals, AreFunctions, Frame, Move, Receiving
<1>2. CASE kind[p] # "post"
  BY <1>2, EndMove DEF Abort, Creating, Receiving
<1> QED
  BY <1>1, <1>2

LEMMA TakeMove ==
  ASSUME Locals, NEW p \in Procs, Acquire(p), UNCHANGED kind,
         pc[p] \in {"lock", "tryLock"}
  PROVE  Move(p) /\ pc'[p] = "load"
BY DEF Locals, AreFunctions, Frame, Move, Acquire, Goto

\* The steps of a handler that touch the object or begin to write it.
Touching(p) ==
  StorageCreate(p) \/ UndoBlob(p) \/ Open(p) \/ WriteChunk(p) \/ StreamError(p)
    \/ DeleteBlob(p)

\* All others leave the object alone and do not lead to a write.
LEMMA QuietStep ==
  ASSUME Locals, NEW p \in Procs, Handle(p), ~Touching(p)
  PROVE  /\ Move(p) /\ pc'[p] # "write"
         /\ UNCHANGED <<hasBlob, bytes, detached>>
         /\ known' # known => Respond(p)
<1>1. CASE RecordNew(p)
  BY <1>1, ContinueMove
  DEF RecordNew, At, KeepBlob, KeepEnv, KeepHist, histVars
<1>2. CASE UndoState(p)
  BY <1>2, EndMove DEF UndoState, At, KeepBlob, KeepEnv, KeepHist, histVars
<1>3. CASE Lock(p) \/ TryLock(p)
  BY <1>3, EndMove, TakeMove
  DEF Lock, TryLock, At, KeepStores, storeVars, KeepHist, histVars
<1>4. CASE Load(p)
  BY <1>4, EndMove, ProceedMove
  DEF Load, ContinueWith, At, KeepStores, storeVars, KeepEnv, KeepHist, histVars
<1>5. CASE Detect(p)
  BY <1>5, EndMove, ContinueMove
  DEF Detect, At, KeepStores, storeVars, KeepEnv, KeepHist, histVars
<1>6. CASE RecoverGate(p)
  BY <1>6, EndMove, ContinueMove
  DEF RecoverGate, At, KeepStores, storeVars, KeepEnv, KeepHist, histVars
<1>7. CASE RecoverPersist(p)
  BY <1>7, EndMove, ProceedMove
  DEF RecoverPersist, ContinueWith, At, KeepBlob, KeepEnv, KeepHist, histVars
<1>8. CASE RecoverNotify(p)
  BY <1>8, ContinueMove DEF RecoverNotify, At, KeepStores, storeVars, KeepEnv
<1>9. CASE Reconcile(p)
  BY <1>9, EndMove, ProceedMove
  DEF Reconcile, AfterAccess, ContinueWith, At, KeepBlob, KeepEnv, KeepHist, histVars
<1>10. CASE Prepare(p)
  <2>1. /\ pc[p] = "prepare" /\ UNCHANGED kind
        /\ UNCHANGED <<hasBlob, bytes, detached, known>>
    BY <1>10 DEF Prepare, At, KeepStores, storeVars, KeepEnv, KeepHist, histVars
  <2>2. CASE End(p, "error")
    BY <2>1, <2>2, EndMove
  <2>3. CASE \E s, a : Proceed(p, "open", s, a)
    <3>1. PICK s, a : Proceed(p, "open", s, a)
      BY <2>3
    <3> QED
      BY <2>1, <3>1, ProceedMove
  <2> QED
    BY <1>10, <2>2, <2>3 DEF Prepare
<1>11. CASE Sync(p)
  BY <1>11, AbortMove, ContinueMove
  DEF Sync, At, Receiving, KeepStores, storeVars, KeepEnv, KeepHist, histVars
<1>12. CASE Commit(p)
  BY <1>12, AbortMove, ProceedMove
  DEF Commit, ContinueWith, At, Receiving, KeepBlob, KeepEnv, KeepHist, histVars
<1>13. CASE FinishGate(p)
  BY <1>13, AbortMove, ContinueMove
  DEF FinishGate, At, Receiving, KeepStores, storeVars, KeepEnv, KeepHist, histVars
<1>14. CASE FinishNotify(p)
  BY <1>14, ContinueMove DEF FinishNotify, At, KeepStores, storeVars, KeepEnv
<1>15. CASE Respond(p)
  BY <1>15, EndMove DEF Respond, At, KeepStores, storeVars, KeepEnv
<1>16. CASE PreTerminate(p)
  BY <1>16, EndMove, ContinueMove
  DEF PreTerminate, At, KeepStores, storeVars, KeepEnv, KeepHist, histVars
<1>17. CASE DeleteState(p)
  BY <1>17, EndMove, ContinueMove
  DEF DeleteState, At, KeepBlob, KeepEnv, KeepHist, histVars
<1>18. CASE Assess(p)
  BY <1>18, EndMove, ContinueMove
  DEF Assess, At, KeepStores, storeVars, KeepEnv, KeepHist, histVars
<1> QED
  BY <1>1, <1>2, <1>3, <1>4, <1>5, <1>6, <1>7, <1>8, <1>9, <1>10, <1>11, <1>12,
     <1>13, <1>14, <1>15, <1>16, <1>17, <1>18
  DEF Handle, Touching

LEMMA TouchingStep ==
  ASSUME Locals, NEW p \in Procs, Touching(p)
  PROVE  Move(p) /\ UNCHANGED <<known, detached>>
<1>1. CASE StorageCreate(p)
  BY <1>1, EndMove, ContinueMove DEF StorageCreate, At, KeepEnv, KeepHist, histVars
<1>2. CASE UndoBlob(p)
  BY <1>2, EndMove, ContinueMove DEF UndoBlob, At, KeepEnv
<1>3. CASE Open(p)
  BY <1>3, AbortMove, ContinueMove
  DEF Open, At, Receiving, KeepEnv, KeepHist, histVars
<1>4. CASE WriteChunk(p)
  <2>1. Frame(p) /\ pc[p] = "write" /\ UNCHANGED <<kind, lock, pc>>
    BY <1>4 DEF WriteChunk, At, Locals, AreFunctions, Frame
  <2> QED
    BY <1>4, <2>1, Busy DEF Move, WriteChunk, KeepEnv, KeepHist, histVars
<1>5. CASE StreamError(p)
  BY <1>5, AbortMove DEF StreamError, At, Receiving, KeepEnv, KeepHist, histVars
<1>6. CASE DeleteBlob(p)
  BY <1>6, EndMove, ContinueMove DEF DeleteBlob, At, KeepEnv
<1> QED
  BY <1>1, <1>2, <1>3, <1>4, <1>5, <1>6 DEF Touching

-----------------------------------------------------------------------------
(* One writer.                                                             *)

LEMMA MoveExclusive ==
  ASSUME TypeInv, Exclusive, NEW p \in Procs, Move(p), UNCHANGED known
  PROVE  Exclusive'
<1>0. Locals /\ NoOne \notin Procs
  BY ConstantsAssumption DEF TypeInv
<1>1. \A q \in Procs : q # p => pc'[q] = pc[q] /\ kind'[q] = kind[q]
  BY <1>0 DEF Move, Frame, Locals, AreFunctions
<1>2. LockCovers'
  <2> SUFFICES ASSUME NEW q \in Procs, kind'[q] # "post", pc'[q] \in Critical
               PROVE  lock' = q
    BY DEF LockCovers
  <2>1. CASE q = p
    BY <2>1 DEF Move, Exclusive, LockCovers
  <2>2. CASE q # p
    <3>1. lock = q
      BY <1>1, <2>2 DEF Exclusive, LockCovers
    <3> QED
      BY <1>0, <2>2, <3>1 DEF Move
  <2> QED
    BY <2>1, <2>2
<1>3. CreationFirst'
  BY <1>1 DEF Move, Exclusive, CreationFirst
<1> QED
  BY <1>2, <1>3 DEF Exclusive

LEMMA RespondExclusive ==
  ASSUME TypeInv, Exclusive, NEW p \in Procs, Respond(p)
  PROVE  Exclusive'
<1>0. Locals /\ NoOne \notin Procs /\ known \in BOOLEAN
  BY ConstantsAssumption DEF TypeInv, RestOK
<1>1. /\ Frame(p) /\ kind' = kind /\ pc[p] = "respond" /\ pc'[p] \notin Critical
      /\ pc'[p] = (IF p \in Sweepers THEN "idle" ELSE "done")
      /\ lock' = (IF lock = p THEN NoOne ELSE lock)
      /\ known' = (known \/ kind[p] = "post")
  BY <1>0, EndFrame DEF Respond, At, Creating, Critical
<1>2. \A q \in Procs : q # p => pc'[q] = pc[q]
  BY <1>0, <1>1 DEF Frame, Locals, AreFunctions
<1>3. LockCovers'
  BY <1>1, <1>2 DEF Exclusive, LockCovers
<1>4. kind[p] = "post" => p \in Requests /\ p \notin Sweepers
  BY <1>0 DEF Locals, Local, Procs
<1>5. CreationFirst'
  <2>1. CASE kind[p] = "post"
    BY <1>1, <1>2, <1>4, <2>1 DEF Exclusive, CreationFirst
  <2>2. CASE kind[p] # "post"
    <3>1. known' = known
      BY <1>0, <1>1, <2>2
    <3> QED
      BY <1>1, <1>2, <2>2, <3>1 DEF Exclusive, CreationFirst
  <2> QED
    BY <2>1, <2>2
<1> QED
  BY <1>3, <1>5 DEF Exclusive

\* At most one process is receiving bytes.
LEMMA OneWriter ==
  ASSUME TypeInv, Exclusive
  PROVE  /\ \A p, q \in Procs : pc[p] \in Receiving /\ pc[q] \in Receiving => p = q
         /\ \A p, q \in Procs :
              kind[p] = "post" /\ pc[p] # "done" /\ pc[q] \in Receiving => p = q
<1>1. \A p \in Procs :
        pc[p] \in Receiving =>
          /\ kind[p] \in {"post", "patch"} /\ pc[p] # "done"
          /\ kind[p] = "patch" => lock = p /\ known
          /\ kind[p] = "post" => ~known
  BY DEF TypeInv, Locals, Local, Route, Kinds, Access, Receiving, Creation, Critical,
     Exclusive, LockCovers, CreationFirst, Comers
<1> QED
  BY <1>1 DEF Exclusive, CreationFirst

-----------------------------------------------------------------------------
(* The content of the object.                                              *)

\* A process that does not begin to write, and does not touch the object.
LEMMA QuietContent ==
  ASSUME Locals, Content, NEW p \in Procs, Frame(p), pc'[p] # "write",
         UNCHANGED <<hasBlob, bytes>>
  PROVE  Content'
<1>1. \A q \in Procs : q # p => /\ pc'[q] = pc[q] /\ st'[q] = st[q]
                               /\ sent'[q] = sent[q]
  BY DEF Frame, Locals, AreFunctions
<1> QED
  BY <1>1 DEF Content, InPlace, WriterAtEnd

\* Nobody writes and the object is empty, or it has just been unlinked.
LEMMA EmptyContent ==
  ASSUME Content, bytes' = << >>,
         hasBlob' = FALSE \/ \A q \in Procs : pc'[q] # "write"
  PROVE  Content'
BY DEF Content, InPlace, WriterAtEnd

LEMMA TouchingContent ==
  ASSUME TypeInv, Exclusive, Content, NEW p \in Procs, Touching(p)
  PROVE  Content'
<1>0. Locals /\ StoreOK /\ Local(p) /\ Move(p) /\ Frame(p)
  BY TouchingStep DEF TypeInv, Locals, Move
<1>1. \A q \in Procs : q # p => /\ pc'[q] = pc[q] /\ st'[q] = st[q]
                               /\ sent'[q] = sent[q]
  BY <1>0 DEF Frame, Locals, AreFunctions
<1>2. Len(bytes) \in Nat /\ st[p].offset \in Nat /\ sent[p] \in Nat
  BY <1>0, StateTypes DEF StoreOK, Local
<1>3. CASE StorageCreate(p)
  <2>1. pc[p] = "create" /\ kind[p] = "post" /\ bytes' = << >>
    BY <1>0, <1>3 DEF StorageCreate, At, Local, Route, Kinds, Access, Receiving
  <2>2. pc'[p] # "write"
    BY <1>0, <1>3, <2>1, EndMove, ContinueMove DEF StorageCreate
  <2>3. \A q \in Procs : pc[q] # "write"
    BY <2>1, OneWriter DEF Receiving
  <2> QED
    BY <1>0, <1>1, <2>1, <2>2, <2>3, EmptyContent
<1>4. CASE UndoBlob(p) \/ DeleteBlob(p)
  <2>1. pc'[p] # "write"
    BY <1>0, <1>4, EndMove, ContinueMove DEF UndoBlob, DeleteBlob, At
  <2>2. CASE hasBlob' = FALSE /\ bytes' = << >>
    BY <1>0, <2>2, EmptyContent
  <2>3. CASE UNCHANGED <<hasBlob, bytes>>
    BY <1>0, <2>1, <2>3, QuietContent
  <2> QED
    BY <1>4, <2>2, <2>3 DEF UndoBlob, DeleteBlob, KeepBlob
<1>5. CASE Open(p)
  <2>1. UNCHANGED <<hasBlob, bytes>> /\ pc[p] = "open"
    BY <1>5 DEF Open, At, KeepStores, storeVars
  <2>2. CASE pc'[p] # "write"
    BY <1>0, <2>1, <2>2, QuietContent
  <2>3. CASE pc'[p] = "write"
    <3>1. hasBlob /\ Len(bytes) = st[p].offset /\ st'[p] = st[p] /\ sent'[p] = sent[p]
      BY <1>0, <1>5, <2>1, <2>3, AbortMove, ContinueFrame DEF Open, Receiving, Size
    <3>2. sent[p] = 0
      BY <1>0, <2>1 DEF Local, Early
    <3>3. WriterAtEnd'
      BY <1>1, <1>2, <2>1, <3>1, <3>2 DEF Content, WriterAtEnd
    <3> QED
      BY <1>0, <2>1, <3>3 DEF Content, InPlace
  <2> QED
    BY <2>2, <2>3
<1>6. CASE WriteChunk(p)
  <2>1. /\ pc[p] = "write" /\ hasBlob' = hasBlob /\ st' = st /\ pc' = pc
        /\ bytes' = Appended(arg[p].offset + sent[p] + 1)
        /\ arg[p].offset = st[p].offset
    BY <1>0, <1>6 DEF WriteChunk, At, Local
  <2>2. sent'[p] = sent[p] + 1
    BY <1>0, <1>6 DEF WriteChunk, Locals, AreFunctions
  <2>3. CASE ~hasBlob
    BY <1>0, <2>1, <2>3 DEF Content, InPlace, WriterAtEnd, Appended
  <2>4. CASE hasBlob
    <3>1. Len(bytes) = st[p].offset + sent[p]
      BY <2>1, <2>4 DEF Content, WriterAtEnd
    <3>2. bytes' = Append(bytes, Len(bytes) + 1)
      BY <1>2, <2>1, <2>4, <3>1 DEF Appended
    <3>3. /\ Len(bytes') = Len(bytes) + 1
          /\ bytes'[Len(bytes) + 1] = Len(bytes) + 1
          /\ \A i \in 1 .. Len(bytes) : bytes'[i] = bytes[i]
      BY <1>0, <1>2, <3>2 DEF StoreOK
    <3>4. InPlace'
      <4> SUFFICES ASSUME NEW i \in 1 .. Len(bytes') PROVE bytes'[i] = i
        BY DEF InPlace
      <4>1. i \in 1 .. Len(bytes) \/ i = Len(bytes) + 1
        BY <1>2, <3>3
      <4> QED
        BY <3>3, <4>1 DEF Content, InPlace
    <3>5. \A q \in Procs : pc[q] = "write" => q = p
      BY <2>1, OneWriter DEF Receiving
    <3>6. Len(bytes') = st'[p].offset + sent'[p]
      BY <1>2, <2>1, <2>2, <3>1, <3>3
    <3>7. WriterAtEnd'
      BY <2>1, <3>5, <3>6 DEF WriterAtEnd
    <3> QED
      BY <1>0, <2>1, <2>4, <3>4, <3>7 DEF Content
  <2> QED
    BY <2>3, <2>4
<1>7. CASE StreamError(p)
  <2>1. /\ pc[p] = "write" /\ hasBlob' = hasBlob /\ pc'[p] # "write"
        /\ bytes' = bytes \/ bytes' = Truncated(st[p].offset)
    BY <1>0, <1>7, AbortMove DEF StreamError, At, Receiving
  <2>2. CASE bytes' = bytes
    BY <1>0, <2>1, <2>2, QuietContent
  <2>3. CASE bytes' = Truncated(st[p].offset) /\ ~hasBlob
    BY <1>0, <2>1, <2>3, QuietContent DEF Truncated
  <2>4. CASE bytes' = Truncated(st[p].offset) /\ hasBlob
    <3>1. st[p].offset <= Len(bytes)
      BY <1>2, <2>1, <2>4 DEF Content, WriterAtEnd
    <3>2. bytes' = [i \in 1 .. st[p].offset |-> IF i \in DOMAIN bytes THEN bytes[i] ELSE 0]
      BY <2>4 DEF Truncated
    <3>3. Len(bytes') = st[p].offset
      BY <1>2, <3>2
    <3>4. \A i \in 1 .. st[p].offset : i \in DOMAIN bytes /\ i \in 1 .. Len(bytes)
      BY <1>0, <1>2, <3>1 DEF StoreOK
    <3>5. InPlace'
      BY <3>2, <3>3, <3>4 DEF Content, InPlace
    <3>6. \A q \in Procs : pc'[q] # "write"
      BY <1>1, <2>1, OneWriter DEF Receiving
    <3> QED
      BY <1>0, <2>1, <2>4, <3>5, <3>6 DEF Content, WriterAtEnd
  <2> QED
    BY <2>1, <2>2, <2>3, <2>4
<1> QED
  BY <1>3, <1>4, <1>5, <1>6, <1>7 DEF Touching

-----------------------------------------------------------------------------
(* The arrival of a request.                                               *)

LEMMA PostFrame ==
  ASSUME Locals, NEW r \in Requests, Post(r)
  PROVE  /\ Frame(r) /\ pc'[r] \in {"idle", "done", "create"}
         /\ lock' \in {lock, IF lock = r THEN NoOne ELSE lock}
         /\ \/ pc'[r] = "create" /\ reply'[r] = reply[r]
            \/ pc'[r] \in {"idle", "done"}
<1>0. r \in Procs /\ kind' = [kind EXCEPT ![r] = "post"]
  BY DEF Post, Procs
<1>1. CASE End(r, "error")
  BY <1>0, <1>1 DEF Locals, AreFunctions, End, Goto, Frame
<1>2. CASE ~End(r, "error")
  <2>1. PICK s, a : Proceed(r, "create", s, a)
    BY <1>2 DEF Post
  <2> QED
    BY <1>0, <2>1 DEF Locals, AreFunctions, Proceed, Goto, Frame
<1> QED
  BY <1>1, <1>2

LEMMA ArriveFrame ==
  ASSUME Locals, NEW r \in Requests, Arrive(r)
  PROVE  /\ Frame(r) /\ pc'[r] \in {"idle", "done", "lock"} /\ kind'[r] \in Comers
         /\ lock' \in {lock, IF lock = r THEN NoOne ELSE lock}
<1>1. PICK k \in Comers : kind' = [kind EXCEPT ![r] = k]
  BY DEF Arrive, Comers
<1>2. r \in Procs
  BY DEF Procs
<1>3. CASE End(r, "error")
  BY <1>1, <1>2, <1>3 DEF Locals, AreFunctions, End, Goto, Frame
<1>4. CASE Continue(r, "lock")
  BY <1>1, <1>2, <1>4 DEF Locals, AreFunctions, Continue, Goto, Frame
<1> QED
  BY <1>3, <1>4 DEF Arrive

-----------------------------------------------------------------------------
(* The invariant.                                                          *)

LEMMA InitExclusive == Init => Exclusive
BY DEF Init, Exclusive, LockCovers, CreationFirst, Critical, Comers

\* Requests keep to the lock, and to the order of creation and use.
LEMMA NextExclusive ==
  ASSUME TypeInv, Exclusive, [Next]_vars
  PROVE  Exclusive'
<1>0. Locals
  BY DEF TypeInv
<1>1. CASE UNCHANGED <<pc, kind, lock, known>>
  BY <1>1 DEF Exclusive, LockCovers, CreationFirst
<1>2. ASSUME NEW p \in Procs, Handle(p) PROVE Exclusive'
  <2>1. CASE Touching(p)
    BY <1>0, <2>1, TouchingStep, MoveExclusive
  <2>2. CASE ~Touching(p)
    <3>1. Move(p) /\ (known' # known => Respond(p))
      BY <1>0, <1>2, <2>2, QuietStep
    <3> QED
      BY <3>1, MoveExclusive, RespondExclusive
  <2> QED
    BY <2>1, <2>2
<1>3. ASSUME NEW r \in Requests, Post(r) PROVE Exclusive'
  <2>1. /\ r \in Procs /\ kind' = [kind EXCEPT ![r] = "post"]
        /\ \A q \in Requests : kind[q] # "post"
        /\ UNCHANGED known
    BY <1>3 DEF Post, Procs, Creating, KeepHist, histVars
  <2>2. /\ Frame(r) /\ pc'[r] \in {"idle", "done", "create"}
        /\ lock' \in {lock, IF lock = r THEN NoOne ELSE lock}
    BY <1>0, <1>3, PostFrame
  <2>3. \A q \in Procs : kind[q] # "post"
    BY <1>0, <2>1, ConstantsAssumption DEF Locals, Local, Procs
  <2>4. ~known
    BY <2>1 DEF Exclusive, CreationFirst
  <2>5. \A q \in Procs : q # r => pc'[q] = pc[q] /\ kind'[q] = kind[q]
    BY <1>0, <2>2 DEF Frame, Locals, AreFunctions
  <2>6. kind'[r] = "post"
    BY <1>0, <2>1 DEF Locals, AreFunctions
  <2> QED
    BY <2>1, <2>2, <2>3, <2>4, <2>5, <2>6
    DEF Exclusive, LockCovers, CreationFirst, Comers
<1>4. ASSUME NEW r \in Requests, Arrive(r) PROVE Exclusive'
  <2>1. r \in Procs /\ pc[r] = "idle" /\ known /\ UNCHANGED known
    BY <1>4 DEF Arrive, Procs, At, KeepHist, histVars
  <2>2. /\ Frame(r) /\ pc'[r] \in {"idle", "done", "lock"} /\ kind'[r] \in Comers
        /\ lock' \in {lock, IF lock = r THEN NoOne ELSE lock}
    BY <1>0, <1>4, ArriveFrame
  <2>3. \A q \in Procs : q # r => pc'[q] = pc[q] /\ kind'[q] = kind[q]
    BY <1>0, <2>2 DEF Frame, Locals, AreFunctions
  <2>4. kind'[r] \in {"patch", "head", "get", "delete"} /\ kind[r] # "post"
    BY <1>0, <2>1, <2>2 DEF Comers, Locals, Local, Route, Creation
  <2>5. LockCovers'
    BY <2>1, <2>2, <2>3 DEF Exclusive, LockCovers, Critical
  <2>6. CreationFirst'
    <3>1. \E q \in Requests : kind'[q] = "post"
      BY <2>1, <2>3, <2>4 DEF Exclusive, CreationFirst, Procs
    <3> QED
      BY <2>1, <2>2, <2>3, <2>4, <3>1 DEF Exclusive, CreationFirst
  <2> QED
    BY <2>5, <2>6 DEF Exclusive
<1>5. ASSUME NEW r \in Requests, Cancel(r) PROVE Exclusive'
  <2>1. /\ r \in Procs /\ pc[r] # "done" /\ End(r, "cut") /\ UNCHANGED <<kind, known>>
    BY <1>5 DEF Cancel, At, Procs, KeepHist, histVars
  <2> QED
    BY <1>0, <2>1, EndMove, MoveExclusive
<1>6. ASSUME NEW s \in Sweepers, ListExpired(s) PROVE Exclusive'
  <2>1. /\ s \in Procs /\ pc[s] = "idle" /\ Continue(s, "tryLock")
        /\ UNCHANGED <<kind, known>>
    BY <1>6 DEF ListExpired, At, Procs, KeepHist, histVars
  <2>2. Move(s)
    BY <1>0, <2>1, ContinueFrame DEF Move, Critical
  <2> QED
    BY <2>1, <2>2, MoveExclusive
<1>7. CASE Crash
  <2>1. /\ \A p \in Procs : pc'[p] = (IF p \in Sweepers \/ pc[p] = "idle"
                                      THEN "idle" ELSE "done")
        /\ UNCHANGED <<kind, known>>
    BY <1>7 DEF Crash, At, KeepHist, histVars
  <2>2. LockCovers'
    BY <2>1 DEF LockCovers, Critical
  <2>3. \A p \in Procs : kind[p] = "post" /\ pc'[p] # "done" => pc[p] # "done"
    BY <1>0, <2>1 DEF Locals, Local, Route, Creation
  <2>4. CreationFirst'
    BY <2>1, <2>3 DEF Exclusive, CreationFirst
  <2> QED
    BY <2>2, <2>4 DEF Exclusive
<1> QED
  BY <1>1, <1>2, <1>3, <1>4, <1>5, <1>6, <1>7
  DEF Next, vars, procVars, histVars, Late, Tick

-----------------------------------------------------------------------------
(* Facts about a process.                                                  *)

LEMMA Numbers ==
  ASSUME TypeInv, NEW p \in Procs
  PROVE  /\ Local(p)
         /\ st[p] \in UploadState /\ state \in UploadState
         /\ st[p].offset \in Nat /\ st[p].length \in Nat \cup {Deferred}
         /\ state.offset \in Nat /\ state.length \in Nat \cup {Deferred}
         /\ arg[p].offset \in Nat /\ arg[p].size \in Nat \cup {NoBody}
         /\ sent[p] \in Nat /\ Len(bytes) \in Nat /\ MaxSize \in Nat
         /\ acked \in Nat /\ finished \in Nat
         /\ hasState \in BOOLEAN /\ hasBlob \in BOOLEAN /\ doomed \in BOOLEAN
         /\ known \in BOOLEAN
BY StateTypes, ConstantsAssumption DEF TypeInv, StoreOK, RestOK, Locals, Local, Args

\* The handlers of which a point is part.
LEMMA CreationPoints ==
  ASSUME TypeInv, NEW p \in Procs,
         pc[p] \in {"create", "record", "undoBlob", "undoAll", "undoState"}
  PROVE  kind[p] = "post" /\ p \in Requests
<1>1. Local(p)
  BY Numbers
<1>2. kind[p] = "post"
  BY <1>1 DEF Local, Route, Kinds, Access, Receiving
<1> QED
  BY <1>1, <1>2 DEF Local, Procs

-----------------------------------------------------------------------------
(* A failed creation, breached or not.                                     *)

\* What the creation of r has undone once its answer is an error.
Undone(r) ==
  /\ pc[r] # "done" => detached = {}
  /\ pc[r] \notin {"done", "undoAll", "undoState"} => reply[r] = "none"
  /\ pc[r] = "undoBlob" => faults > 0
  /\ reply[r] \in {"error", "rejected"} =>
       /\ ~known /\ detached = {}
       /\ pc[r] = "undoState" /\ faults = 0 => ~hasBlob
       /\ pc[r] = "done" /\ faults = 0 => ~hasBlob /\ ~hasState

\* Nothing is stored before the creation.
Clean ==
  /\ \A p \in Procs : kind[p] = "none" => reply[p] = "none"
  /\ (\A r \in Requests : kind[r] # "post") => ~hasState /\ ~hasBlob /\ detached = {}
  /\ \A r \in Requests : kind[r] = "post" => Undone(r)

CInv == TypeInv /\ Exclusive /\ Clean

\* A step of somebody else: it creates no object, and no record either unless
\* the creation has succeeded.
LEMMA OtherClean ==
  ASSUME TypeInv, Exclusive, Clean, NEW p \in Procs, Frame(p), UNCHANGED <<kind, known>>,
         kind[p] \notin {"post", "none"},
         hasBlob' => hasBlob, hasState' => hasState \/ known,
         detached' = detached \/ detached' = {} \/ known,
         faults' = faults \/ faults' = faults + 1
  PROVE  Clean'
<1>1. \A q \in Procs : q # p => pc'[q] = pc[q] /\ reply'[q] = reply[q]
  BY DEF Frame, TypeInv, Locals, AreFunctions
<1>2. (\A r \in Requests : kind'[r] # "post") => ~hasState' /\ ~hasBlob' /\ detached' = {}
  BY DEF Clean, Exclusive, CreationFirst
<1>3. ASSUME NEW r \in Requests, kind'[r] = "post" PROVE Undone(r)'
  <2>1. r \in Procs /\ kind[r] = "post" /\ pc'[r] = pc[r] /\ reply'[r] = reply[r]
    BY <1>1, <1>3 DEF Procs
  <2>2. Undone(r) /\ (pc[r] # "done" => ~known)
    BY <2>1 DEF Clean, Exclusive, CreationFirst
  <2>3. faults \in Nat /\ faults' \in Nat /\ (faults' = 0 => faults = 0)
    BY ConstantsAssumption DEF TypeInv, RestOK
  <2> QED
    BY <2>1, <2>2, <2>3 DEF Undone
<1> QED
  BY <1>1, <1>2, <1>3 DEF Clean

\* A step of the creation itself.
LEMMA OwnClean ==
  ASSUME TypeInv, Clean, NEW p \in Requests, Frame(p), kind'[p] = "post",
         \A q \in Requests : q # p => kind[q] # "post", Undone(p)'
  PROVE  Clean'
<1>1. p \in Procs /\ \A q \in Procs : q # p => kind'[q] = kind[q] /\ reply'[q] = reply[q]
  BY DEF Frame, TypeInv, Locals, AreFunctions, Procs
<1> QED
  BY <1>1 DEF Clean, Procs

LEMMA CreatorUndone ==
  ASSUME TypeInv, Exclusive, Clean, NEW p \in Requests, kind[p] = "post", Handle(p)
  PROVE  Undone(p)'
<1>0. p \in Procs /\ Locals /\ Local(p) /\ Undone(p) /\ faults \in Nat /\ p \notin Sweepers
  BY ConstantsAssumption DEF Procs, TypeInv, Locals, Clean, RestOK
<1>1. pc[p] \in Creation \cup {"done"}
  BY <1>0 DEF Local, Route
<1>2. pc[p] # "done" => ~known /\ detached = {}
  BY <1>0 DEF Exclusive, CreationFirst, Undone
<1>3. ASSUME NEW answer, Abort(p, answer), UNCHANGED <<kind, known, detached>>,
             pc[p] \in Receiving
      PROVE  Undone(p)'
  <2>1. pc'[p] = "undoAll"
    BY <1>0, <1>3 DEF Abort, Creating, Goto, Locals, AreFunctions
  <2> QED
    BY <1>2, <1>3, <2>1 DEF Undone, Receiving
<1>4. ASSUME NEW point, Continue(p, point), UNCHANGED <<kind, known, detached>>,
             point \notin {"undoBlob", "undoState"}, pc[p] \notin {"undoAll", "undoState", "done"}
      PROVE  Undone(p)'
  <2>1. pc'[p] = point /\ reply'[p] = reply[p]
    BY <1>0, <1>4, ContinueFrame
  <2> QED
    BY <1>0, <1>2, <1>4, <2>1 DEF Undone
<1>5. CASE StorageCreate(p)
  <2>1. pc[p] = "create" /\ UNCHANGED <<kind, known, detached>>
    BY <1>5 DEF StorageCreate, At, KeepHist, histVars, KeepEnv
  <2>2. CASE Continue(p, "record")
    BY <1>4, <2>1, <2>2
  <2>3. CASE End(p, "error") /\ Fault
    <3>1. pc'[p] = "done" /\ faults' > 0
      BY <1>0, <2>1, <2>3, EndFrame DEF Fault
    <3> QED
      BY <1>2, <2>1, <3>1 DEF Undone
  <2> QED
    BY <1>5, <2>2, <2>3 DEF StorageCreate
<1>6. CASE RecordNew(p)
  <2>1. pc[p] = "record" /\ UNCHANGED <<kind, known, detached>>
    BY <1>6 DEF RecordNew, At, KeepHist, histVars, KeepEnv
  <2>2. CASE Continue(p, "undoBlob") /\ Fault
    <3>1. pc'[p] = "undoBlob" /\ faults' > 0 /\ reply'[p] = reply[p]
      BY <1>0, <2>1, <2>2, ContinueFrame DEF Fault
    <3> QED
      BY <1>0, <1>2, <2>1, <3>1 DEF Undone
  <2>3. CASE ~(Continue(p, "undoBlob") /\ Fault)
    <3>1. PICK point \in {"open", "gate", "respond"} : Continue(p, point)
      BY <1>6, <2>3 DEF RecordNew
    <3> QED
      BY <1>4, <2>1, <3>1
  <2> QED
    BY <2>2, <2>3
<1>7. CASE UndoBlob(p)
  <2>1. UNCHANGED <<kind, known, detached>> /\ pc[p] # "done"
    BY <1>7 DEF UndoBlob, At, KeepEnv
  <2>2. CASE pc[p] = "undoAll"
    <3>1. /\ pc'[p] = "undoState" /\ reply'[p] = reply[p]
          /\ faults' = 0 => ~hasBlob'
      BY <1>0, <1>7, <2>1, <2>2, ContinueFrame DEF UndoBlob, At, Ready, Fault
    <3> QED
      BY <1>0, <1>2, <2>1, <2>2, <3>1 DEF Undone
  <2>3. CASE pc[p] = "undoBlob"
    <3>1. End(p, "error") /\ (faults' = faults \/ faults' = faults + 1)
      BY <1>7, <2>3 DEF UndoBlob, At, Ready, Fault
    <3>2. pc'[p] = "done" /\ faults' > 0
      BY <1>0, <2>1, <2>3, <3>1, EndFrame DEF Undone
    <3> QED
      BY <1>2, <2>1, <3>2 DEF Undone
  <2> QED
    BY <1>7, <2>2, <2>3 DEF UndoBlob, At
<1>8. CASE UndoState(p)
  <2>1. /\ pc[p] = "undoState" /\ End(p, reply[p])
        /\ UNCHANGED <<kind, known, detached, hasBlob>>
        /\ (~hasState' /\ faults' = faults) \/ faults' = faults + 1
    BY <1>8 DEF UndoState, At, KeepBlob, KeepEnv, KeepHist, histVars, Ready, Fault
  <2>2. pc'[p] = "done" /\ reply'[p] = reply[p]
    BY <1>0, <2>1, EndFrame
  <2> QED
    BY <1>0, <1>2, <2>1, <2>2 DEF Undone
<1>9. CASE Open(p)
  <2>1. pc[p] = "open" /\ UNCHANGED <<kind, known, detached>>
        /\ (Continue(p, "write") \/ Abort(p, "error"))
    BY <1>9 DEF Open, At, KeepHist, histVars, KeepEnv
  <2> QED
    BY <1>3, <1>4, <2>1 DEF Receiving
<1>10. CASE WriteChunk(p)
  <2>1. pc[p] = "write" /\ UNCHANGED <<pc, reply, known, detached>>
    BY <1>10 DEF WriteChunk, At, KeepHist, histVars, KeepEnv
  <2> QED
    BY <1>0, <2>1 DEF Undone
<1>11. CASE StreamError(p)
  <2>1. pc[p] = "write" /\ UNCHANGED <<kind, known, detached>> /\ Abort(p, "error")
    BY <1>11 DEF StreamError, At, KeepHist, histVars, KeepEnv
  <2> QED
    BY <1>3, <2>1 DEF Receiving
<1>12. CASE Sync(p)
  <2>1. pc[p] = "write" /\ UNCHANGED <<kind, known, detached>>
        /\ (Continue(p, "commit") \/ Abort(p, "error"))
    BY <1>12 DEF Sync, At, KeepHist, histVars, KeepEnv
  <2> QED
    BY <1>3, <1>4, <2>1 DEF Receiving
<1>13. CASE Commit(p)
  <2>1. pc[p] = "commit" /\ UNCHANGED <<kind, known, detached>>
    BY <1>13 DEF Commit, At, KeepHist, histVars, KeepEnv
  <2>2. CASE Abort(p, "error")
    BY <1>3, <2>1, <2>2 DEF Receiving
  <2>3. CASE ~Abort(p, "error")
    <3>1. PICK point, s : point \in {"gate", "respond"} /\ Proceed(p, point, s, arg[p])
      BY <1>13, <2>3 DEF Commit, ContinueWith
    <3>2. pc'[p] = point /\ reply'[p] = reply[p]
      BY <1>0, <2>1, <3>1, ProceedFrame
    <3> QED
      BY <1>0, <1>2, <2>1, <3>1, <3>2 DEF Undone
  <2> QED
    BY <2>2, <2>3
<1>14. CASE FinishGate(p)
  <2>1. pc[p] = "gate" /\ UNCHANGED <<kind, known, detached>>
        /\ (Continue(p, "notify") \/ Abort(p, "rejected"))
    BY <1>14 DEF FinishGate, At, KeepHist, histVars, KeepEnv
  <2> QED
    BY <1>3, <1>4, <2>1 DEF Receiving
<1>15. CASE FinishNotify(p)
  <2>1. pc[p] = "notify" /\ UNCHANGED <<kind, known, detached>> /\ Continue(p, "respond")
    BY <1>15 DEF FinishNotify, At, KeepEnv
  <2> QED
    BY <1>4, <2>1
<1>16. CASE Respond(p)
  <2>1. End(p, "ok") /\ UNCHANGED kind
    BY <1>16 DEF Respond
  <2>2. pc'[p] = "done" /\ reply'[p] = "ok"
    BY <1>0, <2>1, EndFrame
  <2> QED
    BY <2>2 DEF Undone
<1> QED
  BY <1>1, <1>5, <1>6, <1>7, <1>8, <1>9, <1>10, <1>11, <1>12, <1>13, <1>14, <1>15, <1>16
  DEF Handle, Creation, At, Lock, Load, Detect, RecoverGate, RecoverPersist,
      RecoverNotify, Reconcile, Prepare, PreTerminate, DeleteBlob, DeleteState,
      TryLock, Assess

LEMMA HandleClean ==
  ASSUME TypeInv, Exclusive, Clean, NEW p \in Procs, Handle(p)
  PROVE  Clean'
<1>0. Locals /\ Local(p)
  BY DEF TypeInv, Locals
<1>1. Move(p) /\ detached' = detached /\ (known' # known => Respond(p))
  BY <1>0, QuietStep, TouchingStep
<1>2. CASE kind[p] = "post"
  <2>1. p \in Requests
    BY <1>0, <1>2 DEF Local, Procs
  <2>2. \A q \in Requests : q # p => kind[q] # "post"
    BY <1>2 DEF Exclusive, CreationFirst, Procs
  <2> QED
    BY <1>1, <1>2, <2>1, <2>2, CreatorUndone, OwnClean DEF Move
<1>3. CASE kind[p] # "post"
  <2>1. faults' = faults \/ faults' = faults + 1
    BY DEF Handle, StorageCreate, RecordNew, UndoBlob, UndoState, Lock, Load, Detect,
           RecoverGate, RecoverPersist, RecoverNotify, Reconcile, Prepare, Open,
           WriteChunk, StreamError, Sync, Commit, FinishGate, FinishNotify, Respond,
           PreTerminate, DeleteBlob, DeleteState, TryLock, Assess, Ready, Fault
  <2>2. pc[p] \notin {"create", "record", "undoBlob", "undoAll", "undoState", "idle", "done"}
    <3>1. pc[p] \notin {"create", "record", "undoBlob", "undoAll", "undoState"}
      BY <1>3, CreationPoints
    <3>2. pc[p] \notin {"idle", "done"}
      BY DEF Handle, At, StorageCreate, RecordNew, UndoBlob, UndoState, Lock, Load, Detect,
           RecoverGate, RecoverPersist, RecoverNotify, Reconcile, Prepare, Open,
           WriteChunk, StreamError, Sync, Commit, FinishGate, FinishNotify, Respond,
           PreTerminate, DeleteBlob, DeleteState, TryLock, Assess
    <3> QED
      BY <3>1, <3>2
  <2>3. kind[p] \in Comers \/ kind[p] = "sweep"
    BY <1>0, <1>3, <2>2 DEF Local, Kinds, Comers, Route
  <2>4. hasBlob' => hasBlob
    BY <2>2 DEF Handle, At, StorageCreate, RecordNew, UndoBlob, UndoState, Lock, Load,
           Detect, RecoverGate, RecoverPersist, RecoverNotify, Reconcile, Prepare, Open,
           WriteChunk, StreamError, Sync, Commit, FinishGate, FinishNotify, Respond,
           PreTerminate, DeleteBlob, DeleteState, TryLock, Assess, KeepStores, storeVars,
           KeepBlob
  <2>5. hasState' => hasState \/ known
    <3>1. kind[p] = "sweep" => pc[p] \notin {"recPersist", "reconcile", "commit"}
      BY <1>0 DEF Local, Route
    <3>2. pc[p] \notin {"recPersist", "reconcile", "commit"} => (hasState' => hasState)
      BY <2>2 DEF Handle, At, StorageCreate, RecordNew, UndoBlob, UndoState, Lock, Load,
           Detect, RecoverGate, RecoverPersist, RecoverNotify, Reconcile, Prepare, Open,
           WriteChunk, StreamError, Sync, Commit, FinishGate, FinishNotify, Respond,
           PreTerminate, DeleteBlob, DeleteState, TryLock, Assess, KeepStores, storeVars,
           KeepState
    <3>3. kind[p] \in Comers => known
      BY DEF Exclusive, CreationFirst
    <3> QED
      BY <2>3, <3>1, <3>2, <3>3
  <2>6. known' = known
    <3>1. known \in BOOLEAN /\ (Respond(p) => known' = known)
      BY <1>3 DEF Respond, Creating, TypeInv, RestOK
    <3> QED
      BY <1>1, <3>1
  <2> QED
    BY <1>1, <2>1, <2>3, <2>4, <2>5, <2>6, OtherClean DEF Move, Comers
<1> QED
  BY <1>2, <1>3

LEMMA NextClean ==
  ASSUME TypeInv, Exclusive, Clean, [Next]_vars
  PROVE  Clean'
<1>0. Locals /\ faults \in Nat
  BY ConstantsAssumption DEF TypeInv, RestOK
<1>1. CASE UNCHANGED <<hasState, hasBlob, detached, pc, kind, reply, known, faults>>
  BY <1>1 DEF Clean, Undone
<1>2. ASSUME NEW p \in Procs, Handle(p) PROVE Clean'
  BY <1>2, HandleClean
<1>3. ASSUME NEW r \in Requests, Post(r) PROVE Clean'
  <2>1. /\ r \in Procs /\ pc[r] = "idle" /\ kind' = [kind EXCEPT ![r] = "post"]
        /\ \A q \in Requests : kind[q] # "post"
        /\ UNCHANGED <<known, detached, hasBlob, hasState, faults>>
    BY <1>3
    DEF Post, Procs, At, Creating, KeepHist, histVars, KeepEnv, KeepStores, storeVars, Ready
  <2>2. kind[r] = "none" /\ kind'[r] = "post"
    BY <1>0, <2>1, ConstantsAssumption
    DEF Locals, Local, AreFunctions, Route, Kinds, Access, Receiving, Creation
  <2>3. ~known /\ ~hasState /\ ~hasBlob /\ detached = {} /\ reply[r] = "none"
    BY <2>1, <2>2 DEF Clean, Exclusive, CreationFirst
  <2>4. /\ Frame(r)
        /\ \/ pc'[r] = "create" /\ reply'[r] = reply[r]
           \/ pc'[r] \in {"idle", "done"}
    BY <1>0, <1>3, PostFrame
  <2>5. pc'[r] # "idle"
    BY <1>0, <1>3, <2>1, ConstantsAssumption
    DEF Post, End, Proceed, Goto, Locals, AreFunctions
  <2>6. Undone(r)'
    BY <2>1, <2>3, <2>4, <2>5 DEF Undone
  <2> QED
    BY <2>1, <2>2, <2>4, <2>6, OwnClean
<1>4. ASSUME NEW r \in Requests, Arrive(r) PROVE Clean'
  <2>1. /\ r \in Procs /\ pc[r] = "idle" /\ known
        /\ UNCHANGED <<known, detached, hasBlob, hasState>>
        /\ faults' = faults \/ faults' = faults + 1
    BY <1>4
    DEF Arrive, Procs, At, KeepHist, histVars, KeepEnv, KeepStores, storeVars, Ready, Fault
  <2>2. Frame(r) /\ kind'[r] \notin {"none", "post"}
    BY <1>0, <1>4, ArriveFrame DEF Comers
  <2>3. \A q \in Procs : q # r => /\ pc'[q] = pc[q] /\ kind'[q] = kind[q]
                                 /\ reply'[q] = reply[q]
    BY <1>0, <2>2 DEF Frame, Locals, AreFunctions
  <2>4. kind[r] # "post"
    BY <1>0, <2>1 DEF Locals, Local, Route, Creation
  <2>5. PICK q \in Requests : kind[q] = "post"
    BY <2>1 DEF Exclusive, CreationFirst
  <2>6. kind'[q] = "post"
    BY <2>3, <2>4, <2>5 DEF Procs
  <2>7. ASSUME NEW x \in Requests, kind'[x] = "post" PROVE Undone(x)'
    <3>1. x # r /\ kind[x] = "post" /\ pc'[x] = pc[x] /\ reply'[x] = reply[x] /\ Undone(x)
      BY <2>2, <2>3, <2>7 DEF Procs, Clean
    <3>2. faults' = 0 => faults = 0
      BY <1>0, <2>1
    <3>3. faults > 0 => faults' > 0
      BY <1>0, <2>1
    <3> QED
      BY <2>1, <3>1, <3>2, <3>3 DEF Undone
  <2> QED
    BY <2>2, <2>3, <2>6, <2>7 DEF Clean
<1>5. ASSUME NEW r \in Requests, Cancel(r) PROVE Clean'
  <2>1. /\ r \in Procs /\ pc[r] \notin {"idle", "done"} /\ End(r, "cut")
        /\ UNCHANGED <<kind, known, hasBlob, hasState, faults>> /\ r \notin Sweepers
    BY <1>5, ConstantsAssumption
    DEF Cancel, At, Procs, KeepHist, histVars, KeepStores, storeVars, Ready
  <2>2. Frame(r) /\ pc'[r] = "done" /\ reply'[r] = "cut"
    BY <1>0, <2>1, EndFrame
  <2>3. kind[r] \in Comers \cup {"post"}
    BY <1>0, <2>1 DEF Locals, Local, Kinds, Comers, Route
  <2>4. CASE kind[r] = "post"
    <3>1. Undone(r)'
      BY <2>2 DEF Undone
    <3>2. \A q \in Requests : q # r => kind[q] # "post"
      BY <2>4 DEF Exclusive, CreationFirst, Procs
    <3> QED
      BY <2>1, <2>2, <2>4, <3>1, <3>2, OwnClean
  <2>5. CASE kind[r] \in Comers
    <3>1. known
      BY <2>1, <2>5 DEF Exclusive, CreationFirst
    <3> QED
      BY <2>1, <2>2, <2>5, <3>1, OtherClean DEF Comers
  <2> QED
    BY <2>3, <2>4, <2>5
<1>6. ASSUME NEW s \in Sweepers, ListExpired(s) PROVE Clean'
  <2>1. /\ s \in Procs /\ Continue(s, "tryLock")
        /\ UNCHANGED <<kind, known, hasBlob, hasState, detached, faults>>
    BY <1>6
    DEF ListExpired, Procs, KeepHist, histVars, KeepEnv, KeepStores, storeVars, Ready
  <2>2. kind[s] = "sweep" /\ Frame(s)
    BY <1>0, <2>1, ContinueFrame DEF Locals, Local
  <2> QED
    BY <2>1, <2>2, OtherClean
<1>7. ASSUME NEW d \in detached, Late(d) PROVE Clean'
  <2>1. UNCHANGED <<pc, kind, reply, known>>
    BY <1>7 DEF Late, procVars
  <2>2. PICK r \in Requests : kind[r] = "post"
    BY <1>7 DEF Clean
  <2>3. \A q \in Requests :
          kind[q] = "post" => pc[q] = "done" /\ reply[q] \notin {"error", "rejected"}
    BY <1>7 DEF Clean, Undone
  <2> QED
    BY <2>1, <2>2, <2>3 DEF Clean, Undone
<1>8. CASE Crash
  <2>1. /\ \A p \in Procs : pc'[p] = (IF p \in Sweepers \/ pc[p] = "idle"
                                      THEN "idle" ELSE "done")
        /\ \A p \in Procs : reply'[p] = (IF pc[p] = "idle" \/ pc[p] = "done"
                                         THEN reply[p] ELSE "cut")
        /\ detached' = {} /\ UNCHANGED <<kind, known, hasBlob, hasState, faults>>
    BY <1>8 DEF Crash, At, KeepHist, histVars, KeepStores, storeVars, Ready
  <2>2. \A p \in Procs : kind'[p] = "none" => reply'[p] = "none"
    BY <1>0, <2>1 DEF Clean, Locals, Local, Route
  <2>3. ASSUME NEW r \in Requests, kind'[r] = "post" PROVE Undone(r)'
    <3>1. r \in Procs /\ r \notin Sweepers /\ pc[r] # "idle" /\ Undone(r)
      BY <1>0, <2>1, <2>3, ConstantsAssumption DEF Procs, Locals, Local, Route, Creation, Clean
    <3>2. pc'[r] = "done" /\ (reply'[r] = "cut" \/ (pc[r] = "done" /\ reply'[r] = reply[r]))
      BY <2>1, <3>1
    <3> QED
      BY <2>1, <3>1, <3>2 DEF Undone
  <2> QED
    BY <2>1, <2>2, <2>3 DEF Clean
<1> QED
  BY <1>1, <1>2, <1>3, <1>4, <1>5, <1>6, <1>7, <1>8
  DEF Next, vars, storeVars, procVars, histVars, Tick

LEMMA InitCInv == Init => CInv
<1> SUFFICES ASSUME Init PROVE CInv
  OBVIOUS
<1>1. TypeInv /\ Exclusive
  BY InitTypeInv, InitExclusive
<1>2. Clean
  BY ConstantsAssumption DEF Init, Clean, Procs
<1> QED
  BY <1>1, <1>2 DEF CInv

LEMMA NextCInv == CInv /\ [Next]_vars => CInv'
BY TypeInvNext, NextExclusive, NextClean DEF CInv

\* A creation that answers with an error has undone what it did, unless a
\* store operation failed on the way: with or without operations that outlive
\* their handlers, and even if the sweeper meets a creation that is too slow.
THEOREM FailedCreationAlways == Spec => []FailedCreationLeavesNothing
<1>1. CInv => FailedCreationLeavesNothing
  <2> SUFFICES ASSUME CInv, NEW r \in Requests, kind[r] = "post",
                      reply[r] \in {"error", "rejected"}, pc[r] = "done"
               PROVE  faults > 0 \/ (~hasState /\ ~hasBlob)
    BY DEF FailedCreationLeavesNothing, Creating, At
  <2>1. Undone(r) /\ faults \in Nat
    BY ConstantsAssumption DEF CInv, Clean, TypeInv, RestOK
  <2> QED
    BY <2>1 DEF Undone
<1> QED
  BY <1>1, InitCInv, NextCInv, PTL DEF Spec

-----------------------------------------------------------------------------
(* The handler at work.                                                    *)

\* Nobody has the lock before the creation has ended.
Calm ==
  /\ \A r \in Procs : kind[r] = "post" /\ pc[r] # "done" => lock = NoOne
  /\ (\A r \in Requests : kind[r] # "post") =>
       lock = NoOne /\ \A s \in Sweepers : pc[s] = "idle"

Limited == hasState => Size <= MaxSize /\ ~StoredTooMuch(state)

\* The record and the object, for themselves.
Kept ==
  /\ (\A r \in Requests : kind[r] # "post") => ~hasState /\ ~hasBlob /\ ~doomed /\ finished = 0
  /\ doomed => ~hasBlob
  /\ ~known => acked = 0
  /\ known /\ ~doomed => hasState
  /\ hasState /\ ~doomed =>
       /\ hasBlob
       /\ acked <= state.offset /\ state.offset <= Size
       /\ finished = 1 => Complete(state)
  /\ Limited
  /\ finished \in {0, 1}

\* The points at which a handler's copy of the record is the record.
Loaded == {"detect", "recGate", "recPersist", "recNotify", "reconcile", "prepare",
           "gate", "notify", "terminate", "delBlob", "delState", "assess"}
\* The points from which PostFinish will run if nothing goes wrong.
Finishing == {"write", "commit", "gate", "notify", "recGate", "recPersist", "recNotify"}

\* The points of a process that has nothing to do with the stores.
Resting == {"idle", "done", "lock", "tryLock"}

\* What the handler at work knows of the record and the object.
Sees(p) ==
  /\ pc[p] = "create" => ~hasState /\ ~hasBlob /\ ~doomed /\ finished = 0
  /\ pc[p] \in {"record", "undoBlob"} =>
       ~hasState /\ ~doomed /\ hasBlob /\ bytes = << >> /\ finished = 0
  /\ pc[p] \in {"create", "record"} =>
       st[p].offset = 0 /\ (arg[p].size # NoBody => Fits(st[p], arg[p].size))
  /\ pc[p] \in Loaded => hasState /\ state = st[p]
  /\ pc[p] \in {"open", "write", "commit"} =>
       /\ hasState /\ Fits(st[p], arg[p].size)
       /\ st[p].offset = state.offset /\ st[p].partial = state.partial
       /\ state.length # Deferred => st[p].length = state.length
  /\ pc[p] = "open" => doomed \/ finished = 0
  /\ pc[p] = "write" => hasBlob /\ sent[p] <= arg[p].size
  /\ pc[p] = "commit" => hasBlob /\ Size = st[p].offset + arg[p].size
  /\ pc[p] \in {"gate", "notify"} => st[p].offset = Size /\ Complete(st[p])
  /\ pc[p] = "prepare" => st[p].offset = Size
  /\ pc[p] \in {"recGate", "recPersist"} => Size = st[p].length /\ ~Complete(st[p])
  /\ pc[p] = "recNotify" => Complete(st[p])
  /\ pc[p] \in Finishing => finished = 0
  /\ kind[p] = "post" /\ pc[p] \notin Resting \cup {"respond"} => finished = 0
  /\ pc[p] = "respond" /\ kind[p] # "delete" =>
       /\ hasState /\ state = st[p] /\ st[p].offset = Size
       /\ kind[p] = "get" => Complete(st[p])
  /\ pc[p] = "delBlob" /\ p \in Sweepers => ~(~st[p].partial /\ st[p].length = Size)
  /\ pc[p] = "delState" => doomed

Steady == Calm /\ Kept /\ \A p \in Procs : Sees(p)

-----------------------------------------------------------------------------
\* At most one process is at work.
LEMMA OneAtWork ==
  ASSUME TypeInv, Exclusive, Calm, NEW p \in Procs, NEW q \in Procs,
         pc[p] \notin Resting, pc[q] \notin Resting
  PROVE  p = q
<1>1. ASSUME NEW x \in Procs, pc[x] \notin Resting
      PROVE  /\ kind[x] # "post" => lock = x
             /\ kind[x] = "post" => lock = NoOne
  <2>1. pc[x] \in Critical \/ kind[x] = "post"
    BY <1>1, Busy DEF TypeInv, Resting
  <2> QED
    BY <1>1, <2>1 DEF Exclusive, LockCovers, Calm, Resting
<1> QED
  BY <1>1, ConstantsAssumption DEF Exclusive, CreationFirst

LEMMA RestSees ==
  ASSUME NEW p \in Procs, pc'[p] \in Resting
  PROVE  Sees(p)'
BY DEF Sees, Resting, Loaded, Finishing

LEMMA OthersSee ==
  ASSUME TypeInv, Exclusive, Calm, NEW p \in Procs, pc[p] \notin Resting, Frame(p)
  PROVE  \A q \in Procs : q # p => Sees(q)'
<1> SUFFICES ASSUME NEW q \in Procs, q # p PROVE Sees(q)'
  OBVIOUS
<1>1. pc[q] \in Resting
  BY OneAtWork
<1>2. pc'[q] = pc[q]
  BY DEF Frame, TypeInv, Locals, AreFunctions
<1> QED
  BY <1>1, <1>2, RestSees

\* Nothing that Sees mentions changes but p's own locals.
LEMMA SameSees ==
  ASSUME Locals, NEW p \in Procs, Frame(p), Sees(p)', \A q \in Procs : Sees(q),
         UNCHANGED <<storeVars, histVars>>
  PROVE  \A q \in Procs : Sees(q)'
<1> SUFFICES ASSUME NEW q \in Procs, q # p PROVE Sees(q)'
  OBVIOUS
<1>1. /\ pc'[q] = pc[q] /\ kind'[q] = kind[q] /\ st'[q] = st[q]
      /\ arg'[q] = arg[q] /\ sent'[q] = sent[q]
  BY DEF Frame, Locals, AreFunctions
<1>2. Sees(q)
  OBVIOUS
<1> QED
  BY <1>1, <1>2
  DEF Sees, storeVars, histVars, Size, Fits, Complete

LEMMA SameKept ==
  ASSUME Kept, UNCHANGED <<storeVars, histVars, kind>>
  PROVE  Kept'
BY DEF Kept, storeVars, histVars, Size, Limited, StoredTooMuch, Complete

LEMMA MoveCalm ==
  ASSUME TypeInv, Exclusive, Calm, NEW p \in Procs, Move(p), pc[p] # "idle",
         pc[p] \in {"lock", "tryLock"} /\ lock' = p =>
           \A r \in Procs : kind[r] = "post" => pc[r] = "done"
  PROVE  Calm'
<1>1. \A q \in Procs : q # p => pc'[q] = pc[q] /\ kind'[q] = kind[q]
  BY DEF Move, Frame, TypeInv, Locals, AreFunctions
<1>2. pc[p] # "done" /\ kind' = kind
  BY DEF Move
<1>3. ASSUME NEW r \in Procs, kind'[r] = "post", pc'[r] # "done"
      PROVE  lock' = NoOne
  <2>1. kind[r] = "post" /\ pc[r] # "done"
    BY <1>1, <1>2, <1>3
  <2>2. lock = NoOne
    BY <2>1 DEF Calm
  <2> QED
    BY <2>1, <2>2 DEF Move
<1>4. ASSUME \A r \in Requests : kind'[r] # "post"
      PROVE  lock' = NoOne /\ \A s \in Sweepers : pc'[s] = "idle"
  <2>1. lock = NoOne /\ \A s \in Sweepers : pc[s] = "idle"
    BY <1>2, <1>4 DEF Calm
  <2>2. p \notin Sweepers
    BY <2>1
  <2>3. kind[p] \notin Comers
    BY <1>2, <1>4 DEF Exclusive, CreationFirst
  <2>4. pc[p] \notin {"lock", "tryLock"}
    BY <2>2, <2>3 DEF TypeInv, Locals, Local, Kinds, Comers, Route, Creation
  <2> QED
    BY <1>1, <2>1, <2>2, <2>4 DEF Move, Procs
<1> QED
  BY <1>3, <1>4 DEF Calm

LEMMA WorkSteady ==
  ASSUME TypeInv, Exclusive, Steady, NEW p \in Procs, Move(p), pc[p] \notin Resting,
         Kept', Sees(p)'
  PROVE  Steady'
<1>1. Calm'
  BY MoveCalm DEF Steady, Resting
<1>2. \A q \in Procs : Sees(q)'
  BY OthersSee DEF Steady, Move
<1> QED
  BY <1>1, <1>2 DEF Steady

\* A handler that ends or waits, and has changed nothing.
LEMMA LeaveSteady ==
  ASSUME TypeInv, Exclusive, Steady, NEW p \in Procs, Move(p), pc[p] \notin Resting,
         UNCHANGED <<storeVars, histVars>>, pc'[p] \in Resting
  PROVE  Steady'
<1>1. Kept'
  BY SameKept DEF Steady, Move
<1> QED
  BY <1>1, RestSees, WorkSteady

\* A handler that goes on, and has changed nothing in the stores.
LEMMA OnSteady ==
  ASSUME TypeInv, Exclusive, Steady, NEW p \in Procs, Move(p), pc[p] \notin Resting,
         UNCHANGED <<storeVars, histVars>>, Sees(p)'
  PROVE  Steady'
<1>1. Kept'
  BY SameKept DEF Steady, Move
<1> QED
  BY <1>1, WorkSteady
-----------------------------------------------------------------------------
(* The steps of a handler.                                                 *)

\* Nobody has been told of the upload while it is being created.
LEMMA Unknown ==
  ASSUME TypeInv, Exclusive, NEW p \in Procs, kind[p] = "post", pc[p] # "done"
  PROVE  ~known /\ p \in Requests
BY Numbers DEF Exclusive, CreationFirst, Local, Procs

LEMMA StorageCreateSteady ==
  ASSUME TypeInv, Exclusive, Content, Steady, NEW p \in Procs, StorageCreate(p)
  PROVE  Steady'
<1>0. pc[p] = "create" /\ pc[p] \notin Resting /\ Sees(p) /\ Kept /\ Locals
  BY DEF StorageCreate, At, Resting, Steady, TypeInv
<1>1. /\ bytes' = << >> /\ UNCHANGED <<hasState, state, histVars, kind>>
      /\ ~hasState /\ ~doomed /\ finished = 0
  BY <1>0 DEF StorageCreate, KeepState, KeepEnv, KeepHist, Sees
<1>2. kind[p] = "post" /\ p \in Requests /\ ~known
  BY <1>0, CreationPoints, Unknown
<1>3. Kept'
  BY <1>0, <1>1, <1>2 DEF Kept, histVars, Limited
<1>4. CASE hasBlob' = TRUE /\ Continue(p, "record")
  <2>1. Move(p) /\ pc'[p] = "record" /\ st'[p] = st[p] /\ arg'[p] = arg[p]
    BY <1>0, <1>1, <1>4, ContinueMove, ContinueFrame DEF Resting
  <2>2. Sees(p)'
    BY <1>0, <1>1, <1>4, <2>1 DEF Sees, Resting, Loaded, Finishing, histVars, Fits
  <2> QED
    BY <1>0, <1>1, <1>3, <2>1, <2>2, WorkSteady
<1>5. CASE End(p, "error")
  <2>1. Move(p) /\ pc'[p] \in Resting
    BY <1>0, <1>1, <1>5, EndMove DEF Resting
  <2> QED
    BY <1>0, <1>1, <1>3, <2>1, RestSees, WorkSteady
<1> QED
  BY <1>4, <1>5 DEF StorageCreate

LEMMA RecordNewSteady ==
  ASSUME TypeInv, Exclusive, Content, Steady, NEW p \in Procs, RecordNew(p)
  PROVE  Steady'
<1>0. pc[p] = "record" /\ pc[p] \notin Resting /\ Sees(p) /\ Kept /\ Locals
  BY DEF RecordNew, At, Resting, Steady, TypeInv
<1>1. /\ UNCHANGED <<hasBlob, bytes, histVars, kind>>
      /\ ~hasState /\ ~doomed /\ hasBlob /\ bytes = << >> /\ finished = 0
      /\ st[p].offset = 0 /\ (arg[p].size # NoBody => Fits(st[p], arg[p].size))
  BY <1>0 DEF RecordNew, KeepBlob, KeepEnv, KeepHist, Sees
<1>2. kind[p] = "post" /\ p \in Requests /\ ~known
  BY <1>0, CreationPoints, Unknown
<1>n. /\ st[p].length \in Nat \cup {Deferred} /\ MaxSize \in Nat
      /\ arg[p].size \in Nat \cup {NoBody} /\ Len(bytes) = 0
  BY <1>1, Numbers
<1>3. CASE Continue(p, "undoBlob") /\ KeepState
  <2>1. Move(p) /\ pc'[p] = "undoBlob"
    BY <1>0, <1>1, <1>3, ContinueMove DEF Resting
  <2>2. Sees(p)'
    BY <1>0, <1>1, <1>3, <2>1 DEF Sees, Resting, Loaded, Finishing, histVars, KeepState
  <2> QED
    BY <1>0, <1>1, <1>3, <2>1, <2>2, OnSteady DEF storeVars, KeepState
<1>4. CASE ~(Continue(p, "undoBlob") /\ KeepState)
  <2>1. hasState' = TRUE /\ state' = st[p]
    BY <1>4 DEF RecordNew, Update
  <2>2. Kept'
    BY <1>0, <1>1, <1>2, <1>n, <2>1
    DEF Kept, histVars, Limited, StoredTooMuch, Size, Deferred
  <2>3. PICK point : /\ Continue(p, point)
                     /\ \/ point = "open" /\ arg[p].size # NoBody
                        \/ point = "gate" /\ Complete(st[p])
                        \/ point = "respond"
    BY <1>0, <1>4 DEF RecordNew
  <2>4. /\ Move(p) /\ pc'[p] = point /\ st'[p] = st[p] /\ arg'[p] = arg[p]
        /\ sent'[p] = sent[p] /\ kind'[p] = "post"
    BY <1>0, <1>1, <1>2, <2>3, ContinueMove, ContinueFrame DEF Resting
  <2>5. Sees(p)'
    BY <1>0, <1>1, <1>n, <2>1, <2>3, <2>4
    DEF Sees, Resting, Loaded, Finishing, histVars, Fits, Complete, Size
  <2> QED
    BY <1>0, <1>1, <2>2, <2>4, <2>5, WorkSteady
<1> QED
  BY <1>3, <1>4

LEMMA UndoSteady ==
  ASSUME TypeInv, Exclusive, Content, Steady, NEW p \in Procs, UndoBlob(p) \/ UndoState(p)
  PROVE  Steady'
<1>0. pc[p] \in {"undoBlob", "undoAll", "undoState"} /\ pc[p] \notin Resting
      /\ Sees(p) /\ Kept /\ Locals
  BY DEF UndoBlob, UndoState, At, Resting, Steady, TypeInv
<1>1. kind[p] = "post" /\ p \in Requests /\ ~known /\ finished = 0
  BY <1>0, CreationPoints, Unknown DEF Sees
<1>2. /\ UNCHANGED <<kind, known, acked, finished, state>>
      /\ \/ UNCHANGED <<hasState, hasBlob, bytes, doomed>>
         \/ /\ hasBlob' = FALSE /\ bytes' = << >> /\ doomed' = TRUE /\ hasState' = hasState
         \/ hasState' = FALSE /\ UNCHANGED <<hasBlob, bytes, doomed>>
  BY DEF UndoBlob, UndoState, KeepState, KeepBlob, KeepEnv, KeepHist, histVars
<1>3. Kept'
  BY <1>0, <1>1, <1>2, ConstantsAssumption, Numbers
  DEF Kept, Limited, StoredTooMuch, Size, Complete, Deferred
<1>4. CASE Continue(p, "undoState")
  <2>1. Move(p) /\ pc'[p] = "undoState"
    BY <1>0, <1>2, <1>4, ContinueMove DEF Resting
  <2>2. Sees(p)'
    BY <1>1, <1>2, <2>1 DEF Sees, Resting, Loaded, Finishing
  <2> QED
    BY <1>0, <1>2, <1>3, <2>1, <2>2, WorkSteady
<1>5. CASE \E answer : End(p, answer)
  <2>1. Move(p) /\ pc'[p] \in Resting
    BY <1>0, <1>2, <1>5, EndMove DEF Resting
  <2> QED
    BY <1>0, <1>2, <1>3, <2>1, RestSees, WorkSteady
<1> QED
  BY <1>4, <1>5 DEF UndoBlob, UndoState

LEMMA LockSteady ==
  ASSUME TypeInv, Exclusive, Content, Steady, NEW p \in Procs, Lock(p) \/ TryLock(p),
         ~breached'
  PROVE  Steady'
<1>0. pc[p] \in {"lock", "tryLock"} /\ Calm /\ Kept /\ Locals
  BY DEF Lock, TryLock, At, Steady, TypeInv
<1>1. UNCHANGED <<storeVars, histVars, kind>>
  BY DEF Lock, TryLock, KeepStores, KeepHist
<1>2. Move(p) /\ pc'[p] \in Resting \cup {"load"}
  BY <1>0, <1>1, EndMove, TakeMove DEF Lock, TryLock, Resting
<1>3. kind[p] # "post" /\ kind' = kind
  BY <1>0, <1>2, Numbers DEF Local, Route, Creation, Move
<1>4. Sees(p)'
  BY <1>2, <1>3, RestSees DEF Sees, Resting, Loaded, Finishing
<1>5. Calm'
  <2>1. CASE Acquire(p)
    <3>1. \A q \in Requests : kind[q] = "post" => pc[q] = "done"
      BY <2>1 DEF Acquire, Unlocked, Creating, At
    <3>2. \A q \in Procs : kind[q] = "post" => q \in Requests
      BY <1>0 DEF Locals, Local, Procs
    <3> QED
      BY <1>0, <1>2, <3>1, <3>2, MoveCalm
  <2>2. CASE End(p, "error")
    <3>1. lock' # p
      BY <1>0, <1>1, <2>2, EndFrame, ConstantsAssumption
    <3> QED
      BY <1>0, <1>2, <3>1, MoveCalm
  <2> QED
    BY <2>1, <2>2 DEF Lock, TryLock
<1>6. Kept'
  BY <1>0, <1>1, SameKept
<1>7. \A q \in Procs : Sees(q)'
  BY <1>0, <1>1, <1>2, <1>4, SameSees DEF Move, Steady
<1> QED
  BY <1>5, <1>6, <1>7 DEF Steady

LEMMA LoadSteady ==
  ASSUME TypeInv, Exclusive, Content, Steady, NEW p \in Procs, Load(p)
  PROVE  Steady'
<1>0. pc[p] = "load" /\ pc[p] \notin Resting /\ Kept /\ Locals
  BY DEF Load, At, Resting, Steady, TypeInv
<1>1. UNCHANGED <<storeVars, histVars, kind>>
  BY DEF Load, KeepStores, KeepEnv, KeepHist
<1>2. CASE End(p, "error")
  BY <1>0, <1>1, <1>2, EndMove, LeaveSteady DEF Resting
<1>3. CASE ~End(p, "error")
  <2>1. PICK point \in {"assess", "terminate", "detect"} :
          Proceed(p, point, state, arg[p]) /\ hasState
    BY <1>3 DEF Load, ContinueWith
  <2>2. /\ Move(p) /\ pc'[p] = point /\ st'[p] = state /\ kind'[p] = kind[p]
    BY <1>0, <1>1, <2>1, ProceedMove, ProceedFrame DEF Resting
  <2>3. kind[p] # "post"
    BY <1>0, Numbers DEF Local, Route, Creation
  <2>4. Sees(p)'
    BY <1>1, <2>1, <2>2, <2>3 DEF Sees, Resting, Loaded, Finishing, storeVars
  <2> QED
    BY <1>0, <1>1, <2>2, <2>4, OnSteady
<1> QED
  BY <1>2, <1>3

LEMMA DetectSteady ==
  ASSUME TypeInv, Exclusive, Content, Steady, NEW p \in Procs, Detect(p)
  PROVE  Steady'
<1>0. pc[p] = "detect" /\ pc[p] \notin Resting /\ Kept /\ Locals /\ Sees(p)
  BY DEF Detect, At, Resting, Steady, TypeInv
<1>1. UNCHANGED <<storeVars, histVars, kind>> /\ hasState /\ state = st[p]
  BY <1>0 DEF Detect, KeepStores, KeepEnv, KeepHist, Sees, Loaded
<1>2. CASE End(p, "error")
  BY <1>0, <1>1, <1>2, EndMove, LeaveSteady DEF Resting
<1>3. CASE ~End(p, "error")
  <2>1. PICK point : /\ Continue(p, point)
                     /\ \/ point = "reconcile"
                        \/ point = "recGate" /\ StoredCompletion(st[p])
    BY <1>3 DEF Detect
  <2>2. Move(p) /\ pc'[p] = point /\ st'[p] = st[p] /\ kind'[p] = kind[p]
    BY <1>0, <1>1, <2>1, ContinueMove, ContinueFrame DEF Resting
  <2>3. kind[p] # "post"
    BY <1>0, Numbers DEF Local, Route, Creation
  <2>4. CASE point = "reconcile"
    BY <1>0, <1>1, <2>2, <2>3, <2>4, OnSteady
    DEF Sees, Resting, Loaded, Finishing, storeVars
  <2>5. CASE point = "recGate"
    <3>1. /\ Len(bytes) = st[p].length /\ ~Complete(st[p]) /\ st[p].offset \in Nat
          /\ st[p].offset < Len(bytes)
      BY <2>1, <2>5, Numbers DEF StoredCompletion, Recoverable, Complete, Size
    <3>2. ~doomed
      BY <1>0, <3>1 DEF Kept, Content
    <3> QED
      BY <1>0, <1>1, <2>2, <2>3, <2>5, <3>1, <3>2, OnSteady
      DEF Sees, Resting, Loaded, Finishing, storeVars, histVars, Kept, Size, Complete
  <2> QED
    BY <2>1, <2>4, <2>5
<1> QED
  BY <1>2, <1>3

LEMMA RecoverGateSteady ==
  ASSUME TypeInv, Exclusive, Content, Steady, NEW p \in Procs, RecoverGate(p)
  PROVE  Steady'
<1>0. pc[p] = "recGate" /\ pc[p] \notin Resting /\ Locals /\ Sees(p)
  BY DEF RecoverGate, At, Resting, Steady, TypeInv
<1>1. UNCHANGED <<storeVars, histVars, kind>>
  BY DEF RecoverGate, KeepStores, KeepEnv, KeepHist
<1>2. CASE End(p, "rejected")
  BY <1>0, <1>1, <1>2, EndMove, LeaveSteady DEF Resting
<1>3. CASE Continue(p, "recPersist")
  <2>1. Move(p) /\ pc'[p] = "recPersist" /\ st'[p] = st[p] /\ kind'[p] = kind[p]
    BY <1>0, <1>1, <1>3, ContinueMove, ContinueFrame DEF Resting
  <2>2. Sees(p)'
    BY <1>0, <1>1, <2>1
    DEF Sees, Resting, Loaded, Finishing, storeVars, histVars, Size, Complete
  <2> QED
    BY <1>0, <1>1, <2>1, <2>2, OnSteady
<1> QED
  BY <1>2, <1>3 DEF RecoverGate

LEMMA RecoverPersistSteady ==
  ASSUME TypeInv, Exclusive, Content, Steady, NEW p \in Procs, RecoverPersist(p)
  PROVE  Steady'
<1> DEFINE s == [st[p] EXCEPT !.offset = st[p].length]
<1>0. pc[p] = "recPersist" /\ pc[p] \notin Resting /\ Kept /\ Locals /\ Sees(p)
  BY DEF RecoverPersist, At, Resting, Steady, TypeInv
<1>1. /\ UNCHANGED <<hasBlob, bytes, histVars, kind>>
      /\ hasState /\ state = st[p] /\ Len(bytes) = st[p].length /\ finished = 0
  BY <1>0 DEF RecoverPersist, KeepBlob, KeepEnv, KeepHist, Sees, Loaded, Finishing, Size
<1>n. s.offset = st[p].length /\ s.length = st[p].length /\ st[p].length \in Nat
      /\ st[p].offset \in Nat /\ acked \in Nat
  BY <1>1, Numbers DEF UploadState
<1>2. CASE End(p, "error") /\ KeepState
  BY <1>0, <1>1, <1>2, EndMove, LeaveSteady DEF Resting, KeepState, storeVars
<1>3. CASE Update(s) /\ ContinueWith(p, "recNotify", s)
  <2>1. Move(p) /\ pc'[p] = "recNotify" /\ st'[p] = s /\ kind'[p] = kind[p]
    BY <1>0, <1>1, <1>3, ProceedMove, ProceedFrame DEF Resting, ContinueWith
  <2>2. hasState' = TRUE /\ state' = s
    BY <1>3 DEF Update
  <2>3. Kept'
    BY <1>0, <1>1, <1>n, <2>2
    DEF Kept, histVars, Limited, StoredTooMuch, Size
  <2>4. Complete(s)
    BY <1>n DEF Complete, Deferred
  <2> HIDE DEF s
  <2>5. Sees(p)'
    BY <1>0, <1>1, <2>1, <2>2, <2>4
    DEF Sees, Resting, Loaded, Finishing, histVars, Complete
  <2> QED
    BY <1>0, <1>1, <2>1, <2>3, <2>5, WorkSteady
<1> QED
  BY <1>2, <1>3 DEF RecoverPersist

LEMMA RecoverNotifySteady ==
  ASSUME TypeInv, Exclusive, Content, Steady, NEW p \in Procs, RecoverNotify(p)
  PROVE  Steady'
<1>0. pc[p] = "recNotify" /\ pc[p] \notin Resting /\ Kept /\ Locals /\ Sees(p)
  BY DEF RecoverNotify, At, Resting, Steady, TypeInv
<1>1. /\ UNCHANGED <<storeVars, kind, known, acked, doomed>>
      /\ hasState /\ state = st[p] /\ finished = 0 /\ finished' = 1 /\ Complete(st[p])
  BY <1>0 DEF RecoverNotify, KeepStores, KeepEnv, Sees, Loaded, Finishing
<1>2. Move(p) /\ pc'[p] = "reconcile" /\ st'[p] = st[p] /\ kind'[p] = kind[p]
  BY <1>0, <1>1, ContinueMove, ContinueFrame DEF Resting, RecoverNotify
<1>3. kind[p] # "post"
  BY <1>0, Numbers DEF Local, Route, Creation
<1>4. \E r \in Requests : kind[r] = "post"
  BY <1>0, <1>1 DEF Kept
<1>5. Kept'
  BY <1>0, <1>1, <1>4 DEF Kept, storeVars, Limited, StoredTooMuch, Size, Complete
<1>6. Sees(p)'
  BY <1>1, <1>2, <1>3 DEF Sees, Resting, Loaded, Finishing, storeVars
<1> QED
  BY <1>0, <1>1, <1>2, <1>5, <1>6, WorkSteady

LEMMA ReconcileSteady ==
  ASSUME TypeInv, Exclusive, Content, Steady, NEW p \in Procs, Reconcile(p)
  PROVE  Steady'
<1>0. pc[p] = "reconcile" /\ pc[p] \notin Resting /\ Kept /\ Locals /\ Sees(p)
  BY DEF Reconcile, At, Resting, Steady, TypeInv
<1>1. /\ UNCHANGED <<hasBlob, bytes, histVars, kind>>
      /\ hasState /\ state = st[p] /\ kind[p] # "post"
  BY <1>0, Numbers
  DEF Reconcile, KeepBlob, KeepEnv, KeepHist, Sees, Loaded, Local, Route, Creation
<1>n. /\ Len(bytes) \in Nat /\ st[p].offset \in Nat /\ acked \in Nat
      /\ st[p].length \in Nat \cup {Deferred} /\ st[p] \in UploadState
  BY Numbers
<1>2. CASE End(p, "error") /\ KeepState
  BY <1>0, <1>1, <1>2, EndMove, LeaveSteady DEF Resting, KeepState, storeVars
<1>3. ASSUME NEW s \in UploadState, hasState' = TRUE, state' = s, AfterAccess(p, s),
             s.offset = Len(bytes), s.length = st[p].length, s.partial = st[p].partial
      PROVE  Steady'
  <2>1. Kept'
    BY <1>0, <1>1, <1>n, <1>3
    DEF Kept, histVars, Limited, StoredTooMuch, Size, Complete
  <2>2. CASE End(p, "error")
    BY <1>0, <1>1, <2>1, <2>2, EndMove, RestSees, WorkSteady DEF Resting
  <2>3. CASE \E point \in {"prepare", "respond"} :
               /\ Proceed(p, point, s, arg[p])
               /\ kind[p] = "get" => Complete(s)
    <3>1. PICK point \in {"prepare", "respond"} :
               /\ Proceed(p, point, s, arg[p])
               /\ kind[p] = "get" => Complete(s)
      BY <2>3
    <3>2. Move(p) /\ pc'[p] = point /\ st'[p] = s /\ kind'[p] = kind[p]
      BY <1>0, <1>1, <3>1, ProceedMove, ProceedFrame DEF Resting
    <3>3. Sees(p)'
      BY <1>0, <1>1, <1>3, <3>1, <3>2
      DEF Sees, Resting, Loaded, Finishing, histVars, Complete, Size
    <3> QED
      BY <1>0, <1>1, <2>1, <3>2, <3>3, WorkSteady
  <2> QED
    BY <1>3, <2>2, <2>3 DEF AfterAccess, ContinueWith
<1>4. CASE Size = st[p].offset /\ AfterAccess(p, st[p]) /\ KeepState
  BY <1>0, <1>1, <1>n, <1>3, <1>4 DEF KeepState, Size
<1>5. CASE ~(Size = st[p].offset) /\ ~StoredTooMuch(st[p])
           /\ Update([st[p] EXCEPT !.offset = Size])
           /\ AfterAccess(p, [st[p] EXCEPT !.offset = Size])
  <2> DEFINE s == [st[p] EXCEPT !.offset = Size]
  <2>1. /\ s \in UploadState /\ s.offset = Len(bytes) /\ s.length = st[p].length
        /\ s.partial = st[p].partial
    BY <1>n DEF UploadState, Size
  <2>2. hasState' = TRUE /\ state' = s /\ AfterAccess(p, s)
    BY <1>5 DEF Update
  <2> HIDE DEF s
  <2> QED
    BY <1>3, <2>1, <2>2
<1> QED
  BY <1>2, <1>4, <1>5 DEF Reconcile

LEMMA PrepareSteady ==
  ASSUME TypeInv, Exclusive, Content, Steady, NEW p \in Procs, Prepare(p)
  PROVE  Steady'
<1>0. pc[p] = "prepare" /\ pc[p] \notin Resting /\ Kept /\ Locals /\ Sees(p)
  BY DEF Prepare, At, Resting, Steady, TypeInv
<1>1. /\ UNCHANGED <<storeVars, histVars, kind>>
      /\ hasState /\ state = st[p] /\ kind[p] # "post" /\ st[p].offset = Len(bytes)
  BY <1>0, Numbers
  DEF Prepare, KeepStores, KeepEnv, KeepHist, Sees, Loaded, Local, Route, Creation, Size
<1>2. CASE End(p, "error")
  BY <1>0, <1>1, <1>2, EndMove, LeaveSteady DEF Resting
<1>3. CASE ~End(p, "error")
  <2>1. PICK offset \in 0 .. MaxSize, length \in Lengths \cup {Deferred},
             size \in BodySizes :
          /\ Receivable(st[p], offset, length)
          /\ Fits(WithLength(st[p], length), size)
          /\ Proceed(p, "open", WithLength(st[p], length),
                     [offset |-> offset, size |-> size])
    BY <1>3 DEF Prepare
  <2> DEFINE s == WithLength(st[p], length)
             a == [offset |-> offset, size |-> size]
  <2>2. /\ s.offset = st[p].offset /\ s.partial = st[p].partial
        /\ st[p].length # Deferred => s.length = st[p].length
        /\ a.size = size
    BY <2>1, Numbers DEF WithLength, Receivable, UploadState
  <2>3. doomed \/ finished = 0
    BY <1>0, <1>1, <2>1 DEF Receivable, Kept
  <2>4. Fits(s, a.size) /\ Proceed(p, "open", s, a)
    BY <2>1, <2>2
  <2> HIDE DEF s, a
  <2>5. Move(p) /\ pc'[p] = "open" /\ st'[p] = s /\ arg'[p] = a /\ kind'[p] = kind[p]
    BY <1>0, <1>1, <2>4, ProceedMove, ProceedFrame DEF Resting
  <2>6. Sees(p)'
    BY <1>0, <1>1, <2>2, <2>3, <2>4, <2>5
    DEF Sees, Resting, Loaded, Finishing, storeVars, histVars, Fits
  <2> QED
    BY <1>0, <1>1, <2>5, <2>6, OnSteady
<1> QED
  BY <1>2, <1>3

\* An error while receiving bytes, when the stores are as they should be.
LEMMA AbortSteady ==
  ASSUME TypeInv, Exclusive, Content, Steady, NEW p \in Procs, NEW answer,
         Abort(p, answer), pc[p] \in Receiving, UNCHANGED <<kind, histVars>>,
         Kept'
  PROVE  Steady'
<1>0. Locals /\ pc[p] \notin Resting /\ Sees(p)
  BY DEF TypeInv, Receiving, Resting, Steady
<1>1. Move(p) /\ pc'[p] \in {"idle", "done", "undoAll"} /\ kind'[p] = kind[p]
  BY <1>0, AbortMove
<1>2. kind[p] = "post" => finished' = 0
  BY <1>0 DEF Sees, Resting, histVars, Receiving
<1>3. kind[p] # "post" => pc'[p] # "undoAll"
  BY <1>0, EndMove DEF Abort, Creating, Receiving
<1>4. Sees(p)'
  BY <1>1, <1>2, <1>3 DEF Sees, Resting, Loaded, Finishing
<1> QED
  BY <1>0, <1>1, <1>4, WorkSteady

LEMMA OpenSteady ==
  ASSUME TypeInv, Exclusive, Content, Steady, NEW p \in Procs, Open(p)
  PROVE  Steady'
<1>0. pc[p] = "open" /\ pc[p] \notin Resting /\ Kept /\ Locals /\ Sees(p) /\ Local(p)
  BY Numbers DEF Open, At, Resting, Steady, TypeInv
<1>1. UNCHANGED <<storeVars, histVars, kind>>
  BY DEF Open, KeepStores, KeepEnv, KeepHist
<1>2. CASE Abort(p, "error")
  <2>1. Kept'
    BY <1>0, <1>1, SameKept
  <2> QED
    BY <1>0, <1>1, <1>2, <2>1, AbortSteady DEF Receiving
<1>3. CASE hasBlob /\ Continue(p, "write")
  <2>1. /\ Move(p) /\ pc'[p] = "write" /\ st'[p] = st[p] /\ kind'[p] = kind[p]
        /\ arg'[p] = arg[p] /\ sent'[p] = sent[p]
    BY <1>0, <1>1, <1>3, ContinueMove, ContinueFrame DEF Resting
  <2>2. sent[p] = 0 /\ arg[p].size \in Nat
    BY <1>0, Numbers DEF Local, Early
  <2>3. ~doomed
    BY <1>0, <1>3 DEF Kept
  <2>4. Sees(p)'
    BY <1>0, <1>1, <1>3, <2>1, <2>2, <2>3
    DEF Sees, Resting, Loaded, Finishing, storeVars, histVars, Fits
  <2> QED
    BY <1>0, <1>1, <2>1, <2>4, OnSteady
<1> QED
  BY <1>2, <1>3 DEF Open

\* While bytes are received the object ends where the writer stands.
LEMMA Standing ==
  ASSUME TypeInv, Exclusive, Content, Steady, NEW p \in Procs, pc[p] = "write"
  PROVE  /\ hasBlob /\ hasState /\ ~doomed /\ finished = 0
         /\ Len(bytes) = st[p].offset + sent[p] /\ sent[p] <= arg[p].size
         /\ arg[p].size \in Nat /\ sent[p] \in Nat /\ st[p].offset \in Nat
         /\ st[p].offset + arg[p].size <= MaxSize
         /\ st[p].length # Deferred => st[p].offset + arg[p].size <= st[p].length
         /\ st[p].offset = state.offset /\ st[p].partial = state.partial
         /\ state.length # Deferred => st[p].length = state.length
<1>1. Sees(p) /\ Kept /\ Local(p)
  BY Numbers DEF Steady
<1>2. arg[p].size \in Nat /\ sent[p] \in Nat /\ st[p].offset \in Nat
  BY <1>1, Numbers DEF Local
<1>3. hasBlob /\ Len(bytes) = st[p].offset + sent[p]
  BY <1>1 DEF Sees, Content, WriterAtEnd
<1> QED
  BY <1>1, <1>2, <1>3 DEF Sees, Kept, Finishing, Fits

LEMMA WriteChunkSteady ==
  ASSUME TypeInv, Exclusive, Content, Steady, NEW p \in Procs, WriteChunk(p)
  PROVE  Steady'
<1>0. pc[p] = "write" /\ pc[p] \notin Resting /\ Kept /\ Locals /\ Sees(p) /\ Local(p)
  BY Numbers DEF WriteChunk, At, Resting, Steady, TypeInv
<1>1. /\ UNCHANGED <<hasState, state, hasBlob, histVars, kind, pc, st, arg>>
      /\ sent[p] < arg[p].size /\ bytes' = Appended(arg[p].offset + sent[p] + 1)
      /\ sent' = [sent EXCEPT ![p] = @ + 1]
  BY DEF WriteChunk, KeepState, KeepEnv, KeepHist
<1>2. Move(p)
  BY <1>0, TouchingStep DEF Touching
<1>3. sent'[p] = sent[p] + 1
  BY <1>0, <1>1 DEF Locals, AreFunctions
<1>4. Len(bytes') = Len(bytes) + 1
  BY <1>1, Standing, <1>0 DEF Appended, TypeInv, StoreOK
<1>5. \E r \in Requests : kind[r] = "post"
  BY <1>0, Standing DEF Kept
<1>6. Kept'
  <2>1. /\ Len(bytes) \in Nat /\ MaxSize \in Nat /\ state.offset \in Nat /\ acked \in Nat
        /\ state.length \in Nat \cup {Deferred}
    BY Numbers
  <2>2. /\ hasBlob /\ hasState /\ ~doomed /\ finished = 0
        /\ Len(bytes) + 1 <= MaxSize
        /\ state.length # Deferred => Len(bytes) + 1 <= state.length
    <3>1. /\ hasBlob /\ hasState /\ ~doomed /\ finished = 0
          /\ Len(bytes) = st[p].offset + sent[p]
          /\ arg[p].size \in Nat /\ sent[p] \in Nat /\ st[p].offset \in Nat
          /\ st[p].offset + arg[p].size <= MaxSize
          /\ st[p].length # Deferred => st[p].offset + arg[p].size <= st[p].length
          /\ state.length # Deferred => st[p].length = state.length
      BY <1>0, Standing DEF Sees
    <3> QED
      BY <1>1, <2>1, <3>1
  <2>3. Limited'
    BY <1>1, <1>4, <2>1, <2>2 DEF Limited, StoredTooMuch, Size
  <2> QED
    BY <1>0, <1>1, <1>4, <1>5, <2>1, <2>2, <2>3 DEF Kept, histVars, Size
<1>7. Sees(p)'
  BY <1>0, <1>1, <1>3, Standing
  DEF Sees, Resting, Loaded, Finishing, histVars, Fits
<1> QED
  BY <1>0, <1>1, <1>2, <1>6, <1>7, WorkSteady

LEMMA StreamErrorSteady ==
  ASSUME TypeInv, Exclusive, Content, Steady, NEW p \in Procs, StreamError(p)
  PROVE  Steady'
<1>0. pc[p] = "write" /\ Kept
  BY DEF StreamError, At, Steady
<1>1. /\ UNCHANGED <<hasState, state, hasBlob, histVars, kind>>
      /\ Abort(p, "error")
      /\ bytes' = bytes \/ bytes' = Truncated(st[p].offset)
  BY DEF StreamError, KeepState, KeepEnv, KeepHist
<1>2. Len(bytes') = Len(bytes) \/ Len(bytes') = st[p].offset
  BY <1>0, <1>1, Standing DEF Truncated
<1>3. \E r \in Requests : kind[r] = "post"
  BY <1>0, Standing DEF Kept
<1>4. Kept'
  BY <1>0, <1>1, <1>2, <1>3, Standing, Numbers
  DEF Kept, histVars, Limited, StoredTooMuch, Size
<1> QED
  BY <1>0, <1>1, <1>4, AbortSteady DEF Receiving

LEMMA SyncSteady ==
  ASSUME TypeInv, Exclusive, Content, Steady, NEW p \in Procs, Sync(p)
  PROVE  Steady'
<1>0. pc[p] = "write" /\ pc[p] \notin Resting /\ Kept /\ Locals /\ Sees(p)
  BY DEF Sync, At, Steady, Resting, TypeInv
<1>1. UNCHANGED <<storeVars, histVars, kind>> /\ sent[p] = arg[p].size
  BY DEF Sync, KeepStores, KeepEnv, KeepHist
<1>2. CASE Abort(p, "error")
  <2>1. Kept'
    BY <1>0, <1>1, SameKept
  <2> QED
    BY <1>0, <1>1, <1>2, <2>1, AbortSteady DEF Receiving
<1>3. CASE Continue(p, "commit")
  <2>1. /\ Move(p) /\ pc'[p] = "commit" /\ st'[p] = st[p] /\ kind'[p] = kind[p]
        /\ arg'[p] = arg[p] /\ sent'[p] = sent[p]
    BY <1>0, <1>1, <1>3, ContinueMove, ContinueFrame DEF Resting
  <2>2. Sees(p)'
    BY <1>0, <1>1, <2>1, Standing
    DEF Sees, Resting, Loaded, Finishing, storeVars, histVars, Fits, Size
  <2> QED
    BY <1>0, <1>1, <2>1, <2>2, OnSteady
<1> QED
  BY <1>2, <1>3 DEF Sync

LEMMA CommitSteady ==
  ASSUME TypeInv, Exclusive, Content, Steady, NEW p \in Procs, Commit(p)
  PROVE  Steady'
<1> DEFINE s == [st[p] EXCEPT !.offset = @ + arg[p].size]
<1>0. pc[p] = "commit" /\ pc[p] \notin Resting /\ Kept /\ Locals /\ Sees(p) /\ Local(p)
  BY Numbers DEF Commit, At, Steady, Resting, TypeInv
<1>1. /\ UNCHANGED <<hasBlob, bytes, histVars, kind>>
      /\ hasBlob /\ hasState /\ ~doomed /\ finished = 0
      /\ Len(bytes) = st[p].offset + arg[p].size
      /\ Fits(st[p], arg[p].size)
      /\ st[p].offset = state.offset
  BY <1>0 DEF Commit, KeepBlob, KeepEnv, KeepHist, Sees, Kept, Finishing, Size
<1>n. /\ s.offset = Len(bytes) /\ s.length = st[p].length /\ s \in UploadState
      /\ arg[p].size \in Nat /\ st[p].offset \in Nat /\ acked \in Nat
  BY <1>0, <1>1, Numbers DEF UploadState, Local
<1>2. CASE Abort(p, "error") /\ KeepState
  <2>1. Kept'
    BY <1>0, <1>1, <1>2, SameKept DEF KeepState, storeVars
  <2> QED
    BY <1>0, <1>1, <1>2, <2>1, AbortSteady DEF Receiving
<1>3. CASE Update(s) /\ ContinueWith(p, IF Complete(s) THEN "gate" ELSE "respond", s)
  <2>1. hasState' = TRUE /\ state' = s
    BY <1>3 DEF Update
  <2>2. \E r \in Requests : kind[r] = "post"
    BY <1>0, <1>1 DEF Kept
  <2>3. kind[p] # "get"
    BY <1>0 DEF Local, Route, Access
  <2>4. s.offset <= MaxSize /\ (s.length # Deferred => s.offset <= s.length)
    BY <1>1, <1>n DEF Fits
  <2> HIDE DEF s
  <2>5. Kept'
    BY <1>0, <1>1, <1>n, <2>1, <2>2, <2>4, Numbers
    DEF Kept, histVars, Limited, StoredTooMuch, Size, Complete
  <2>6. PICK point : /\ Proceed(p, point, s, arg[p])
                     /\ (point = "gate" /\ Complete(s)) \/ point = "respond"
    BY <1>3 DEF ContinueWith
  <2>7. Move(p) /\ pc'[p] = point /\ st'[p] = s /\ kind'[p] = kind[p]
    BY <1>0, <1>1, <2>6, ProceedMove, ProceedFrame DEF Resting
  <2>8. Sees(p)'
    BY <1>1, <1>n, <2>1, <2>3, <2>6, <2>7
    DEF Sees, Resting, Loaded, Finishing, histVars, Complete, Size
  <2> QED
    BY <1>0, <1>1, <2>5, <2>7, <2>8, WorkSteady
<1> QED
  BY <1>2, <1>3 DEF Commit

LEMMA FinishGateSteady ==
  ASSUME TypeInv, Exclusive, Content, Steady, NEW p \in Procs, FinishGate(p)
  PROVE  Steady'
<1>0. pc[p] = "gate" /\ pc[p] \notin Resting /\ Kept /\ Locals /\ Sees(p)
  BY DEF FinishGate, At, Steady, Resting, TypeInv
<1>1. UNCHANGED <<storeVars, histVars, kind>>
  BY DEF FinishGate, KeepStores, KeepEnv, KeepHist
<1>2. CASE Abort(p, "rejected")
  <2>1. Kept'
    BY <1>0, <1>1, SameKept
  <2> QED
    BY <1>0, <1>1, <1>2, <2>1, AbortSteady DEF Receiving
<1>3. CASE Continue(p, "notify")
  <2>1. Move(p) /\ pc'[p] = "notify" /\ st'[p] = st[p] /\ kind'[p] = kind[p]
    BY <1>0, <1>1, <1>3, ContinueMove, ContinueFrame DEF Resting
  <2>2. Sees(p)'
    BY <1>0, <1>1, <2>1
    DEF Sees, Resting, Loaded, Finishing, storeVars, histVars, Complete, Size
  <2> QED
    BY <1>0, <1>1, <2>1, <2>2, OnSteady
<1> QED
  BY <1>2, <1>3 DEF FinishGate

LEMMA FinishNotifySteady ==
  ASSUME TypeInv, Exclusive, Content, Steady, NEW p \in Procs, FinishNotify(p)
  PROVE  Steady'
<1>0. pc[p] = "notify" /\ pc[p] \notin Resting /\ Kept /\ Locals /\ Sees(p)
  BY DEF FinishNotify, At, Steady, Resting, TypeInv
<1>1. /\ UNCHANGED <<storeVars, kind, known, acked, doomed>>
      /\ hasState /\ state = st[p] /\ finished = 0 /\ finished' = 1
      /\ Complete(st[p]) /\ st[p].offset = Len(bytes)
  BY <1>0 DEF FinishNotify, KeepStores, KeepEnv, Sees, Loaded, Finishing, Size
<1>2. Move(p) /\ pc'[p] = "respond" /\ st'[p] = st[p] /\ kind'[p] = kind[p]
  BY <1>0, <1>1, ContinueMove, ContinueFrame DEF Resting, FinishNotify
<1>3. \E r \in Requests : kind[r] = "post"
  BY <1>0, <1>1 DEF Kept
<1>4. Kept'
  BY <1>0, <1>1, <1>3 DEF Kept, storeVars, Limited, StoredTooMuch, Size, Complete
<1>5. Sees(p)'
  BY <1>1, <1>2
  DEF Sees, Resting, Loaded, Finishing, storeVars, Complete, Size
<1> QED
  BY <1>0, <1>1, <1>2, <1>4, <1>5, WorkSteady

LEMMA RespondSteady ==
  ASSUME TypeInv, Exclusive, Content, Steady, NEW p \in Procs, Respond(p)
  PROVE  Steady'
<1>0. pc[p] = "respond" /\ pc[p] \notin Resting /\ Kept /\ Locals /\ Sees(p) /\ Local(p)
  BY Numbers DEF Respond, At, Steady, Resting, TypeInv
<1>1. UNCHANGED <<storeVars, kind, doomed, finished>>
  BY DEF Respond, KeepStores, KeepEnv
<1>2. \/ UNCHANGED <<known, acked>>
       \/ /\ known' = (known \/ kind[p] = "post")
          /\ acked' = IF kind[p] \in {"post", "patch", "head"} /\ st[p].offset > acked
                      THEN st[p].offset ELSE acked
  BY DEF Respond, Creating
<1>3. Move(p) /\ pc'[p] \in Resting
  BY <1>0, <1>1, EndMove DEF Resting, Respond
<1>4. kind[p] \in {"patch", "head"} => known
  BY DEF Exclusive, CreationFirst, Comers
<1>5. kind[p] # "delete" => hasState /\ state = st[p]
  BY <1>0 DEF Sees
<1>6. p \in Requests => Kept'
  BY <1>0, <1>1, <1>2, <1>4, <1>5, Numbers
  DEF Kept, storeVars, Limited, StoredTooMuch, Size, Complete
<1>7. p \in Requests
  BY <1>0 DEF Local, Route, Procs, Access, Kinds
<1> QED
  BY <1>0, <1>1, <1>3, <1>6, <1>7, RestSees, WorkSteady

LEMMA PreTerminateSteady ==
  ASSUME TypeInv, Exclusive, Content, Steady, NEW p \in Procs, PreTerminate(p)
  PROVE  Steady'
<1>0. pc[p] = "terminate" /\ pc[p] \notin Resting /\ Locals /\ Sees(p) /\ Local(p)
  BY Numbers DEF PreTerminate, At, Steady, Resting, TypeInv
<1>1. UNCHANGED <<storeVars, histVars, kind>>
  BY DEF PreTerminate, KeepStores, KeepEnv, KeepHist
<1>2. CASE End(p, "rejected")
  BY <1>0, <1>1, <1>2, EndMove, LeaveSteady DEF Resting
<1>3. CASE Continue(p, "delBlob")
  <2>1. Move(p) /\ pc'[p] = "delBlob" /\ st'[p] = st[p] /\ kind'[p] = kind[p]
    BY <1>0, <1>1, <1>3, ContinueMove, ContinueFrame DEF Resting
  <2>2. kind[p] = "delete" /\ p \notin Sweepers
    BY <1>0 DEF Local, Route, Kinds, Access, Receiving, Creation
  <2>3. Sees(p)'
    BY <1>0, <1>1, <2>1, <2>2
    DEF Sees, Resting, Loaded, Finishing, storeVars
  <2> QED
    BY <1>0, <1>1, <2>1, <2>3, OnSteady
<1> QED
  BY <1>2, <1>3 DEF PreTerminate

LEMMA DeleteBlobSteady ==
  ASSUME TypeInv, Exclusive, Content, Steady, NEW p \in Procs, DeleteBlob(p)
  PROVE  Steady'
<1>0. pc[p] = "delBlob" /\ pc[p] \notin Resting /\ Kept /\ Locals /\ Sees(p) /\ Local(p)
  BY Numbers DEF DeleteBlob, At, Steady, Resting, TypeInv
<1>1. UNCHANGED <<hasState, state, kind, known, acked, finished>>
      /\ hasState /\ state = st[p]
  BY <1>0 DEF DeleteBlob, KeepState, KeepEnv, Sees, Loaded
<1>2. CASE End(p, "error") /\ KeepBlob /\ UNCHANGED doomed
  BY <1>0, <1>1, <1>2, EndMove, LeaveSteady DEF Resting, KeepBlob, storeVars, histVars
<1>3. CASE hasBlob' = FALSE /\ bytes' = << >> /\ doomed' = TRUE /\ Continue(p, "delState")
  <2>1. Move(p) /\ pc'[p] = "delState" /\ st'[p] = st[p] /\ kind'[p] = kind[p]
    BY <1>0, <1>1, <1>3, ContinueMove, ContinueFrame DEF Resting
  <2>2. kind[p] # "post"
    BY <1>0 DEF Local, Route, Creation
  <2>3. Sees(p)'
    BY <1>1, <1>3, <2>1, <2>2 DEF Sees, Resting, Loaded, Finishing
  <2>4. \E r \in Requests : kind[r] = "post"
    BY <1>0, <1>1 DEF Kept
  <2>5. Kept'
    BY <1>0, <1>1, <1>3, <2>4, Numbers
    DEF Kept, Limited, StoredTooMuch, Size, Deferred
  <2> QED
    BY <1>0, <1>1, <2>1, <2>3, <2>5, WorkSteady
<1> QED
  BY <1>2, <1>3 DEF DeleteBlob

LEMMA DeleteStateSteady ==
  ASSUME TypeInv, Exclusive, Content, Steady, NEW p \in Procs, DeleteState(p)
  PROVE  Steady'
<1>0. pc[p] = "delState" /\ pc[p] \notin Resting /\ Kept /\ Locals /\ Sees(p) /\ Local(p)
  BY Numbers DEF DeleteState, At, Steady, Resting, TypeInv
<1>1. /\ UNCHANGED <<hasBlob, bytes, state, histVars, kind>>
      /\ doomed /\ hasState' \in {hasState, FALSE}
  BY <1>0 DEF DeleteState, KeepBlob, KeepEnv, KeepHist, Sees
<1>2. \E r \in Requests : kind[r] = "post"
  BY <1>0, <1>1 DEF Kept
<1>3. Kept'
  <2>1. CASE UNCHANGED hasState
    BY <1>0, <1>1, <2>1, SameKept DEF storeVars
  <2>2. CASE hasState' = FALSE
    BY <1>0, <1>1, <1>2, <2>2 DEF Kept, histVars, Limited
  <2> QED
    BY <1>1, <2>1, <2>2
<1>4. CASE \E answer : End(p, answer)
  BY <1>0, <1>1, <1>3, <1>4, EndMove, RestSees, WorkSteady DEF Resting
<1>5. CASE Continue(p, "respond") /\ p \notin Sweepers
  <2>1. Move(p) /\ pc'[p] = "respond" /\ kind'[p] = kind[p]
    BY <1>0, <1>1, <1>5, ContinueMove, ContinueFrame DEF Resting
  <2>2. kind[p] = "delete"
    BY <1>0, <1>5 DEF Local, Route, Kinds, Access, Receiving, Creation
  <2>3. Sees(p)'
    BY <2>1, <2>2 DEF Sees, Resting, Loaded, Finishing
  <2> QED
    BY <1>0, <1>1, <1>3, <2>1, <2>3, WorkSteady
<1> QED
  BY <1>4, <1>5 DEF DeleteState

LEMMA AssessSteady ==
  ASSUME TypeInv, Exclusive, Content, Steady, NEW p \in Procs, Assess(p)
  PROVE  Steady'
<1>0. pc[p] = "assess" /\ pc[p] \notin Resting /\ Locals /\ Sees(p) /\ Local(p)
  BY Numbers DEF Assess, At, Steady, Resting, TypeInv
<1>1. UNCHANGED <<storeVars, histVars, kind>> /\ hasState /\ state = st[p]
  BY <1>0 DEF Assess, KeepStores, KeepEnv, KeepHist, Sees, Loaded
<1>2. CASE End(p, "error")
  BY <1>0, <1>1, <1>2, EndMove, LeaveSteady DEF Resting
<1>3. CASE ~End(p, "error")
  <2>1. Continue(p, "delBlob") /\ ~StoredCompletion(st[p]) /\ IsExpired(st[p])
    BY <1>3 DEF Assess
  <2>2. Move(p) /\ pc'[p] = "delBlob" /\ st'[p] = st[p] /\ kind'[p] = kind[p]
    BY <1>0, <1>1, <2>1, ContinueMove, ContinueFrame DEF Resting
  <2>3. ~(~st[p].partial /\ st[p].length = Len(bytes))
    BY <2>1, Numbers
    DEF StoredCompletion, Recoverable, IsExpired, Size, Deferred, UploadState
  <2>4. kind[p] # "post"
    BY <1>0 DEF Local, Route, Creation
  <2>5. Sees(p)'
    BY <1>1, <2>2, <2>3, <2>4 DEF Sees, Resting, Loaded, Finishing, storeVars, Size
  <2> QED
    BY <1>0, <1>1, <2>2, <2>5, OnSteady
<1> QED
  BY <1>2, <1>3

LEMMA HandleSteady ==
  ASSUME TypeInv, Exclusive, Content, Steady, NEW p \in Procs, Handle(p), ~breached'
  PROVE  Steady'
BY StorageCreateSteady, RecordNewSteady, UndoSteady, LockSteady, LoadSteady,
   DetectSteady, RecoverGateSteady, RecoverPersistSteady, RecoverNotifySteady,
   ReconcileSteady, PrepareSteady, OpenSteady, WriteChunkSteady, StreamErrorSteady,
   SyncSteady, CommitSteady, FinishGateSteady, FinishNotifySteady, RespondSteady,
   PreTerminateSteady, DeleteBlobSteady, DeleteStateSteady, AssessSteady
DEF Handle

-----------------------------------------------------------------------------
(* The other steps.                                                        *)

LEMMA PostSteady ==
  ASSUME TypeInv, Exclusive, Content, Steady, NEW r \in Requests, Post(r)
  PROVE  Steady'
<1>0. /\ r \in Procs /\ pc[r] = "idle" /\ kind' = [kind EXCEPT ![r] = "post"]
      /\ \A q \in Requests : kind[q] # "post"
      /\ UNCHANGED <<storeVars, histVars>>
      /\ Kept /\ Calm /\ Locals /\ Local(r)
  BY Numbers
  DEF Post, Procs, At, Creating, KeepStores, KeepEnv, KeepHist, Steady, TypeInv
<1>1. /\ ~hasState /\ ~hasBlob /\ ~doomed /\ finished = 0 /\ ~known /\ acked = 0
  BY <1>0 DEF Kept, Exclusive, CreationFirst
<1>2. kind'[r] = "post" /\ \A q \in Procs : q # r => kind'[q] = kind[q]
  BY <1>0 DEF Locals, AreFunctions
<1>3. Kept'
  BY <1>0, <1>1 DEF Kept, storeVars, histVars, Limited
<1>4. /\ Frame(r)
      /\ \/ pc'[r] = "done"
         \/ /\ pc'[r] = "create" /\ st'[r].offset = 0
            /\ arg'[r].size # NoBody => Fits(st'[r], arg'[r].size)
  <2>0. r \notin Sweepers
    BY ConstantsAssumption
  <2>1. CASE End(r, "error")
    BY <1>0, <2>0, <2>1 DEF Locals, AreFunctions, End, Goto, Frame
  <2>2. CASE ~End(r, "error")
    <3>1. PICK s, a : /\ Proceed(r, "create", s, a)
                      /\ s.offset = 0 /\ (a.size # NoBody => Fits(s, a.size))
      <4>1. PICK length \in Lengths \cup {Deferred}, size \in BodySizes \cup {NoBody},
                 partial \in BOOLEAN :
              LET s == [offset |-> 0, length |-> length, partial |-> partial]
              IN /\ size # NoBody => Fits(s, size)
                 /\ Proceed(r, "create", s, [offset |-> 0, size |-> size])
        BY <2>2 DEF Post
      <4> DEFINE s == [offset |-> 0, length |-> length, partial |-> partial]
                 a == [offset |-> 0, size |-> size]
      <4>2. s.offset = 0 /\ a.size = size
        OBVIOUS
      <4>3. Proceed(r, "create", s, a) /\ (size # NoBody => Fits(s, size))
        BY <4>1
      <4> HIDE DEF s, a
      <4> QED
        BY <4>2, <4>3
    <3> QED
      BY <1>0, <3>1 DEF Locals, AreFunctions, Proceed, Goto, Frame
  <2> QED
    BY <2>1, <2>2
<1>5. Sees(r)'
  BY <1>0, <1>1, <1>4
  DEF Sees, Resting, Loaded, Finishing, storeVars, histVars, Fits
<1>6. \A q \in Procs : Sees(q)'
  BY <1>0, <1>4, <1>5, SameSees DEF Steady
<1>7. Calm'
  <2>1. lock = NoOne /\ lock' \in {lock, NoOne}
    BY <1>0, PostFrame DEF Calm
  <2> QED
    BY <1>2, <2>1 DEF Calm
<1> QED
  BY <1>3, <1>6, <1>7 DEF Steady

LEMMA ArriveSteady ==
  ASSUME TypeInv, Exclusive, Content, Steady, NEW r \in Requests, Arrive(r)
  PROVE  Steady'
<1>0. /\ r \in Procs /\ pc[r] = "idle" /\ known
      /\ UNCHANGED <<storeVars, histVars>>
      /\ Kept /\ Calm /\ Locals /\ Local(r)
  BY Numbers
  DEF Arrive, Procs, At, KeepStores, KeepEnv, KeepHist, Steady, TypeInv
<1>1. PICK k \in Comers : kind' = [kind EXCEPT ![r] = k]
  BY DEF Arrive, Comers
<1>2. kind[r] # "post" /\ r \notin Sweepers
  BY <1>0, ConstantsAssumption DEF Local, Route, Creation
<1>3. Frame(r) /\ pc'[r] \in Resting
  <2>1. CASE End(r, "error")
    BY <1>0, <1>1, <2>1 DEF Locals, AreFunctions, End, Goto, Frame, Resting
  <2>2. CASE Continue(r, "lock")
    BY <1>0, <1>1, <2>2 DEF Locals, AreFunctions, Continue, Goto, Frame, Resting
  <2> QED
    BY <2>1, <2>2 DEF Arrive
<1>4. \A q \in Procs : q # r => kind'[q] = kind[q] /\ pc'[q] = pc[q]
  BY <1>0, <1>1, <1>3 DEF Locals, AreFunctions, Frame
<1>5. \E q \in Requests : kind[q] = "post" /\ kind'[q] = "post"
  BY <1>0, <1>2, <1>4 DEF Exclusive, CreationFirst, Procs
<1>6. Kept'
  BY <1>0, <1>5
  DEF Kept, storeVars, histVars, Limited, StoredTooMuch, Size, Complete
<1>7. \A q \in Procs : Sees(q)'
  BY <1>0, <1>3, RestSees, SameSees DEF Steady
<1>8. Calm'
  <2>1. lock' \in {lock, NoOne} /\ kind'[r] # "post"
    BY <1>0, ArriveFrame DEF Comers
  <2> QED
    BY <1>0, <1>2, <1>4, <1>5, <2>1 DEF Calm, Procs
<1> QED
  BY <1>6, <1>7, <1>8 DEF Steady

LEMMA CancelSteady ==
  ASSUME TypeInv, Exclusive, Content, Steady, NEW r \in Requests, Cancel(r)
  PROVE  Steady'
<1>0. /\ r \in Procs /\ pc[r] \notin {"idle", "done"} /\ End(r, "cut")
      /\ UNCHANGED <<kind, storeVars, histVars>> /\ Locals /\ Kept /\ Calm
  BY DEF Cancel, At, Procs, KeepStores, KeepHist, TypeInv, Steady
<1>1. Move(r) /\ pc'[r] \in Resting
  BY <1>0, EndMove DEF Resting
<1>2. lock' # r
  BY <1>0, EndFrame, ConstantsAssumption
<1>3. Calm' /\ Kept'
  BY <1>0, <1>1, <1>2, MoveCalm, SameKept
<1>4. \A q \in Procs : Sees(q)'
  BY <1>0, <1>1, RestSees, SameSees DEF Steady, Move
<1> QED
  BY <1>3, <1>4 DEF Steady

LEMMA ListExpiredSteady ==
  ASSUME TypeInv, Exclusive, Content, Steady, NEW s \in Sweepers, ListExpired(s)
  PROVE  Steady'
<1>0. /\ s \in Procs /\ Continue(s, "tryLock") /\ hasState
      /\ UNCHANGED <<kind, storeVars, histVars>> /\ Locals /\ Kept /\ Calm
  BY DEF ListExpired, At, Procs, KeepStores, KeepEnv, KeepHist, TypeInv, Steady
<1>1. Frame(s) /\ pc'[s] = "tryLock" /\ pc'[s] \in Resting /\ lock' = lock
  BY <1>0, ContinueFrame DEF Resting
<1>2. \A q \in Procs : q # s => kind'[q] = kind[q] /\ pc'[q] = pc[q]
  BY <1>0, <1>1 DEF Locals, AreFunctions, Frame
<1>3. Calm' /\ Kept'
  <2>1. \E r \in Requests : kind[r] = "post"
    BY <1>0 DEF Kept
  <2>2. kind[s] # "post"
    BY <1>0 DEF Locals, Local
  <2> QED
    BY <1>0, <1>1, <1>2, <2>1, <2>2, SameKept DEF Calm
<1>4. \A q \in Procs : Sees(q)'
  BY <1>0, <1>1, RestSees, SameSees DEF Steady
<1> QED
  BY <1>3, <1>4 DEF Steady

LEMMA StillSteady ==
  ASSUME Steady, UNCHANGED <<storeVars, procVars, histVars, lock>>
  PROVE  Steady'
BY DEF Steady, Calm, Kept, Sees, storeVars, procVars, histVars, Limited,
   StoredTooMuch, Size, Complete, Fits

LEMMA CrashSteady ==
  ASSUME TypeInv, Exclusive, Content, Steady, Crash
  PROVE  Steady'
<1>0. /\ \A p \in Procs : pc'[p] = (IF p \in Sweepers \/ pc[p] = "idle"
                                    THEN "idle" ELSE "done")
      /\ lock' = NoOne /\ UNCHANGED <<kind, storeVars, histVars>> /\ Kept
  BY DEF Crash, At, KeepStores, KeepHist, Steady
<1>1. \A q \in Procs : Sees(q)'
  BY <1>0, RestSees DEF Resting
<1>2. Calm' /\ Kept'
  BY <1>0, SameKept, ConstantsAssumption DEF Calm, Procs
<1> QED
  BY <1>1, <1>2 DEF Steady

LEMMA InitSteady == Init => Steady
<1> SUFFICES ASSUME Init PROVE Steady
  OBVIOUS
<1>1. Calm /\ Kept
  BY DEF Init, Calm, Kept, Limited, Procs
<1>2. \A p \in Procs : Sees(p)
  BY DEF Init, Sees, Resting, Loaded, Finishing
<1> QED
  BY <1>1, <1>2 DEF Steady

-----------------------------------------------------------------------------
(* Operations left behind.                                                 *)

\* What an operation finds that is executed before anybody else has the lock:
\* what its handler would have found.
Owed(d) ==
  /\ d.op = "write" =>
       /\ hasState /\ hasBlob /\ d.byte = Size + 1 /\ d.byte <= MaxSize
       /\ state.length # Deferred => d.byte <= state.length
  /\ d.op = "truncate" => hasState /\ hasBlob /\ d.size = state.offset
  /\ d.op = "set" =>
       /\ hasState /\ d.st.offset = Size
       /\ state.length # Deferred => d.st.length = state.length
       /\ d.st.length # Deferred => Size <= d.st.length
       /\ finished = 1 /\ ~doomed => Complete(d.st)
  /\ d.op = "forget" => doomed \/ ~known

\* Everybody is at rest while one operation is still to come.
Quiet ==
  detached # {} =>
    /\ \A p \in Procs : pc[p] \in Resting
    /\ \E d : detached = {d} /\ Owed(d)

\* Nobody deletes the bytes of a creation before it has answered.
Told ==
  \A r \in Requests : kind[r] = "post" /\ pc[r] \notin {"undoState", "done"} => ~doomed

Sound == Content /\ Steady /\ Quiet /\ Told

SInv == CInv /\ (~breached => Sound)

LEMMA SameQuiet ==
  ASSUME Quiet, UNCHANGED <<storeVars, histVars, detached>>,
         detached # {} => \A p \in Procs : pc'[p] \in Resting
  PROVE  Quiet'
<1>1. \A d : Owed(d) => Owed(d)'
  BY DEF Owed, storeVars, histVars, Size, Complete
<1> QED
  BY <1>1 DEF Quiet

\* A handler is dropped: what it leaves behind is still right.
LEMMA LeftoverOwed ==
  ASSUME TypeInv, Exclusive, Content, Steady, NEW r \in Requests, NEW d \in Leftover(r)
  PROVE  Owed(d) /\ pc[r] \notin Resting
<1>0. r \in Procs /\ Sees(r) /\ Kept /\ Local(r)
  BY Numbers DEF Steady, Procs
<1>1. /\ state.offset \in Nat /\ state.length \in Nat \cup {Deferred}
      /\ st[r].offset \in Nat /\ st[r].length \in Nat \cup {Deferred}
      /\ st[r] \in UploadState /\ Len(bytes) \in Nat /\ MaxSize \in Nat
      /\ arg[r].size \in Nat \cup {NoBody} /\ arg[r].offset \in Nat /\ sent[r] \in Nat
  BY <1>0, Numbers
<1>2. CASE pc[r] = "write"
  <2>1. arg[r].offset = st[r].offset
    BY <1>0, <1>2 DEF Local
  <2>2. CASE d = [op |-> "truncate", size |-> st[r].offset]
    BY <1>0, <1>2, <2>2, Standing DEF Owed, Resting
  <2>3. CASE d = [op |-> "write", byte |-> arg[r].offset + (sent[r] + 1)]
             /\ sent[r] + 1 \in 1 .. arg[r].size
    <3>1. d.op = "write" /\ d.byte = Len(bytes) + 1 /\ sent[r] + 1 <= arg[r].size
      BY <1>0, <1>1, <1>2, <2>1, <2>3, Standing
    <3>2. /\ hasState /\ hasBlob /\ Len(bytes) + 1 <= MaxSize
          /\ state.length # Deferred => Len(bytes) + 1 <= state.length
      BY <1>0, <1>1, <1>2, <3>1, Standing
    <3> QED
      BY <1>2, <3>1, <3>2 DEF Owed, Size, Resting
  <2> QED
    BY <1>2, <2>2, <2>3 DEF Leftover, At
<1>3. CASE pc[r] = "commit"
  <2>0. d = [op |-> "set", st |-> [st[r] EXCEPT !.offset = @ + arg[r].size]]
    BY <1>3 DEF Leftover, At
  <2>1. /\ d.op = "set" /\ d.st.offset = st[r].offset + arg[r].size
        /\ d.st.length = st[r].length
    BY <1>1, <2>0 DEF UploadState
  <2>2. /\ hasState /\ Len(bytes) = st[r].offset + arg[r].size /\ finished = 0
        /\ st[r].length # Deferred => Len(bytes) <= st[r].length
        /\ state.length # Deferred => st[r].length = state.length
    BY <1>0, <1>3 DEF Sees, Fits, Finishing, Size
  <2> QED
    BY <1>3, <2>1, <2>2 DEF Owed, Size, Resting
<1>4. CASE pc[r] = "recPersist"
  <2>0. d = [op |-> "set", st |-> [st[r] EXCEPT !.offset = st[r].length]]
    BY <1>4 DEF Leftover, At
  <2>1. d.op = "set" /\ d.st.offset = st[r].length /\ d.st.length = st[r].length
    BY <1>1, <2>0 DEF UploadState
  <2>2. hasState /\ state = st[r] /\ Len(bytes) = st[r].length /\ finished = 0
    BY <1>0, <1>4 DEF Sees, Loaded, Finishing, Size
  <2> QED
    BY <1>1, <1>4, <2>1, <2>2 DEF Owed, Size, Resting
<1>5. CASE pc[r] = "reconcile"
  <2>0. d = [op |-> "set", st |-> [st[r] EXCEPT !.offset = Size]]
    BY <1>5 DEF Leftover, At
  <2>1. d.op = "set" /\ d.st.offset = Len(bytes) /\ d.st.length = st[r].length
    BY <1>1, <2>0 DEF UploadState, Size
  <2>2. hasState /\ state = st[r]
    BY <1>0, <1>5 DEF Sees, Loaded
  <2>3. st[r].length # Deferred => Len(bytes) <= st[r].length
    BY <1>0, <1>1, <2>2 DEF Kept, Limited, StoredTooMuch, Size, Deferred
  <2>4. finished = 1 /\ ~doomed => Complete(d.st)
    <3>1. ~doomed => state.offset <= Len(bytes) /\ (finished = 1 => Complete(state))
      BY <1>0, <2>2 DEF Kept, Size
    <3> QED
      BY <1>1, <2>1, <2>2, <3>1 DEF Complete, Deferred
  <2> QED
    BY <1>5, <2>1, <2>2, <2>3, <2>4 DEF Owed, Size, Resting
<1>6. CASE pc[r] \in {"delBlob", "undoBlob", "undoAll"}
  BY <1>6 DEF Leftover, At, Owed, Resting
<1>7. CASE pc[r] = "delState"
  BY <1>0, <1>7 DEF Leftover, At, Owed, Resting, Sees
<1>8. CASE pc[r] = "undoState"
  <2>1. ~known
    BY <1>0, <1>8, CreationPoints, Unknown
  <2> QED
    BY <1>8, <2>1 DEF Leftover, At, Owed, Resting
<1> QED
  BY <1>2, <1>3, <1>4, <1>5, <1>6, <1>7, <1>8 DEF Leftover, At

\* An operation is executed whose handler is gone.
LEMMA LateFacts ==
  ASSUME TypeInv, Quiet, NEW d \in detached, Late(d)
  PROVE  /\ \A p \in Procs : pc[p] \in Resting
         /\ detached = {d} /\ detached' = {} /\ Owed(d) /\ d \in Operations
         /\ UNCHANGED <<procVars, lock, known, acked, finished>>
<1>1. PICK e : detached = {e} /\ Owed(e)
  BY DEF Quiet
<1> QED
  BY <1>1 DEF Late, Quiet, TypeInv, RestOK

LEMMA LateContent ==
  ASSUME TypeInv, Content, Kept, Quiet, NEW d \in detached, Late(d)
  PROVE  Content'
<1>0. /\ \A p \in Procs : pc'[p] # "write"
      /\ Owed(d) /\ StoreOK /\ d \in Operations
  BY LateFacts DEF procVars, Resting, TypeInv
<1>1. Len(bytes) \in Nat /\ state.offset \in Nat
  BY <1>0, StateTypes DEF StoreOK
<1>2. CASE d.op = "write"
  <2>1. hasBlob /\ hasBlob' = hasBlob /\ bytes' = Append(bytes, Len(bytes) + 1)
    BY <1>0, <1>2 DEF Late, Owed, Appended, Size
  <2>2. /\ Len(bytes') = Len(bytes) + 1
        /\ bytes'[Len(bytes) + 1] = Len(bytes) + 1
        /\ \A i \in 1 .. Len(bytes) : bytes'[i] = bytes[i]
    BY <1>0, <1>1, <2>1 DEF StoreOK
  <2>3. InPlace'
    <3> SUFFICES ASSUME NEW i \in 1 .. Len(bytes') PROVE bytes'[i] = i
      BY DEF InPlace
    <3>1. i \in 1 .. Len(bytes) \/ i = Len(bytes) + 1
      BY <1>1, <2>2
    <3> QED
      BY <2>2, <3>1 DEF Content, InPlace
  <2> QED
    BY <1>0, <2>1, <2>3 DEF Content, WriterAtEnd
<1>3. CASE d.op = "truncate"
  <2>1. hasState /\ hasBlob /\ hasBlob' = hasBlob /\ bytes' = Truncated(state.offset)
    BY <1>0, <1>3 DEF Late, Owed
  <2>2. state.offset <= Len(bytes)
    BY <2>1 DEF Kept, Size
  <2>3. bytes' = [i \in 1 .. state.offset |-> IF i \in DOMAIN bytes THEN bytes[i] ELSE 0]
    BY <2>1 DEF Truncated
  <2>4. Len(bytes') = state.offset
    BY <1>1, <2>3
  <2>5. \A i \in 1 .. state.offset : i \in DOMAIN bytes /\ i \in 1 .. Len(bytes)
    BY <1>0, <1>1, <2>2 DEF StoreOK
  <2>6. InPlace'
    BY <2>3, <2>4, <2>5 DEF Content, InPlace
  <2> QED
    BY <1>0, <2>1, <2>6 DEF Content, WriterAtEnd
<1>4. CASE UNCHANGED <<hasBlob, bytes>>
  BY <1>0, <1>4 DEF Content, InPlace, WriterAtEnd
<1>5. CASE bytes' = << >>
  BY <1>0, <1>5, EmptyContent
<1> QED
  BY <1>2, <1>3, <1>4, <1>5 DEF Late, KeepBlob

LEMMA LateSteady ==
  ASSUME TypeInv, Clean, Content, Steady, Quiet, NEW d \in detached, Late(d)
  PROVE  Steady'
<1>0. /\ \A p \in Procs : pc[p] \in Resting
      /\ Owed(d) /\ StoreOK /\ d \in Operations /\ Kept /\ Calm
      /\ UNCHANGED <<procVars, lock, known, acked, finished>>
  BY LateFacts DEF TypeInv, Steady
<1>1. /\ Len(bytes) \in Nat /\ MaxSize \in Nat /\ state.offset \in Nat /\ acked \in Nat
      /\ state.length \in Nat \cup {Deferred} /\ known \in BOOLEAN
      /\ hasState \in BOOLEAN /\ hasBlob \in BOOLEAN /\ doomed \in BOOLEAN
  BY StateTypes, ConstantsAssumption DEF TypeInv, StoreOK, RestOK
<1>2. \E r \in Requests : kind[r] = "post" /\ kind'[r] = "post"
  BY <1>0 DEF Clean, procVars
<1>3. Calm' /\ \A p \in Procs : Sees(p)'
  BY <1>0, RestSees DEF Calm, procVars
<1>4. Kept'
  <2>1. CASE d.op = "write"
    <3>1. /\ hasBlob /\ hasState /\ bytes' = Append(bytes, d.byte)
          /\ UNCHANGED <<hasBlob, hasState, state, doomed>>
          /\ Len(bytes) + 1 <= MaxSize
          /\ state.length # Deferred => Len(bytes) + 1 <= state.length
      BY <1>0, <2>1 DEF Late, Owed, Appended, KeepState, Size
    <3>2. Len(bytes') = Len(bytes) + 1
      BY <1>0, <3>1 DEF StoreOK
    <3>3. Limited'
      BY <1>1, <3>1, <3>2 DEF Limited, StoredTooMuch, Size
    <3> QED
      BY <1>0, <1>1, <1>2, <3>1, <3>2, <3>3 DEF Kept, Size, Complete
  <2>2. CASE d.op = "truncate"
    <3>1. /\ hasBlob /\ hasState /\ bytes' = Truncated(state.offset)
          /\ UNCHANGED <<hasBlob, hasState, state, doomed>>
      BY <1>0, <2>2 DEF Late, Owed, KeepState
    <3>2. Len(bytes') = state.offset
      BY <1>1, <3>1 DEF Truncated
    <3>3. state.offset <= Len(bytes)
      BY <1>0, <3>1 DEF Kept, Size
    <3>4. Limited'
      BY <1>0, <1>1, <3>1, <3>2, <3>3 DEF Kept, Limited, StoredTooMuch, Size, Deferred
    <3> QED
      BY <1>0, <1>1, <1>2, <3>1, <3>2, <3>4 DEF Kept, Size, Complete
  <2>3. CASE d.op = "set"
    <3>1. /\ hasState /\ hasState' /\ state' = d.st /\ UNCHANGED <<hasBlob, bytes, doomed>>
          /\ state'.offset = Len(bytes)
          /\ state'.length # Deferred => Len(bytes) <= state'.length
          /\ finished = 1 /\ ~doomed => Complete(state')
      BY <1>0, <2>3 DEF Late, Owed, Update, KeepBlob, Size
    <3>2. state'.length \in Nat \cup {Deferred}
      BY <1>0, <2>3, <3>1, StateTypes DEF Operations
    <3>3. Limited'
      BY <1>0, <1>1, <3>1, <3>2 DEF Kept, Limited, StoredTooMuch, Size, Deferred
    <3> QED
      BY <1>0, <1>1, <1>2, <3>1, <3>3 DEF Kept, Size, Complete
  <2>4. CASE d.op = "unlink"
    <3>1. /\ hasBlob' = FALSE /\ bytes' = << >> /\ doomed' = TRUE
          /\ UNCHANGED <<hasState, state>>
      BY <2>4 DEF Late, KeepState
    <3> QED
      BY <1>0, <1>1, <1>2, <3>1 DEF Kept, Limited, StoredTooMuch, Size, Deferred
  <2>5. CASE d.op = "forget"
    <3>1. /\ hasState' = FALSE /\ (doomed \/ ~known)
          /\ UNCHANGED <<hasBlob, bytes, state, doomed>>
      BY <1>0, <2>5 DEF Late, Owed, KeepBlob
    <3> QED
      BY <1>0, <1>2, <3>1 DEF Kept, Limited
  <2> QED
    BY <2>1, <2>2, <2>3, <2>4, <2>5 DEF Late
<1> QED
  BY <1>3, <1>4 DEF Steady

-----------------------------------------------------------------------------
(* The invariant.                                                          *)

LEMMA HandleMove ==
  ASSUME Locals, NEW p \in Procs, Handle(p)
  PROVE  Move(p) /\ detached' = detached
BY QuietStep, TouchingStep

\* Whoever deletes the bytes is the creation itself, or comes after it.
LEMMA HandleTold ==
  ASSUME TypeInv, Exclusive, Calm, Told, NEW p \in Procs, Handle(p)
  PROVE  Told'
<1>0. Locals /\ Local(p) /\ Move(p)
  BY Numbers, HandleMove DEF TypeInv
<1>1. /\ kind' = kind /\ pc[p] # "done"
      /\ \A q \in Procs : q # p => pc'[q] = pc[q]
  BY <1>0 DEF Move, Frame, Locals, AreFunctions
<1>2. CASE UndoBlob(p)
  <2>1. /\ kind[p] = "post" /\ pc'[p] \in {"undoState", "done"}
    <3>1. pc[p] \in {"undoBlob", "undoAll"} /\ UNCHANGED kind
      BY <1>2 DEF UndoBlob, At
    <3>2. kind[p] = "post" /\ p \in Requests
      BY <1>0, <3>1, CreationPoints
    <3>3. p \notin Sweepers
      BY <3>2, ConstantsAssumption
    <3> QED
      BY <1>0, <1>2, <3>1, <3>2, <3>3, EndFrame, ContinueFrame DEF UndoBlob, At
  <2>2. \A q \in Procs : kind[q] = "post" => q = p
    BY <1>0, <2>1 DEF Exclusive, CreationFirst
  <2> QED
    BY <1>1, <2>1, <2>2 DEF Told, Procs
<1>3. CASE DeleteBlob(p)
  <2>1. pc[p] = "delBlob"
    BY <1>3 DEF DeleteBlob, At
  <2>2. kind[p] \in {"delete", "sweep"}
    BY <1>0, <2>1 DEF Local, Route, Kinds, Access, Receiving, Creation
  <2>3. \A q \in Requests : kind[q] = "post" => pc[q] = "done"
    <3> SUFFICES ASSUME NEW q \in Requests, kind[q] = "post" PROVE pc[q] = "done"
      OBVIOUS
    <3>1. q \in Procs /\ Local(q) /\ q # p
      BY <2>2, Numbers DEF Procs
    <3>2. pc[q] \in Resting
      BY <2>1, <3>1, OneAtWork DEF Resting
    <3> QED
      BY <3>1, <3>2 DEF Local, Route, Creation, Resting
  <2>4. \A q \in Requests : kind[q] = "post" => q # p
    BY <2>2
  <2> QED
    BY <1>1, <2>3, <2>4 DEF Told, Procs
<1>4. CASE UndoState(p)
  <2>1. pc[p] = "undoState" /\ End(p, reply[p]) /\ UNCHANGED <<kind, doomed>>
    BY <1>4 DEF UndoState, At, KeepHist, histVars
  <2>2. p \notin Sweepers
    BY <1>0, <2>1, CreationPoints, ConstantsAssumption
  <2>3. pc'[p] = "done"
    BY <1>0, <2>1, <2>2, EndFrame
  <2> QED
    BY <1>1, <2>1, <2>3 DEF Told, Procs
<1>5. CASE ~UndoBlob(p) /\ ~DeleteBlob(p) /\ ~UndoState(p)
  <2>1. pc[p] # "undoState" /\ doomed' = doomed
    BY <1>5
    DEF Handle, StorageCreate, RecordNew, Lock, Load, Detect, RecoverGate, RecoverPersist,
        RecoverNotify, Reconcile, Prepare, Open, WriteChunk, StreamError, Sync, Commit,
        FinishGate, FinishNotify, Respond, PreTerminate, DeleteState, TryLock, Assess,
        KeepHist, histVars, At
  <2> QED
    BY <1>1, <2>1 DEF Told, Procs
<1> QED
  BY <1>2, <1>3, <1>4, <1>5

\* A step of a handler, as long as the lock keeps the others out.
LEMMA HandleSound ==
  ASSUME TypeInv, Exclusive, Sound, NEW p \in Procs, Handle(p), ~breached'
  PROVE  Sound'
<1>0. Content /\ Steady /\ Calm /\ Quiet /\ Told /\ Locals
  BY DEF Sound, Steady, TypeInv
<1>1. Content'
  BY <1>0, TouchingContent, QuietStep, QuietContent DEF Move
<1>2. Steady'
  BY <1>0, HandleSteady
<1>3. Told'
  BY <1>0, HandleTold
<1>4. Quiet'
  <2>1. CASE detached = {}
    BY <1>0, <2>1, HandleMove DEF Quiet
  <2>2. CASE detached # {}
    <3>1. \A q \in Procs : pc[q] \in Resting
      BY <1>0, <2>2 DEF Quiet
    <3>2. Lock(p) \/ TryLock(p)
      BY <3>1
      DEF Handle, At, Resting, StorageCreate, RecordNew, UndoBlob, UndoState, Load, Detect,
          RecoverGate, RecoverPersist, RecoverNotify, Reconcile, Prepare, Open, WriteChunk,
          StreamError, Sync, Commit, FinishGate, FinishNotify, Respond, PreTerminate,
          DeleteBlob, DeleteState, Assess
    <3>3. End(p, "error") /\ UNCHANGED <<storeVars, histVars, detached, kind>>
      BY <2>2, <3>2 DEF Lock, TryLock, Acquire, Unlocked, KeepStores, KeepHist
    <3>4. Frame(p) /\ pc'[p] \in Resting
      BY <1>0, <3>3, EndFrame DEF Resting
    <3>5. \A q \in Procs : pc'[q] \in Resting
      BY <1>0, <3>1, <3>4 DEF Frame, Locals, AreFunctions
    <3> QED
      BY <1>0, <3>3, <3>5, SameQuiet
  <2> QED
    BY <2>1, <2>2
<1> QED
  BY <1>1, <1>2, <1>3, <1>4 DEF Sound

LEMMA PostSound ==
  ASSUME TypeInv, Exclusive, Clean, Sound, NEW r \in Requests, Post(r)
  PROVE  Sound'
<1>0. Content /\ Steady /\ Kept /\ Locals /\ r \in Procs
  BY DEF Sound, Steady, TypeInv, Procs
<1>1. UNCHANGED <<hasBlob, bytes, detached, doomed>> /\ \A q \in Requests : kind[q] # "post"
  BY DEF Post, Creating, KeepStores, storeVars, KeepEnv, KeepHist, histVars
<1>2. Content'
  BY <1>0, <1>1, PostFrame, QuietContent
<1>3. Steady'
  BY <1>0, PostSteady
<1>4. detached' = {} /\ ~doomed'
  BY <1>0, <1>1 DEF Clean, Kept
<1> QED
  BY <1>2, <1>3, <1>4 DEF Sound, Quiet, Told

LEMMA ArriveSound ==
  ASSUME TypeInv, Exclusive, Sound, NEW r \in Requests, Arrive(r)
  PROVE  Sound'
<1>0. Content /\ Steady /\ Quiet /\ Told /\ Locals /\ r \in Procs
  BY DEF Sound, TypeInv, Procs
<1>1. UNCHANGED <<storeVars, histVars, detached>>
  BY DEF Arrive, KeepStores, KeepEnv, KeepHist
<1>2. /\ Frame(r) /\ pc'[r] \in Resting /\ pc'[r] # "write" /\ kind'[r] # "post"
  BY <1>0, ArriveFrame DEF Resting, Comers
<1>3. \A q \in Procs : q # r => kind'[q] = kind[q] /\ pc'[q] = pc[q]
  BY <1>0, <1>2 DEF Frame, Locals, AreFunctions
<1>4. Content'
  BY <1>0, <1>1, <1>2, QuietContent DEF storeVars
<1>5. Steady'
  BY <1>0, ArriveSteady
<1>6. Quiet'
  BY <1>0, <1>1, <1>2, <1>3, SameQuiet DEF Quiet
<1>7. Told'
  BY <1>0, <1>1, <1>2, <1>3 DEF Told, histVars, Procs
<1> QED
  BY <1>4, <1>5, <1>6, <1>7 DEF Sound

LEMMA CancelSound ==
  ASSUME TypeInv, Exclusive, Sound, NEW r \in Requests, Cancel(r)
  PROVE  Sound'
<1>0. Content /\ Steady /\ Calm /\ Quiet /\ Told /\ Locals /\ r \in Procs /\ r \notin Sweepers
  BY ConstantsAssumption DEF Sound, Steady, TypeInv, Procs
<1>1. End(r, "cut") /\ UNCHANGED <<storeVars, histVars, kind>>
  BY DEF Cancel, KeepStores, KeepHist
<1>2. Frame(r) /\ pc'[r] = "done"
  BY <1>0, <1>1, EndFrame
<1>3. \A q \in Procs : q # r => pc'[q] = pc[q]
  BY <1>0, <1>2 DEF Frame, Locals, AreFunctions
<1>4. Content'
  BY <1>0, <1>1, <1>2, QuietContent DEF storeVars
<1>5. Steady'
  BY <1>0, CancelSteady
<1>6. Told'
  BY <1>0, <1>1, <1>2, <1>3 DEF Told, histVars, Procs
<1>7. Quiet'
  <2>1. CASE detached' = detached
    BY <1>0, <1>1, <1>2, <1>3, <2>1, SameQuiet DEF Quiet, Resting
  <2>2. CASE detached' # detached
    <3>1. PICK d \in Leftover(r) : detached' = detached \cup {d}
      BY <2>2 DEF Cancel
    <3>2. Owed(d) /\ pc[r] \notin Resting
      BY <1>0, LeftoverOwed
    <3>3. detached' = {d}
      BY <1>0, <3>1, <3>2 DEF Quiet
    <3>4. \A q \in Procs : pc'[q] \in Resting
      BY <1>0, <1>2, <1>3, <3>2, OneAtWork DEF Resting
    <3>5. Owed(d)'
      BY <1>1, <3>2 DEF Owed, storeVars, histVars, Size, Complete
    <3> QED
      BY <3>3, <3>4, <3>5 DEF Quiet
  <2> QED
    BY <2>1, <2>2
<1> QED
  BY <1>4, <1>5, <1>6, <1>7 DEF Sound

LEMMA ListExpiredSound ==
  ASSUME TypeInv, Exclusive, Sound, NEW s \in Sweepers, ListExpired(s)
  PROVE  Sound'
<1>0. Content /\ Steady /\ Quiet /\ Told /\ Locals /\ s \in Procs /\ s \notin Requests
  BY ConstantsAssumption DEF Sound, TypeInv, Procs
<1>1. Continue(s, "tryLock") /\ UNCHANGED <<storeVars, histVars, detached, kind>>
  BY DEF ListExpired, KeepStores, KeepEnv, KeepHist
<1>2. Frame(s) /\ pc'[s] = "tryLock"
  BY <1>0, <1>1, ContinueFrame
<1>3. \A q \in Procs : q # s => pc'[q] = pc[q]
  BY <1>0, <1>2 DEF Frame, Locals, AreFunctions
<1>4. Content'
  BY <1>0, <1>1, <1>2, QuietContent DEF storeVars
<1>5. Steady'
  BY <1>0, ListExpiredSteady
<1>6. Quiet'
  BY <1>0, <1>1, <1>2, <1>3, SameQuiet DEF Quiet, Resting
<1>7. Told'
  BY <1>0, <1>1, <1>3 DEF Told, histVars, Procs
<1> QED
  BY <1>4, <1>5, <1>6, <1>7 DEF Sound

LEMMA LateSound ==
  ASSUME TypeInv, Clean, Sound, NEW d \in detached, Late(d)
  PROVE  Sound'
<1>0. Content /\ Steady /\ Kept /\ Quiet
  BY DEF Sound, Steady
<1>1. Content'
  BY <1>0, LateContent
<1>2. Steady'
  BY <1>0, LateSteady
<1>3. Quiet'
  BY <1>0, LateFacts DEF Quiet
<1>4. Told'
  <2>1. \A r \in Requests : kind[r] = "post" => pc[r] = "done"
    BY DEF Clean, Undone
  <2> QED
    BY <1>0, <2>1, LateFacts DEF Told, procVars
<1> QED
  BY <1>1, <1>2, <1>3, <1>4 DEF Sound

LEMMA CrashSound ==
  ASSUME TypeInv, Exclusive, Sound, Crash
  PROVE  Sound'
<1>0. Content /\ Steady /\ Told
  BY DEF Sound
<1>1. /\ \A p \in Procs : pc'[p] = (IF p \in Sweepers \/ pc[p] = "idle"
                                    THEN "idle" ELSE "done")
      /\ detached' = {} /\ UNCHANGED <<hasBlob, bytes, kind, doomed>>
  BY DEF Crash, At, KeepStores, storeVars, KeepHist, histVars
<1>2. Content'
  BY <1>0, <1>1 DEF Content, InPlace, WriterAtEnd
<1>3. Steady'
  BY <1>0, CrashSteady
<1>4. Told'
  BY <1>0, <1>1, ConstantsAssumption DEF Told, Procs
<1> QED
  BY <1>1, <1>2, <1>3, <1>4 DEF Sound, Quiet

LEMMA StillSound ==
  ASSUME Sound, UNCHANGED <<storeVars, procVars, histVars, lock, detached>>
  PROVE  Sound'
<1>1. Content' /\ Told'
  BY DEF Sound, Content, InPlace, WriterAtEnd, Told, storeVars, procVars, histVars
<1>2. Steady'
  BY StillSteady DEF Sound
<1>3. Quiet'
  BY SameQuiet DEF Sound, Quiet, procVars
<1> QED
  BY <1>1, <1>2, <1>3 DEF Sound

\* Once breached, always breached.
LEMMA BreachStays ==
  ASSUME [Next]_vars, breached
  PROVE  breached'
BY DEF Next, vars, Handle, Post, Arrive, Cancel, Late, Tick, Crash, ListExpired,
   StorageCreate, RecordNew, UndoBlob, UndoState, Lock, Acquire, Load, Detect, RecoverGate,
   RecoverPersist, RecoverNotify, Reconcile, Prepare, Open, WriteChunk, StreamError, Sync,
   Commit, FinishGate, FinishNotify, Respond, PreTerminate, DeleteBlob, DeleteState,
   TryLock, Assess, KeepEnv

LEMMA NextSInv == SInv /\ [Next]_vars => SInv'
<1> SUFFICES ASSUME SInv, [Next]_vars, ~breached' PROVE Sound'
  BY NextCInv DEF SInv
<1>0. TypeInv /\ Exclusive /\ Clean /\ Sound
  BY BreachStays DEF SInv, CInv
<1>1. CASE UNCHANGED vars
  BY <1>0, <1>1, StillSound DEF vars
<1>2. ASSUME NEW p \in Procs, Handle(p) PROVE Sound'
  BY <1>0, <1>2, HandleSound
<1>3. ASSUME NEW r \in Requests, Post(r) \/ Arrive(r) \/ Cancel(r) PROVE Sound'
  BY <1>0, <1>3, PostSound, ArriveSound, CancelSound
<1>4. ASSUME NEW s \in Sweepers, ListExpired(s) PROVE Sound'
  BY <1>0, <1>4, ListExpiredSound
<1>5. ASSUME NEW d \in detached, Late(d) PROVE Sound'
  BY <1>0, <1>5, LateSound
<1>6. CASE Tick
  BY <1>0, <1>6, StillSound DEF Tick
<1>7. CASE Crash
  BY <1>0, <1>7, CrashSound
<1> QED
  BY <1>1, <1>2, <1>3, <1>4, <1>5, <1>6, <1>7 DEF Next

LEMMA InitSInv == Init => SInv
<1> SUFFICES ASSUME Init PROVE SInv
  OBVIOUS
<1>1. Content /\ Quiet /\ Told
  BY DEF Init, Content, InPlace, WriterAtEnd, Quiet, Told
<1> QED
  BY <1>1, InitCInv, InitSteady DEF SInv, Sound

\* The inductive invariant of the lifecycle holds in every reachable state.
THEOREM SoundAlways == Spec => []SInv
BY InitSInv, NextSInv, PTL DEF Spec

\* The stored object is always a prefix of the client's file: no byte is ever
\* duplicated, skipped or out of place, whatever handlers were dropped and
\* whatever they left behind, until the lock is granted past it.
THEOREM PrefixAlways == Spec => []StoredPrefix
<1>1. SInv => StoredPrefix
  BY DEF SInv, Sound, Content, StoredPrefix
<1> QED
  BY <1>1, SoundAlways, PTL

\* Bytes that a response has acknowledged or that the record claims are stored.
THEOREM AckedAlways == Spec => []AckedBytesStored
<1>1. SInv => AckedBytesStored
  <2> SUFFICES ASSUME SInv, ~breached PROVE AckedBytesStored
    BY DEF AckedBytesStored
  <2>1. Kept /\ acked \in Nat /\ state.offset \in Nat /\ Len(bytes) \in Nat
    BY StateTypes DEF SInv, Sound, Steady, CInv, TypeInv, StoreOK, RestOK
  <2>2. hasState \in BOOLEAN /\ (acked = 0 \/ known)
    BY <2>1 DEF Kept, SInv, CInv, TypeInv, StoreOK
  <2> QED
    BY <2>1, <2>2 DEF Kept, AckedBytesStored, Size
<1> QED
  BY <1>1, SoundAlways, PTL

\* The stored object never exceeds Upload-Length or max_size.
THEOREM LimitsAlways == Spec => []WithinLimits
<1>1. SInv => WithinLimits
  BY DEF SInv, Sound, Steady, Kept, Limited, WithinLimits
<1> QED
  BY <1>1, SoundAlways, PTL

\* A success response is about the bytes that are stored when it is sent.
THEOREM ReplyAlways == Spec => []ReplyMatchesStore
<1>1. SInv => ReplyMatchesStore
  <2> SUFFICES ASSUME SInv, ~breached, NEW r \in Requests, pc[r] = "respond",
                      kind[r] # "delete"
               PROVE  st[r].offset = Size /\ (kind[r] = "get" => st[r].length = Size)
    BY DEF ReplyMatchesStore, At
  <2>1. r \in Procs /\ Sees(r) /\ Limited /\ TypeInv
    BY DEF SInv, CInv, Sound, Steady, Kept, Procs
  <2>2. hasState /\ state = st[r] /\ st[r].offset = Size
        /\ (kind[r] = "get" => Complete(st[r]))
    BY <2>1 DEF Sees
  <2>3. st[r].length \in Nat \cup {Deferred} /\ Size \in Nat
    BY <2>1, Numbers DEF TypeInv, StoreOK, Size
  <2> QED
    BY <2>1, <2>2, <2>3 DEF Limited, StoredTooMuch, Complete, Deferred
<1> QED
  BY <1>1, SoundAlways, PTL

\* The sweeper never deletes a completed deliverable upload.
THEOREM SweepAlways == Spec => []SweepSparesComplete
<1>1. SInv => SweepSparesComplete
  <2> SUFFICES ASSUME SInv, ~breached, NEW s \in Sweepers, pc[s] = "delBlob"
               PROVE  ~(~state.partial /\ state.length = Size)
    BY DEF SweepSparesComplete, SweepIsSafe, At
  <2>1. s \in Procs /\ Sees(s)
    BY DEF SInv, Sound, Steady, Procs
  <2> QED
    BY <2>1 DEF Sees, Loaded
<1> QED
  BY <1>1, SoundAlways, PTL

\* PostFinish runs at most once.
THEOREM FinishAlwaysOnce == Spec => []PostFinishOnce
<1>1. SInv => PostFinishOnce
  BY DEF SInv, Sound, Steady, Kept, PostFinishOnce
<1> QED
  BY <1>1, SoundAlways, PTL

-----------------------------------------------------------------------------
(* What a step does to the record.                                         *)

\* Both action properties at once.
Step ==
  /\ hasState /\ hasState' /\ ~doomed =>
       /\ state'.offset >= state.offset
       /\ state.length # Deferred => state'.length = state.length
  /\ ~hasState /\ hasState' => \E r \in Requests : At(r, "record")
  /\ hasState /\ ~hasState' =>
       ~hasBlob \/ (~known /\ \A s \in Sweepers : ~At(s, "delState"))

\* Seven actions of the handlers write the record, and each knows what it replaces.
LEMMA HandleStep ==
  ASSUME TypeInv, Exclusive, Steady, NEW p \in Procs, Handle(p)
  PROVE  Step
<1>0. Kept /\ Calm /\ Sees(p) /\ Local(p)
  BY Numbers DEF Steady
<1>1. /\ state.offset \in Nat /\ state.length \in Nat \cup {Deferred}
      /\ st[p].offset \in Nat /\ st[p].length \in Nat \cup {Deferred}
      /\ st[p] \in UploadState /\ Len(bytes) \in Nat
  BY <1>0, Numbers DEF TypeInv, StoreOK
<1>2. CASE UNCHANGED <<hasState, state>>
  BY <1>1, <1>2 DEF Step
<1>3. CASE RecordNew(p)
  <2>1. pc[p] = "record" /\ ~hasState
    BY <1>0, <1>3 DEF RecordNew, At, Sees
  <2> QED
    BY <1>0, <2>1, CreationPoints DEF Step, At
<1>4. CASE UndoState(p)
  <2>1. pc[p] = "undoState" /\ state' = state /\ (hasState' => hasState)
    BY <1>4 DEF UndoState, At
  <2>2. ~known /\ \A s \in Sweepers : pc[s] # "delState"
    <3>1. kind[p] = "post" /\ ~known
      BY <2>1, CreationPoints, Unknown
    <3>2. \A s \in Sweepers : s \in Procs /\ (pc[s] \in Resting \/ s = p)
      BY <2>1, OneAtWork, <1>0 DEF Resting, Procs
    <3> QED
      BY <2>1, <3>1, <3>2 DEF Resting
  <2> QED
    BY <1>1, <2>1, <2>2 DEF Step, At
<1>5. CASE RecoverPersist(p)
  <2>1. pc[p] = "recPersist" /\ hasState /\ state = st[p] /\ Size = st[p].length
    BY <1>0, <1>5 DEF RecoverPersist, At, Sees, Loaded
  <2>2. \/ UNCHANGED <<hasState, state>>
        \/ hasState' /\ state' = [st[p] EXCEPT !.offset = st[p].length]
    BY <1>5 DEF RecoverPersist, Update, KeepState
  <2>3. CASE hasState' /\ state' = [st[p] EXCEPT !.offset = st[p].length]
    <3>1. state'.offset = Len(bytes) /\ state'.length = state.length
      BY <1>1, <2>1, <2>3 DEF UploadState, Size
    <3> QED
      BY <1>0, <1>1, <2>1, <2>3, <3>1 DEF Step, Kept, Size
  <2> QED
    BY <1>2, <2>2, <2>3
<1>6. CASE Reconcile(p)
  <2>1. pc[p] = "reconcile" /\ hasState /\ state = st[p]
    BY <1>0, <1>6 DEF Reconcile, At, Sees, Loaded
  <2>2. \/ UNCHANGED <<hasState, state>>
        \/ hasState' /\ state' = [st[p] EXCEPT !.offset = Size]
    BY <1>6 DEF Reconcile, Update, KeepState
  <2>3. CASE hasState' /\ state' = [st[p] EXCEPT !.offset = Size]
    <3>1. state'.offset = Len(bytes) /\ state'.length = state.length
      BY <1>1, <2>1, <2>3 DEF UploadState, Size
    <3> QED
      BY <1>0, <1>1, <2>1, <2>3, <3>1 DEF Step, Kept, Size
  <2> QED
    BY <1>2, <2>2, <2>3
<1>7. CASE Commit(p)
  <2>1. /\ pc[p] = "commit" /\ hasState /\ st[p].offset = state.offset
        /\ state.length # Deferred => st[p].length = state.length
        /\ Fits(st[p], arg[p].size)
    BY <1>0, <1>7 DEF Commit, At, Sees
  <2>2. \/ UNCHANGED <<hasState, state>>
        \/ hasState' /\ state' = [st[p] EXCEPT !.offset = @ + arg[p].size]
    BY <1>7 DEF Commit, Update, KeepState
  <2>3. arg[p].size \in Nat
    BY <1>0, <2>1 DEF Local, Args, NoBody
  <2>4. CASE hasState' /\ state' = [st[p] EXCEPT !.offset = @ + arg[p].size]
    <3>1. state'.offset = state.offset + arg[p].size /\ state'.length = st[p].length
      BY <1>1, <2>1, <2>4 DEF UploadState
    <3> QED
      BY <1>1, <2>1, <2>3, <2>4, <3>1 DEF Step
  <2> QED
    BY <1>2, <2>2, <2>4
<1>8. CASE DeleteState(p)
  <2>1. pc[p] = "delState" /\ doomed /\ state' = state
    BY <1>0, <1>8 DEF DeleteState, At, Sees
  <2> QED
    BY <1>0, <1>1, <1>8, <2>1 DEF Step, Kept, DeleteState
<1> QED
  BY <1>2, <1>3, <1>4, <1>5, <1>6, <1>7, <1>8
  DEF Handle, StorageCreate, UndoBlob, Lock, Load, Detect, RecoverGate, RecoverNotify,
      Prepare, Open, WriteChunk, StreamError, Sync, FinishGate, FinishNotify, Respond,
      PreTerminate, DeleteBlob, TryLock, Assess, KeepState, KeepStores, storeVars

LEMMA LateStep ==
  ASSUME TypeInv, Kept, Quiet, NEW d \in detached, Late(d)
  PROVE  Step
<1>0. Owed(d) /\ \A s \in Sweepers : pc[s] # "delState"
  BY LateFacts DEF Resting, Procs
<1>1. state.offset \in Nat /\ Len(bytes) \in Nat
  BY StateTypes DEF TypeInv, StoreOK
<1>2. CASE UNCHANGED <<hasState, state>>
  BY <1>1, <1>2 DEF Step
<1>3. CASE d.op = "set"
  <2>1. /\ hasState /\ hasState' /\ state'.offset = Len(bytes)
        /\ state.length # Deferred => state'.length = state.length
    BY <1>0, <1>3 DEF Late, Owed, Update, Size
  <2> QED
    BY <1>1, <2>1 DEF Step, Kept, Size
<1>4. CASE d.op = "forget"
  <2>1. ~hasState' /\ (doomed \/ ~known)
    BY <1>0, <1>4 DEF Late, Owed
  <2> QED
    BY <1>0, <2>1 DEF Step, Kept, At
<1> QED
  BY <1>2, <1>3, <1>4 DEF Late, KeepState

LEMMA NextStep == SInv /\ ~breached /\ [Next]_vars => Step
<1> SUFFICES ASSUME SInv, ~breached, [Next]_vars PROVE Step
  OBVIOUS
<1>0. TypeInv /\ Exclusive /\ Steady /\ Kept /\ Quiet
  BY DEF SInv, CInv, Sound, Steady
<1>1. state.offset \in Nat
  BY <1>0, StateTypes DEF TypeInv, StoreOK
<1>2. CASE UNCHANGED <<hasState, state>>
  BY <1>1, <1>2 DEF Step
<1>3. ASSUME NEW p \in Procs, Handle(p) PROVE Step
  BY <1>0, <1>3, HandleStep
<1>4. ASSUME NEW d \in detached, Late(d) PROVE Step
  BY <1>0, <1>4, LateStep
<1> QED
  BY <1>2, <1>3, <1>4
  DEF Next, vars, Post, Arrive, Cancel, ListExpired, Tick, Crash, KeepStores, storeVars

\* The persisted offset never moves backwards and the length never changes.
THEOREM OffsetAlwaysMonotonic == Spec => OffsetMonotonic
<1>1. SInv /\ [Next]_vars =>
        [~breached /\ hasState /\ hasState' /\ ~doomed =>
           /\ state'.offset >= state.offset
           /\ state.length # Deferred => state'.length = state.length]_vars
  BY NextStep DEF Step
<1> QED
  BY <1>1, SoundAlways, PTL DEF Spec, OffsetMonotonic

\* A record appears once, and goes after the bytes.
THEOREM BornOnceAlways == Spec => BornOnceGoneLast
<1>1. SInv /\ [Next]_vars =>
        [~breached =>
           /\ ~hasState /\ hasState' => \E r \in Requests : At(r, "record")
           /\ hasState /\ ~hasState' =>
                \/ ~hasBlob
                \/ ~known /\ \A s \in Sweepers : ~At(s, "delState")]_vars
  BY NextStep DEF Step
<1> QED
  BY <1>1, SoundAlways, PTL DEF Spec, BornOnceGoneLast

-----------------------------------------------------------------------------
(* The resource a client sees.                                             *)

\* A step of the resource, or none.
Seen == [Resource!Next]_(Resource!resourceVars)

\* A step that leaves the record and what clients were told alone.
LEMMA UnseenStep ==
  ASSUME UNCHANGED <<hasState, state, doomed, known, acked>>
  PROVE  Seen
BY DEF Seen, Resource!resourceVars, Live

\* A step of an upload that is not there.
LEMMA DeadStep ==
  ASSUME ~Live, ~Live', UNCHANGED <<known, acked>>
  PROVE  Seen
<1>1. Live' = Live
  BY DEF Live
<1> QED
  BY <1>1 DEF Seen, Resource!resourceVars

\* The bytes are deleted, or the record of a creation that is rolled back.
LEMMA RemoveStep ==
  ASSUME Live, ~Live', UNCHANGED <<known, acked>>
  PROVE  Seen
BY DEF Seen, Resource!Next, Resource!Remove

\* The record is written anew.
LEMMA AdvanceStep ==
  ASSUME hasState, hasState', UNCHANGED <<doomed, known, acked>>,
         state.offset \in Nat, state'.offset \in Nat, MaxSize \in Nat,
         state'.length \in Nat \cup {Deferred},
         state.length # Deferred => state'.length = state.length,
         ~doomed => /\ state.offset <= state'.offset /\ state'.offset <= MaxSize
                    /\ state'.length # Deferred => state'.offset <= state'.length
  PROVE  Seen
<1>1. CASE doomed
  BY <1>1, DeadStep DEF Live
<1>2. CASE ~doomed
  <2>1. Live /\ Live'
    BY <1>2 DEF Live
  <2> QED
    BY <1>2, <2>1 DEF Seen, Resource!Next, Resource!Advance
<1> QED
  BY <1>1, <1>2

\* A response.
LEMMA RespondSeen ==
  ASSUME TypeInv, Exclusive, Sound, NEW p \in Procs, Respond(p)
  PROVE  Seen
<1>0. Content /\ Kept /\ Sees(p) /\ Local(p) /\ Told
  BY Numbers DEF Sound, Steady
<1>1. /\ pc[p] = "respond" /\ UNCHANGED <<hasState, state, doomed>>
      /\ \/ /\ known' = (known \/ kind[p] = "post")
            /\ acked' = IF kind[p] \in {"post", "patch", "head"} /\ st[p].offset > acked
                        THEN st[p].offset ELSE acked
         \/ UNCHANGED <<known, acked>>
  BY DEF Respond, At, KeepStores, storeVars, Creating
<1>2. acked \in Nat /\ known \in BOOLEAN /\ st[p].offset \in Nat
  BY <1>0, Numbers
<1>3. kind[p] \notin {"none", "sweep"}
  BY <1>0, <1>1 DEF Local, Route, Kinds
<1>4. kind[p] # "post" => known
  BY <1>0, <1>3 DEF Local, Kinds, Exclusive, CreationFirst, Comers
<1>5. CASE kind[p] \notin {"post", "patch", "head"}
  BY <1>1, <1>2, <1>4, <1>5, UnseenStep
<1>6. CASE kind[p] \in {"post", "patch", "head"}
  <2>1. hasState /\ state = st[p] /\ st[p].offset = Len(bytes)
    BY <1>0, <1>1, <1>6 DEF Sees, Size
  <2>2. CASE doomed
    <3>1. kind[p] # "post"
      <4>1. kind[p] = "post" => p \in Requests
        BY <1>0 DEF Local, Procs
      <4> QED
        BY <1>0, <1>1, <2>2, <4>1 DEF Told
    <3>2. st[p].offset = 0
      BY <1>0, <2>1, <2>2 DEF Kept, Content
    <3> QED
      BY <1>1, <1>2, <1>4, <3>1, <3>2, UnseenStep
  <2>3. CASE ~doomed
    <3>1. Live /\ Live' /\ acked <= state.offset
      BY <1>0, <1>1, <2>1, <2>3 DEF Kept, Live
    <3>2. UNCHANGED <<known, acked>> \/ (known' /\ acked' = state.offset)
      <4>1. kind[p] = "post" \/ known
        BY <1>4
      <4>2. CASE known' = (known \/ kind[p] = "post")
                 /\ acked' = IF st[p].offset > acked THEN st[p].offset ELSE acked
        <5>1. known'
          BY <4>1, <4>2
        <5>2. acked' = state.offset
          BY <1>2, <2>1, <3>1, <4>2
        <5> QED
          BY <5>1, <5>2
      <4> QED
        BY <1>1, <1>6, <4>2
    <3> QED
      BY <1>1, <3>1, <3>2, UnseenStep DEF Seen, Resource!Next, Resource!Report
  <2> QED
    BY <2>2, <2>3
<1> QED
  BY <1>5, <1>6

\* Every step of a handler is a step of the resource, or none.
LEMMA HandleSeen ==
  ASSUME TypeInv, Exclusive, Sound, NEW p \in Procs, Handle(p)
  PROVE  Seen
<1>0. Kept /\ Sees(p) /\ Local(p)
  BY Numbers DEF Sound, Steady
<1>1. /\ state.offset \in Nat /\ state.length \in Nat \cup {Deferred}
      /\ st[p].offset \in Nat /\ st[p].length \in Nat \cup {Deferred}
      /\ state \in UploadState /\ st[p] \in UploadState
      /\ Len(bytes) \in Nat /\ MaxSize \in Nat
  BY <1>0, Numbers
<1>2. hasState => /\ Len(bytes) <= MaxSize
                  /\ state.length # Deferred => Len(bytes) <= state.length
  BY <1>0, <1>1 DEF Kept, Limited, StoredTooMuch, Size, Deferred
<1>3. CASE UNCHANGED <<hasState, state, doomed, known, acked>>
  BY <1>3, UnseenStep
<1>4. CASE RecordNew(p)
  <2>1. pc[p] = "record" /\ UNCHANGED <<doomed, known, acked>>
    BY <1>4 DEF RecordNew, At, KeepHist, histVars
  <2>2. ~hasState /\ ~doomed /\ st[p].offset = 0 /\ ~known
    <3>1. kind[p] = "post"
      BY <1>0, <2>1, CreationPoints
    <3> QED
      BY <1>0, <2>1, <3>1 DEF Sees, Exclusive, CreationFirst
  <2>3. CASE hasState' /\ state' = st[p]
    <3>1. ~Live /\ Live'
      BY <2>1, <2>2, <2>3 DEF Live
    <3> QED
      BY <1>1, <2>1, <2>2, <2>3, <3>1 DEF Seen, Resource!Next, Resource!Create
  <2>4. CASE KeepState
    BY <1>3, <2>1, <2>4 DEF KeepState
  <2> QED
    BY <1>4, <2>3, <2>4 DEF RecordNew, Update
<1>5. CASE UndoBlob(p) \/ UndoState(p) \/ DeleteBlob(p) \/ DeleteState(p)
  <2>1. /\ UNCHANGED <<state, known, acked>> /\ (hasState' => hasState) /\ (doomed => doomed')
    BY <1>5 DEF UndoBlob, UndoState, DeleteBlob, DeleteState, KeepState, KeepHist, histVars
  <2>2. Live' => Live
    BY <2>1 DEF Live
  <2>3. CASE Live /\ Live'
    BY <1>3, <2>1, <2>3, Numbers, <1>0 DEF Live, Seen, Resource!resourceVars
  <2> QED
    BY <2>1, <2>2, <2>3, DeadStep, RemoveStep
<1>6. CASE RecoverPersist(p)
  <2>1. /\ pc[p] = "recPersist" /\ hasState /\ state = st[p] /\ st[p].length = Len(bytes)
        /\ UNCHANGED <<doomed, known, acked>>
    BY <1>0, <1>6 DEF RecoverPersist, At, Sees, Loaded, KeepHist, histVars, Size
  <2>2. CASE hasState' /\ state' = [st[p] EXCEPT !.offset = st[p].length]
    <3>1. state'.offset = Len(bytes) /\ state'.length = state.length
      BY <1>1, <2>1, <2>2 DEF UploadState
    <3> QED
      BY <1>0, <1>1, <1>2, <2>1, <2>2, <3>1, AdvanceStep DEF Kept, Size
  <2> QED
    BY <1>3, <1>6, <2>1, <2>2 DEF RecoverPersist, Update, KeepState
<1>7. CASE Reconcile(p)
  <2>1. /\ pc[p] = "reconcile" /\ hasState /\ state = st[p]
        /\ UNCHANGED <<doomed, known, acked>>
    BY <1>0, <1>7 DEF Reconcile, At, Sees, Loaded, KeepHist, histVars
  <2>2. CASE hasState' /\ state' = [st[p] EXCEPT !.offset = Len(bytes)]
    <3>1. state'.offset = Len(bytes) /\ state'.length = state.length
      BY <1>1, <2>1, <2>2 DEF UploadState
    <3> QED
      BY <1>0, <1>1, <1>2, <2>1, <2>2, <3>1, AdvanceStep DEF Kept, Size
  <2> QED
    BY <1>3, <1>7, <2>1, <2>2 DEF Reconcile, Update, KeepState, Size
<1>8. CASE Commit(p)
  <2>1. /\ pc[p] = "commit" /\ hasState /\ st[p].offset = state.offset
        /\ state.length # Deferred => st[p].length = state.length
        /\ Fits(st[p], arg[p].size) /\ UNCHANGED <<doomed, known, acked>>
    BY <1>0, <1>8 DEF Commit, At, Sees, KeepHist, histVars
  <2>2. arg[p].size \in Nat
    BY <1>0, <2>1 DEF Local, Args, NoBody
  <2>3. CASE hasState' /\ state' = [st[p] EXCEPT !.offset = @ + arg[p].size]
    <3>1. state'.offset = state.offset + arg[p].size /\ state'.length = st[p].length
      BY <1>1, <2>1, <2>3 DEF UploadState
    <3> QED
      BY <1>1, <2>1, <2>2, <2>3, <3>1, AdvanceStep DEF Fits
  <2> QED
    BY <1>3, <1>8, <2>1, <2>3 DEF Commit, Update, KeepState
<1>9. CASE Respond(p)
  BY <1>9, RespondSeen
<1> QED
  BY <1>3, <1>4, <1>5, <1>6, <1>7, <1>8, <1>9
  DEF Handle, StorageCreate, Lock, Load, Detect, RecoverGate, RecoverNotify,
      Prepare, Open, WriteChunk, StreamError, Sync, FinishGate, FinishNotify,
      PreTerminate, TryLock, Assess, KeepState, KeepStores, storeVars, KeepHist, histVars

LEMMA LateSeen ==
  ASSUME TypeInv, Sound, NEW d \in detached, Late(d)
  PROVE  Seen
<1>0. Kept /\ Owed(d) /\ d \in Operations /\ UNCHANGED <<known, acked>>
  BY LateFacts DEF Sound, Steady
<1>1. /\ state.offset \in Nat /\ state.length \in Nat \cup {Deferred}
      /\ Len(bytes) \in Nat /\ MaxSize \in Nat
  BY StateTypes, ConstantsAssumption DEF TypeInv, StoreOK
<1>2. CASE UNCHANGED <<hasState, state, doomed>>
  BY <1>0, <1>2, UnseenStep
<1>3. CASE d.op = "set"
  <2>1. /\ hasState /\ hasState' /\ doomed' = doomed /\ state' = d.st
        /\ state'.offset = Len(bytes)
        /\ state.length # Deferred => state'.length = state.length
        /\ state'.length # Deferred => Len(bytes) <= state'.length
    BY <1>0, <1>3 DEF Late, Owed, Update, Size
  <2>2. state'.length \in Nat \cup {Deferred}
    BY <1>0, <1>3, <2>1, StateTypes DEF Operations
  <2>3. Len(bytes) <= MaxSize /\ (~doomed => state.offset <= Len(bytes))
    BY <1>0, <2>1 DEF Kept, Limited, Size
  <2> QED
    BY <1>0, <1>1, <2>1, <2>2, <2>3, AdvanceStep
<1>4. CASE d.op \in {"unlink", "forget"}
  <2>1. ~Live'
    BY <1>4 DEF Late, Live
  <2> QED
    BY <1>0, <2>1, DeadStep, RemoveStep
<1> QED
  BY <1>2, <1>3, <1>4 DEF Late, KeepState

LEMMA NextSeen ==
  SInv /\ [Next]_vars => [breached \/ Resource!Next]_(Resource!resourceVars)
<1> SUFFICES ASSUME SInv, ~breached, [Next]_vars PROVE Seen
  BY DEF Seen
<1>1. TypeInv /\ Exclusive /\ Sound
  BY DEF SInv, CInv
<1>2. CASE UNCHANGED <<hasState, state, doomed, known, acked>>
  BY <1>2, UnseenStep
<1>3. ASSUME NEW p \in Procs, Handle(p) PROVE Seen
  BY <1>1, <1>3, HandleSeen
<1>4. ASSUME NEW d \in detached, Late(d) PROVE Seen
  BY <1>1, <1>4, LateSeen
<1> QED
  BY <1>2, <1>3, <1>4
  DEF Next, vars, Post, Arrive, Cancel, ListExpired, Tick, Crash, KeepStores, storeVars,
      KeepHist, histVars

\* The handlers, the sweeper, recovery and the operations of dropped handlers
\* together implement the resource: every interleaving, failure and crash is, to
\* a client, a creation, an advance, a report of the offset on record or a
\* removal, until the lock is granted past work that goes on without it.
THEOREM ResourceRefinement == Spec => ImplementsResource
<1>1. Init => Resource!Init
  BY DEF Init, Resource!Init, Live
<1> QED
  BY <1>1, SoundAlways, NextSeen, PTL DEF Spec, ImplementsResource
=============================================================================
