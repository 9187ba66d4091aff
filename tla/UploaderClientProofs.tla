------------------------ MODULE UploaderClientProofs ------------------------
(***************************************************************************)
(* The safety properties of UploaderClient, for sources, parts, chunks and *)
(* retry budgets of any size.  The inductive invariant says that a request *)
(* in the network, however late, fits its part (Wire); that an answer      *)
(* which claims a whole part, and a task that believes it, is right unless *)
(* the upload has expired (Whole); and which of its parts the caller has   *)
(* joined and knows the URL of (CallerInv).                                *)
(*                                                                         *)
(* TypeOK also bounds the progress by the source: the counter is the sum   *)
(* of the parts' shares (Bounded), and that sum is bounded by an induction *)
(* over the parts.                                                         *)
(***************************************************************************)
EXTENDS UploaderClient, SequenceTheorems, WellFoundedInduction, TLAPS

LEMMA Constants ==
  /\ SourceLength \in Nat /\ PartSize \in Nat /\ MaxConcurrency \in Nat /\ MaxChunk \in Nat
  /\ SourceLength > 0 /\ PartSize > 0 /\ MaxConcurrency > 0 /\ MaxChunk > 0
  /\ MaxRetries \in Nat /\ InitialBody \in Nat
BY ConstantsAssumption

\* div_ceil: the parts before the last one do not use up the source.
LEMMA Ceiling ==
  /\ PartCount \in Nat
  /\ (PartCount - 1) * PartSize < SourceLength
<1> DEFINE n == SourceLength + PartSize - 1
<1>1. n \in Nat /\ PartSize \in Nat /\ PartSize > 0
  BY Constants
<1>2. n \div PartSize \in Nat /\ (n \div PartSize) * PartSize <= n
  BY <1>1
<1>3. ((n \div PartSize) - 1) * PartSize = (n \div PartSize) * PartSize - PartSize
  BY <1>1, <1>2
<1> QED
  BY <1>2, <1>3, Constants DEF PartCount

\* A part has at least one byte and at most PartSize.
LEMMA PartFacts ==
  ASSUME NEW p \in Parts
  PROVE  /\ p \in Nat /\ Start(p) \in Nat
         /\ PartLen(p) \in Nat /\ PartLen(p) > 0 /\ PartLen(p) <= PartSize
<1>1. p \in Nat /\ p >= 1 /\ p <= PartCount /\ PartCount \in Nat
  BY Ceiling DEF Parts
<1>2. (p - 1) * PartSize <= (PartCount - 1) * PartSize
  BY <1>1, Constants
<1>3. (p - 1) * PartSize \in Nat
  BY <1>1, Constants
<1> QED
  BY <1>1, <1>2, <1>3, Ceiling, Constants DEF Start, PartLen, Smaller

-----------------------------------------------------------------------------
ServerTypes ==
  /\ res \in [Parts -> {"none", "live", "gone"}]
  /\ stored \in [Parts -> Seq(Nat)]

WireTypes ==
  /\ net \in [Parts -> Requests] /\ late \in [Parts -> Requests]
  /\ ans \in [Parts -> Answers]

TaskTypes ==
  /\ pc \in [Parts -> Points]
  /\ attempt \in [Parts -> Nat] /\ stall \in [Parts -> Nat]
  /\ last \in [Parts -> Int] /\ sent \in [Parts -> Nat]
  /\ known \in [Parts -> BOOLEAN] /\ failed \in [Parts -> BOOLEAN]

ProgressTypes ==
  /\ seen \in [Parts -> Nat] /\ pend \in [Parts -> Nat]
  /\ total \in Nat /\ reported \in Nat

CallerTypes ==
  /\ next \in 1 .. PartCount + 1
  /\ created \in SUBSET Parts /\ tried \in SUBSET Parts
  /\ urls \in [Parts -> Parts \cup {NoUrl}]
  /\ main \in {"run", "drain", "cleanup", "concat", "ok", "error"}

\* The server holds a prefix of the part.
Stored(p) ==
  /\ Len(stored[p]) <= PartLen(p)
  /\ \A i \in 1 .. Len(stored[p]) : stored[p][i] = Start(p) + i
  /\ res[p] = "none" => Len(stored[p]) = 0

Whole(p) == res[p] = "gone" \/ Len(stored[p]) = PartLen(p)

Fits(p, req) ==
  /\ req.kind = "patch" => req.offset + req.len <= PartLen(p)
  /\ req.kind = "post" => req.len <= PartLen(p)

Wire(p) ==
  /\ Fits(p, net[p]) /\ Fits(p, late[p])
  /\ ans[p].kind = "ok" =>
       ans[p].offset <= PartLen(p) /\ (ans[p].offset = PartLen(p) => Whole(p))

\* A task that takes its part for uploaded is right.
Believed(p) ==
  /\ sent[p] <= PartLen(p)
  /\ pc[p] = "report" /\ sent[p] = PartLen(p) => Whole(p)
  /\ pc[p] \in {"finished", "joined"} /\ ~failed[p] => Whole(p)

Budget(p) ==
  /\ attempt[p] <= MaxRetries
  /\ stall[p] <= attempt[p] + 1
  /\ pc[p] \in {"new", "post", "head", "patch", "report"} => stall[p] <= attempt[p]

PartInv(p) == Stored(p) /\ Wire(p) /\ Believed(p) /\ Budget(p)

CallerInv ==
  /\ main = "run" =>
       \A p \in Parts : /\ pc[p] = "new" <=> p >= next
                        /\ pc[p] # "cancelled"
                        /\ pc[p] = "joined" => urls[p] = p
  /\ main # "run" => \A p \in Parts : pc[p] \notin Running
  /\ main \notin {"run", "drain"} => \A p \in Parts : pc[p] # "finished"
  /\ \A p \in Parts : pc[p] = "joined" /\ known[p] => p \in created
  /\ main = "error" => created \subseteq tried \/ \A p \in Parts : urls[p] = p
  /\ main = "ok" => final = [p \in Parts |-> p]

Types == ServerTypes /\ WireTypes /\ TaskTypes /\ ProgressTypes /\ CallerTypes

Inv == Types /\ CallerInv /\ \A p \in Parts : PartInv(p)

LEMMA InitInv == Init => Inv
<1> SUFFICES ASSUME Init PROVE Inv
  OBVIOUS
<1>1. NoReq \in Requests /\ NoAns \in Answers
  BY Constants DEF NoReq, NoAns, Requests, Answers
<1>2. ServerTypes /\ WireTypes
  BY <1>1 DEF Init, ServerTypes, WireTypes
<1>3. TaskTypes /\ ProgressTypes
  BY DEF Init, TaskTypes, ProgressTypes, Points, None
<1>4. CallerTypes
  BY Ceiling DEF Init, CallerTypes
<1>5. CallerInv
  BY Ceiling DEF Init, CallerInv, Parts
<1>6. ASSUME NEW p \in Parts PROVE PartInv(p)
  <2>1. stored[p] = << >> /\ net[p] = NoReq /\ late[p] = NoReq /\ ans[p] = NoAns /\ sent[p] = 0
        /\ pc[p] = "new" /\ attempt[p] = 0 /\ stall[p] = 0
    BY DEF Init
  <2>2. PartLen(p) \in Nat
    BY PartFacts
  <2> QED
    BY <2>1, <2>2, Constants
    DEF PartInv, Stored, Wire, Believed, Budget, Fits, NoReq, NoAns
<1> QED
  BY <1>2, <1>3, <1>4, <1>5, <1>6 DEF Inv, Types

-----------------------------------------------------------------------------
(* The network and the server.                                              *)

LEMMA ServerStep ==
  ASSUME Inv, NEW p \in Parts, UNCHANGED <<final, pc, task, prog, caller>>,
         ServerTypes', WireTypes',
         \A q \in Parts \ {p} :
           /\ res'[q] = res[q] /\ stored'[q] = stored[q]
           /\ net'[q] = net[q] /\ late'[q] = late[q] /\ ans'[q] = ans[q],
         Stored(p)', Wire(p)', Whole(p) => Whole(p)'
  PROVE  Inv'
<1>1. Types'
  BY DEF Inv, Types, TaskTypes, ProgressTypes, CallerTypes, task, prog, caller
<1>2. CallerInv'
  BY DEF Inv, CallerInv, task, caller
<1>3. ASSUME NEW q \in Parts PROVE PartInv(q)'
  <2>1. PartInv(q)
    BY DEF Inv
  <2>2. Believed(q)' /\ Budget(q)'
    BY <2>1 DEF PartInv, Believed, Budget, Whole, task
  <2>3. Stored(q)' /\ Wire(q)'
    BY <2>1 DEF PartInv, Stored, Wire, Whole
  <2> QED
    BY <2>2, <2>3 DEF PartInv
<1> QED
  BY <1>1, <1>2, <1>3 DEF Inv

\* What a request that fits does to the server, and what its answer says.
LEMMA ProcessSound ==
  ASSUME Inv, NEW p \in Parts, NEW req \in Requests, Fits(p, req), NEW answer \in Answers,
         Process(p, req, answer)
  PROVE  /\ ServerTypes' /\ Stored(p)' /\ (Whole(p) => Whole(p)')
         /\ \A q \in Parts \ {p} : res'[q] = res[q] /\ stored'[q] = stored[q]
         /\ answer.kind = "ok" =>
              answer.offset <= PartLen(p) /\ (answer.offset = PartLen(p) => Whole(p)')
<1>1. /\ Stored(p) /\ ServerTypes /\ stored[p] \in Seq(Nat)
      /\ req.offset \in Nat /\ req.len \in Nat
  BY DEF Inv, Types, PartInv, ServerTypes, Requests
<1>2. Start(p) \in Nat /\ PartLen(p) \in Nat /\ PartLen(p) > 0
  BY PartFacts
<1>3. CASE answer \in {Error, Refusal} /\ UNCHANGED <<res, stored>>
  BY <1>1, <1>3 DEF Error, Refusal, ServerTypes, Stored, Whole
<1>4. CASE /\ req.kind = "post" /\ res[p] = "none"
           /\ res' = [res EXCEPT ![p] = "live"]
           /\ \E k \in 0 .. req.len : /\ stored' = [stored EXCEPT ![p] = Chunk(p, 0, k)]
                                      /\ answer = Ok(k)
  <2>1. PICK k \in 0 .. req.len : stored' = [stored EXCEPT ![p] = Chunk(p, 0, k)] /\ answer = Ok(k)
    BY <1>4
  <2>2. /\ Chunk(p, 0, k) \in Seq(Nat) /\ Len(Chunk(p, 0, k)) = k
        /\ \A i \in 1 .. k : Chunk(p, 0, k)[i] = Start(p) + i
    BY <1>1, <1>2 DEF Chunk
  <2>3. stored'[p] = Chunk(p, 0, k) /\ res'[p] = "live" /\ ServerTypes'
    BY <1>1, <1>4, <2>1, <2>2 DEF ServerTypes
  <2>4. k <= PartLen(p)
    BY <1>1, <1>2, <1>4 DEF Fits
  <2>5. Stored(p)'
    BY <2>2, <2>3, <2>4 DEF Stored
  <2>6. ~Whole(p)
    BY <1>1, <1>2, <1>4 DEF Whole, Stored
  <2> QED
    BY <1>1, <1>4, <2>1, <2>2, <2>3, <2>4, <2>5, <2>6 DEF Ok, Whole, ServerTypes
<1>5. CASE /\ req.kind = "head" /\ res[p] = "live" /\ answer = Ok(Len(stored[p]))
           /\ UNCHANGED <<res, stored>>
  BY <1>1, <1>5 DEF Ok, ServerTypes, Stored, Whole
<1>6. CASE /\ req.kind = "patch" /\ res[p] = "live" /\ req.offset = Len(stored[p])
           /\ \E k \in 0 .. req.len :
                /\ stored' = [stored EXCEPT ![p] = @ \o Chunk(p, req.offset, k)]
                /\ answer = Ok(req.offset + k)
           /\ UNCHANGED res
  <2>1. PICK k \in 0 .. req.len :
          stored' = [stored EXCEPT ![p] = @ \o Chunk(p, req.offset, k)] /\ answer = Ok(req.offset + k)
    BY <1>6
  <2> DEFINE c == Chunk(p, req.offset, k)
             t == stored[p] \o c
  <2>2. /\ c \in Seq(Nat) /\ Len(c) = k
        /\ \A i \in 1 .. k : c[i] = Start(p) + req.offset + i
    BY <1>1, <1>2 DEF Chunk
  <2>3. stored' = [stored EXCEPT ![p] = t]
    BY <1>1, <2>1 DEF ServerTypes
  <2> HIDE DEF c
  <2>4. /\ t \in Seq(Nat) /\ Len(t) = req.offset + k
        /\ \A i \in 1 .. req.offset + k :
             t[i] = IF i <= req.offset THEN stored[p][i] ELSE c[i - req.offset]
    <3>1. /\ t \in Seq(Nat) /\ Len(t) = Len(stored[p]) + Len(c)
          /\ \A i \in 1 .. Len(stored[p]) + Len(c) :
               t[i] = IF i <= Len(stored[p]) THEN stored[p][i] ELSE c[i - Len(stored[p])]
      BY <1>1, <2>2, ConcatProperties
    <3> QED
      BY <1>6, <2>2, <3>1
  <2>5. \A i \in 1 .. req.offset + k : t[i] = Start(p) + i
    BY <1>1, <1>2, <1>6, <2>2, <2>4 DEF Stored
  <2> HIDE DEF t
  <2>6. stored'[p] = t /\ ServerTypes'
    BY <1>1, <1>6, <2>3, <2>4 DEF ServerTypes
  <2>7. req.offset + k <= PartLen(p)
    BY <1>1, <1>2, <1>6 DEF Fits
  <2>8. Stored(p)'
    BY <1>6, <2>4, <2>5, <2>6, <2>7 DEF Stored
  <2>9. Whole(p) => Whole(p)'
    BY <1>1, <1>2, <1>6, <2>4, <2>6, <2>7 DEF Whole
  <2> QED
    BY <1>1, <1>6, <2>1, <2>3, <2>4, <2>6, <2>7, <2>8, <2>9 DEF Ok, Whole, ServerTypes
<1> QED
  BY <1>3, <1>4, <1>5, <1>6 DEF Process

LEMMA Fixed ==
  /\ NoReq \in Requests /\ NoAns \in Answers /\ Error \in Answers
  /\ NoAns.kind = "none" /\ Error.kind = "retryable" /\ NoReq.kind = "none"
BY Constants DEF NoReq, NoAns, Error, Requests, Answers

LEMMA ServeInv == ASSUME Inv, NEW p \in Parts, Serve(p) PROVE Inv'
<1>1. PICK answer \in Answers :
        /\ Process(p, net[p], answer)
        /\ ans' = [ans EXCEPT ![p] = answer] \/ ans' = [ans EXCEPT ![p] = Error]
  BY DEF Serve
<1>2. net' = [net EXCEPT ![p] = NoReq] /\ UNCHANGED <<final, late, pc, task, prog, caller>>
  BY DEF Serve
<1>3. WireTypes /\ net[p] \in Requests /\ Wire(p)
  BY DEF Inv, Types, WireTypes, PartInv
<1>4. /\ ServerTypes' /\ Stored(p)' /\ (Whole(p) => Whole(p)')
      /\ \A q \in Parts \ {p} : res'[q] = res[q] /\ stored'[q] = stored[q]
      /\ answer.kind = "ok" =>
           answer.offset <= PartLen(p) /\ (answer.offset = PartLen(p) => Whole(p)')
  BY <1>1, <1>3, ProcessSound DEF Wire
<1>5. WireTypes'
  BY <1>1, <1>2, <1>3, Fixed DEF WireTypes
<1>6. Wire(p)'
  BY <1>1, <1>2, <1>3, <1>4, Fixed DEF Wire, WireTypes, Fits
<1>7. \A q \in Parts \ {p} : net'[q] = net[q] /\ late'[q] = late[q] /\ ans'[q] = ans[q]
  BY <1>1, <1>2, <1>3 DEF WireTypes
<1> QED
  BY <1>2, <1>4, <1>5, <1>6, <1>7, ServerStep

LEMMA TimeoutInv == ASSUME Inv, NEW p \in Parts, Timeout(p) PROVE Inv'
<1>1. WireTypes /\ ServerTypes /\ Wire(p) /\ Stored(p)
  BY DEF Inv, Types, PartInv
<1>2. WireTypes'
  BY <1>1, Fixed DEF Timeout, WireTypes
<1>3. Wire(p)'
  BY <1>1, Fixed DEF Timeout, Wire, WireTypes, Fits
<1>4. ServerTypes' /\ Stored(p)' /\ (Whole(p) => Whole(p)')
  BY <1>1 DEF Timeout, server, ServerTypes, Stored, Whole
<1>5. /\ UNCHANGED <<final, pc, task, prog, caller>>
      /\ \A q \in Parts \ {p} :
           /\ res'[q] = res[q] /\ stored'[q] = stored[q]
           /\ net'[q] = net[q] /\ late'[q] = late[q] /\ ans'[q] = ans[q]
  BY <1>1 DEF Timeout, server, WireTypes
<1> QED
  BY <1>2, <1>3, <1>4, <1>5, ServerStep

LEMMA ServeLateInv == ASSUME Inv, NEW p \in Parts, ServeLate(p) PROVE Inv'
<1>1. PICK answer \in Answers : Process(p, late[p], answer)
  BY DEF ServeLate
<1>2. late' = [late EXCEPT ![p] = NoReq] /\ UNCHANGED <<final, net, ans, pc, task, prog, caller>>
  BY DEF ServeLate
<1>3. WireTypes /\ late[p] \in Requests /\ Wire(p)
  BY DEF Inv, Types, WireTypes, PartInv
<1>4. /\ ServerTypes' /\ Stored(p)' /\ (Whole(p) => Whole(p)')
      /\ \A q \in Parts \ {p} : res'[q] = res[q] /\ stored'[q] = stored[q]
  BY <1>1, <1>3, ProcessSound DEF Wire
<1>5. WireTypes'
  BY <1>2, <1>3, Fixed DEF WireTypes
<1>6. Wire(p)'
  BY <1>2, <1>3, <1>4, Fixed DEF Wire, WireTypes, Fits
<1>7. \A q \in Parts \ {p} : net'[q] = net[q] /\ late'[q] = late[q] /\ ans'[q] = ans[q]
  BY <1>2, <1>3 DEF WireTypes
<1> QED
  BY <1>2, <1>4, <1>5, <1>6, <1>7, ServerStep

LEMMA ExpireInv == ASSUME Inv, NEW p \in Parts, Expire(p) PROVE Inv'
<1>1. WireTypes /\ ServerTypes /\ Wire(p) /\ Stored(p)
  BY DEF Inv, Types, PartInv
<1>2. res' = [res EXCEPT ![p] = "gone"] /\ UNCHANGED <<stored, final, wire, pc, task, prog, caller>>
  BY DEF Expire
<1>3. ServerTypes' /\ WireTypes'
  BY <1>1, <1>2 DEF ServerTypes, WireTypes, wire
<1>4. res'[p] = "gone"
  BY <1>1, <1>2 DEF ServerTypes
<1>5. Stored(p)' /\ Wire(p)' /\ Whole(p)'
  BY <1>1, <1>2, <1>4 DEF Stored, Wire, Whole, wire
<1>6. \A q \in Parts \ {p} :
        /\ res'[q] = res[q] /\ stored'[q] = stored[q]
        /\ net'[q] = net[q] /\ late'[q] = late[q] /\ ans'[q] = ans[q]
  BY <1>1, <1>2 DEF ServerTypes, wire
<1> QED
  BY <1>2, <1>3, <1>5, <1>6, ServerStep

\* Only an upload that is not whole loses bytes.
LEMMA RollbackInv == ASSUME Inv, NEW p \in Parts, Rollback(p) PROVE Inv'
<1>1. WireTypes /\ ServerTypes /\ Wire(p) /\ Stored(p) /\ stored[p] \in Seq(Nat)
  BY DEF Inv, Types, PartInv, ServerTypes
<1>2. PICK k \in 0 .. Len(stored[p]) - 1 : stored' = [stored EXCEPT ![p] = SubSeq(@, 1, k)]
  BY DEF Rollback
<1>3. /\ res[p] = "live" /\ Len(stored[p]) < PartLen(p)
      /\ UNCHANGED <<res, final, wire, pc, task, prog, caller>>
  BY DEF Rollback
<1>4. PartLen(p) \in Nat /\ Len(stored[p]) \in Nat
  BY <1>1, PartFacts
<1>5. /\ SubSeq(stored[p], 1, k) \in Seq(Nat) /\ Len(SubSeq(stored[p], 1, k)) = k
      /\ \A i \in 1 .. k : SubSeq(stored[p], 1, k)[i] = stored[p][i]
  BY <1>1, <1>4
<1>6. stored'[p] = SubSeq(stored[p], 1, k) /\ ServerTypes'
  BY <1>1, <1>2, <1>3, <1>5 DEF ServerTypes
<1>7. ~Whole(p)
  BY <1>3, <1>4 DEF Whole
<1>8. Stored(p)'
  BY <1>1, <1>3, <1>4, <1>5, <1>6 DEF Stored
<1>9. Wire(p)' /\ WireTypes'
  BY <1>1, <1>3, <1>7 DEF Wire, WireTypes, wire
<1>10. \A q \in Parts \ {p} :
         /\ res'[q] = res[q] /\ stored'[q] = stored[q]
         /\ net'[q] = net[q] /\ late'[q] = late[q] /\ ans'[q] = ans[q]
  BY <1>1, <1>2, <1>3 DEF ServerTypes, wire
<1> QED
  BY <1>3, <1>6, <1>7, <1>8, <1>9, <1>10, ServerStep

-----------------------------------------------------------------------------
(* The task of a part.                                                      *)

LEMMA TaskStep ==
  ASSUME Inv, NEW p \in Parts, UNCHANGED <<server, late, caller>>,
         WireTypes', TaskTypes', ProgressTypes',
         \A q \in Parts \ {p} :
           /\ net'[q] = net[q] /\ ans'[q] = ans[q] /\ pc'[q] = pc[q]
           /\ attempt'[q] = attempt[q] /\ stall'[q] = stall[q] /\ sent'[q] = sent[q]
           /\ known'[q] = known[q] /\ failed'[q] = failed[q],
         pc[p] \in Running, pc'[p] \in Running \cup {"finished"},
         Wire(p)', Believed(p)', Budget(p)'
  PROVE  Inv'
<1>1. Types'
  BY DEF Inv, Types, ServerTypes, CallerTypes, server, caller
<1>2. main = "run"
  BY DEF Inv, CallerInv
<1>3. /\ pc[p] \notin {"new", "cancelled", "joined"} /\ pc'[p] \notin {"new", "cancelled", "joined"}
  BY DEF Running, Waiting
<1>4. CallerInv'
  <2>1. CallerInv
    BY DEF Inv
  <2>2. \A q \in Parts : /\ pc'[q] = "new" <=> q >= next
                         /\ pc'[q] # "cancelled"
                         /\ pc'[q] = "joined" => urls[q] = q
    BY <1>2, <1>3, <2>1 DEF CallerInv
  <2>3. \A q \in Parts : pc'[q] = "joined" /\ known'[q] => q \in created
    BY <1>3, <2>1 DEF CallerInv
  <2> QED
    BY <1>2, <2>2, <2>3 DEF CallerInv, server, caller
<1>5. ASSUME NEW q \in Parts \ {p} PROVE PartInv(q)'
  <2>1. PartInv(q)
    BY DEF Inv
  <2> QED
    BY <2>1 DEF PartInv, Stored, Wire, Believed, Budget, Whole, server
<1>6. Stored(p)'
  BY DEF Inv, PartInv, Stored, server
<1> QED
  BY <1>1, <1>4, <1>5, <1>6 DEF Inv, PartInv

\* The wire and the program counter of the other parts, and of this one.
Elsewhere(p) ==
  \A q \in Parts \ {p} : net'[q] = net[q] /\ ans'[q] = ans[q] /\ pc'[q] = pc[q]

LEMMA SendStep ==
  ASSUME Inv, NEW p \in Parts, NEW at \in Waiting, NEW req \in Requests, Fits(p, req),
         Send(p, at, req), UNCHANGED server
  PROVE  /\ WireTypes' /\ Wire(p)' /\ pc' \in [Parts -> Points] /\ pc'[p] = at
         /\ Elsewhere(p) /\ UNCHANGED late
<1>1. WireTypes /\ Wire(p) /\ pc \in [Parts -> Points]
  BY DEF Inv, Types, TaskTypes, PartInv
<1>2. WireTypes' /\ pc' \in [Parts -> Points] /\ pc'[p] = at /\ Elsewhere(p)
  BY <1>1, Fixed DEF Send, WireTypes, Points, Running, Elsewhere
<1>3. net'[p] = req /\ late'[p] = late[p] /\ ans'[p] = NoAns
  BY <1>1 DEF Send, WireTypes
<1>4. Wire(p)'
  BY <1>1, <1>3, Fixed DEF Wire, Fits
<1> QED
  BY <1>2, <1>4 DEF Send

\* The task stops waiting: it is done, or reports what was acknowledged.
LEMMA StopStep ==
  ASSUME Inv, NEW p \in Parts, NEW at \in Running \cup {"finished"},
         pc' = [pc EXCEPT ![p] = at], ans' = [ans EXCEPT ![p] = NoAns],
         UNCHANGED <<net, late, server>>
  PROVE  /\ WireTypes' /\ Wire(p)' /\ pc' \in [Parts -> Points] /\ pc'[p] = at
         /\ Elsewhere(p) /\ UNCHANGED late
<1>1. WireTypes /\ Wire(p) /\ pc \in [Parts -> Points]
  BY DEF Inv, Types, TaskTypes, PartInv
<1>2. WireTypes' /\ pc' \in [Parts -> Points] /\ pc'[p] = at /\ Elsewhere(p) /\ ans'[p] = NoAns
  BY <1>1, Fixed DEF WireTypes, Points, Elsewhere
<1>3. Wire(p)'
  BY <1>1, <1>2, Fixed DEF Wire, Fits
<1> QED
  BY <1>2, <1>3

LEMMA RequestsFit ==
  ASSUME NEW p \in Parts
  PROVE  /\ HeadReq \in Requests /\ Fits(p, HeadReq)
         /\ \A o \in Nat : o <= PartLen(p) => PatchReq(p, o) \in Requests /\ Fits(p, PatchReq(p, o))
BY PartFacts, Constants DEF HeadReq, PatchReq, Requests, Fits, Smaller

LEMMA AdvanceTypes ==
  ASSUME Inv, NEW p \in Parts, NEW o \in Nat, Advance(p, o)
  PROVE  ProgressTypes'
<1> DEFINE delta == IF o > seen[p] THEN o - seen[p] ELSE 0
<1>1. ProgressTypes /\ seen[p] \in Nat
  BY DEF Inv, Types, ProgressTypes
<1>2. delta \in Nat /\ seen' = [seen EXCEPT ![p] = @ + delta] /\ total' = total + delta
      /\ pend' = [pend EXCEPT ![p] = IF delta = 0 THEN 0 ELSE total + delta] /\ reported' = reported
  BY <1>1 DEF Advance
<1> HIDE DEF delta
<1> QED
  BY <1>1, <1>2 DEF ProgressTypes

\* The state of a task and the answer it has.
LEMMA TaskFacts ==
  ASSUME Inv, NEW p \in Parts
  PROVE  /\ TaskTypes /\ ProgressTypes /\ Wire(p) /\ Believed(p) /\ Budget(p)
         /\ ans[p] \in Answers /\ ans[p].offset \in Nat
         /\ attempt[p] \in Nat /\ stall[p] \in Nat /\ last[p] \in Int /\ sent[p] \in Nat
         /\ PartLen(p) \in Nat /\ MaxRetries \in Nat
BY PartFacts, Constants DEF Inv, Types, WireTypes, TaskTypes, PartInv, Answers

\* A task ends: with an error, or because its part is whole.
LEMMA FinishInv ==
  ASSUME Inv, NEW p \in Parts, NEW isError \in BOOLEAN, Finish(p, isError),
         pc[p] \in Running, ~isError => Whole(p), ProgressTypes',
         UNCHANGED <<server, caller, last, sent, known, attempt>>,
         \/ UNCHANGED stall
         \/ stall' = [stall EXCEPT ![p] = @ + 1] /\ pc[p] \in {"head", "patch"}
  PROVE  Inv'
<1>1. WireTypes' /\ Wire(p)' /\ pc' \in [Parts -> Points] /\ pc'[p] = "finished" /\ Elsewhere(p)
      /\ UNCHANGED late
  BY StopStep DEF Finish
<1>2. failed' \in [Parts -> BOOLEAN] /\ failed'[p] = isError
      /\ \A q \in Parts \ {p} : failed'[q] = failed[q]
  BY TaskFacts DEF Finish, TaskTypes
<1>3. /\ stall' \in [Parts -> Nat] /\ stall'[p] <= attempt[p] + 1
      /\ \A q \in Parts \ {p} : stall'[q] = stall[q]
  BY TaskFacts DEF TaskTypes, Budget
<1>4. TaskTypes'
  BY <1>1, <1>2, <1>3, TaskFacts DEF TaskTypes
<1>5. Believed(p)' /\ Budget(p)'
  BY <1>1, <1>2, <1>3, TaskFacts DEF Believed, Budget, Whole, server
<1> QED
  BY <1>1, <1>2, <1>3, <1>4, <1>5, TaskStep DEF Elsewhere

\* A task sends another request: its offset and its budget are in order.
LEMMA SendInv ==
  ASSUME Inv, NEW p \in Parts, NEW at \in {"head", "patch", "lastHead"}, NEW req \in Requests,
         Fits(p, req), Send(p, at, req), pc[p] \in Running, ProgressTypes',
         UNCHANGED <<server, caller, known, failed>>,
         last' \in [Parts -> Int], sent' \in [Parts -> Nat],
         attempt' \in [Parts -> Nat], stall' \in [Parts -> Nat],
         \A q \in Parts \ {p} :
           attempt'[q] = attempt[q] /\ stall'[q] = stall[q] /\ sent'[q] = sent[q],
         sent'[p] <= PartLen(p), attempt'[p] <= MaxRetries, stall'[p] <= attempt'[p] + 1,
         at = "lastHead" \/ stall'[p] <= attempt'[p]
  PROVE  Inv'
<1>1. WireTypes' /\ Wire(p)' /\ pc' \in [Parts -> Points] /\ pc'[p] = at /\ Elsewhere(p)
      /\ UNCHANGED late
  BY SendStep DEF Waiting
<1>2. TaskTypes'
  BY <1>1, TaskFacts DEF TaskTypes
<1>3. Believed(p)' /\ Budget(p)'
  BY <1>1, TaskFacts DEF Believed, Budget
<1> QED
  BY <1>1, <1>2, <1>3, TaskStep DEF Elsewhere, Running, Waiting

LEMMA OnPostInv == ASSUME Inv, NEW p \in Parts, OnPost(p) PROVE Inv'
<1>1. pc[p] = "post" /\ UNCHANGED <<server, caller>>
  BY DEF OnPost
<1>2. CASE /\ ans[p].kind = "ok"
           /\ known' = [known EXCEPT ![p] = TRUE]
           /\ last' = [last EXCEPT ![p] = ans[p].offset]
           /\ sent' = [sent EXCEPT ![p] = ans[p].offset]
           /\ UNCHANGED <<failed, attempt, stall>>
  <2>1. ans[p].offset <= PartLen(p) /\ (ans[p].offset = PartLen(p) => Whole(p))
    BY <1>2, TaskFacts DEF Wire
  <2>2. /\ TaskTypes' \/ pc' \notin [Parts -> Points]
        /\ sent'[p] = ans[p].offset
        /\ \A q \in Parts \ {p} : sent'[q] = sent[q] /\ known'[q] = known[q]
    BY <1>2, TaskFacts DEF TaskTypes
  <2>3. CASE /\ pc' = [pc EXCEPT ![p] = "report"] /\ ans' = [ans EXCEPT ![p] = NoAns]
             /\ Advance(p, ans[p].offset) /\ UNCHANGED <<net, late>>
    <3>1. WireTypes' /\ Wire(p)' /\ pc' \in [Parts -> Points] /\ pc'[p] = "report" /\ Elsewhere(p)
      BY <1>1, <2>3, StopStep DEF Running
    <3>2. Believed(p)' /\ Budget(p)'
      BY <1>1, <1>2, <2>1, <2>2, <3>1, TaskFacts DEF Believed, Budget, Whole, server
    <3> QED
      BY <1>1, <1>2, <2>2, <2>3, <3>1, <3>2, TaskFacts, AdvanceTypes, TaskStep
      DEF Elsewhere, Running, Waiting
  <2>4. CASE Send(p, "patch", PatchReq(p, ans[p].offset)) /\ UNCHANGED prog
    <3>1. WireTypes' /\ Wire(p)' /\ pc' \in [Parts -> Points] /\ pc'[p] = "patch" /\ Elsewhere(p)
          /\ UNCHANGED late
      BY <1>1, <2>1, <2>4, TaskFacts, RequestsFit, SendStep DEF Waiting
    <3>2. Believed(p)' /\ Budget(p)'
      BY <1>1, <1>2, <2>1, <2>2, <3>1, TaskFacts DEF Believed, Budget
    <3>3. ProgressTypes'
      BY <2>4, TaskFacts DEF ProgressTypes, prog
    <3> QED
      BY <1>1, <1>2, <2>2, <3>1, <3>2, <3>3, TaskStep DEF Elsewhere, Running, Waiting
  <2> QED
    BY <1>1, <1>2, <2>3, <2>4 DEF OnPost
<1>3. CASE Finish(p, TRUE) /\ UNCHANGED <<known, last, sent, attempt, stall, prog>>
  BY <1>1, <1>3, TaskFacts, FinishInv DEF ProgressTypes, prog, Running, Waiting
<1> QED
  BY <1>2, <1>3 DEF OnPost

LEMMA ReportInv == ASSUME Inv, NEW p \in Parts, Report(p) PROVE Inv'
<1>1. /\ pc[p] = "report"
      /\ reported' = IF pend[p] > reported THEN pend[p] ELSE reported
      /\ pend' = [pend EXCEPT ![p] = 0]
      /\ UNCHANGED <<server, seen, total, attempt, last, sent, known, stall, caller>>
  BY DEF Report
<1>2. ProgressTypes'
  BY <1>1, TaskFacts DEF ProgressTypes
<1>3. CASE sent[p] = PartLen(p) /\ Finish(p, FALSE)
  <2>1. Whole(p)
    BY <1>1, <1>3, TaskFacts DEF Believed
  <2> QED
    BY <1>1, <1>2, <1>3, <2>1, FinishInv DEF Running
<1>4. CASE sent[p] < PartLen(p) /\ UNCHANGED failed /\ Send(p, "patch", PatchReq(p, sent[p]))
  <2>1. PatchReq(p, sent[p]) \in Requests /\ Fits(p, PatchReq(p, sent[p]))
    BY <1>4, TaskFacts, RequestsFit
  <2>2. stall[p] <= attempt[p] /\ attempt[p] <= MaxRetries /\ sent[p] <= PartLen(p)
    BY <1>1, TaskFacts DEF Budget, Believed
  <2> QED
    BY <1>1, <1>2, <1>4, <2>1, <2>2, TaskFacts, SendInv DEF TaskTypes, Running
<1> QED
  BY <1>3, <1>4 DEF Report

LEMMA OnHeadOkInv == ASSUME Inv, NEW p \in Parts, OnHeadOk(p) PROVE Inv'
<1>1. /\ pc[p] = "head" /\ ans[p].kind = "ok" /\ pc[p] \in Running
      /\ UNCHANGED <<server, prog, caller>>
  BY DEF OnHeadOk, Running, Waiting
<1>2. ProgressTypes'
  BY <1>1, TaskFacts DEF ProgressTypes, prog
<1>3. ans[p].offset <= PartLen(p) /\ (ans[p].offset = PartLen(p) => Whole(p))
  BY <1>1, TaskFacts DEF Wire
<1>4. CASE /\ ans[p].offset = PartLen(p) /\ Finish(p, FALSE)
           /\ UNCHANGED <<attempt, last, sent, known, stall>>
  BY <1>1, <1>2, <1>3, <1>4, FinishInv
<1>5. CASE /\ attempt' = [attempt EXCEPT ![p] = IF Progressed(p, ans[p].offset) THEN 0 ELSE @]
           /\ stall' = [stall EXCEPT ![p] = IF ans[p].offset > last[p] THEN 0 ELSE @]
           /\ last' = [last EXCEPT ![p] = IF ans[p].offset > @ THEN ans[p].offset ELSE @]
           /\ sent' = [sent EXCEPT ![p] = ans[p].offset]
           /\ Send(p, "patch", PatchReq(p, ans[p].offset))
           /\ UNCHANGED <<known, failed>>
  <2>1. PatchReq(p, ans[p].offset) \in Requests /\ Fits(p, PatchReq(p, ans[p].offset))
    BY <1>3, TaskFacts, RequestsFit
  <2>2. /\ attempt' \in [Parts -> Nat] /\ stall' \in [Parts -> Nat]
        /\ last' \in [Parts -> Int] /\ sent' \in [Parts -> Nat]
        /\ \A q \in Parts \ {p} :
             attempt'[q] = attempt[q] /\ stall'[q] = stall[q] /\ sent'[q] = sent[q]
    BY <1>5, TaskFacts DEF TaskTypes
  <2>3. sent'[p] <= PartLen(p) /\ attempt'[p] <= MaxRetries /\ stall'[p] <= attempt'[p]
    BY <1>1, <1>3, <1>5, TaskFacts DEF TaskTypes, Budget, Progressed
  <2>4. stall'[p] <= attempt'[p] + 1
    BY <2>2, <2>3
  <2> QED
    BY <1>1, <1>2, <1>5, <2>1, <2>2, <2>3, <2>4, SendInv
<1> QED
  BY <1>4, <1>5 DEF OnHeadOk

LEMMA RetryInv ==
  ASSUME Inv, NEW p \in Parts, pc[p] \in {"head", "patch"}, ~Exhausted(p), Retry(p),
         UNCHANGED <<server, prog, caller, last, sent, known>>
  PROVE  Inv'
<1>1. ProgressTypes' /\ pc[p] \in Running
  BY TaskFacts DEF ProgressTypes, prog, Running, Waiting
<1>2. stall' = [stall EXCEPT ![p] = @ + 1]
  BY DEF Retry
<1>3. CASE Finish(p, TRUE) /\ UNCHANGED attempt
  BY <1>1, <1>2, <1>3, FinishInv
<1>4. CASE /\ attempt' = [attempt EXCEPT ![p] = @ + 1]
           /\ Send(p, "head", HeadReq) /\ UNCHANGED failed
  <2>1. /\ attempt' \in [Parts -> Nat] /\ stall' \in [Parts -> Nat]
        /\ last' \in [Parts -> Int] /\ sent' \in [Parts -> Nat]
        /\ \A q \in Parts \ {p} :
             attempt'[q] = attempt[q] /\ stall'[q] = stall[q] /\ sent'[q] = sent[q]
    BY <1>2, <1>4, TaskFacts DEF TaskTypes
  <2>2. sent'[p] <= PartLen(p) /\ attempt'[p] <= MaxRetries /\ stall'[p] <= attempt'[p]
    <3>1. attempt[p] # MaxRetries /\ attempt[p] <= MaxRetries /\ stall[p] <= attempt[p]
      BY TaskFacts DEF Exhausted, Budget
    <3>2. attempt'[p] = attempt[p] + 1 /\ stall'[p] = stall[p] + 1
      BY <1>2, <1>4, TaskFacts DEF TaskTypes
    <3>3. sent'[p] <= PartLen(p)
      BY TaskFacts DEF Believed
    <3> QED
      BY <3>1, <3>2, <3>3, TaskFacts
  <2>3. stall'[p] <= attempt'[p] + 1
    BY <2>1, <2>2
  <2> QED
    BY <1>1, <1>4, <2>1, <2>2, <2>3, RequestsFit, SendInv
<1> QED
  BY <1>3, <1>4 DEF Retry

LEMMA OnHeadFailInv == ASSUME Inv, NEW p \in Parts, OnHeadFail(p) PROVE Inv'
<1>1. pc[p] = "head" /\ pc[p] \in Running /\ UNCHANGED <<server, prog, caller, last, sent, known>>
  BY DEF OnHeadFail, Running, Waiting
<1>2. ProgressTypes'
  BY <1>1, TaskFacts DEF ProgressTypes, prog
<1>3. CASE Finish(p, TRUE) /\ UNCHANGED <<attempt, stall>>
  BY <1>1, <1>2, <1>3, FinishInv
<1>4. CASE ~Exhausted(p) /\ Retry(p)
  BY <1>1, <1>4, RetryInv
<1> QED
  BY <1>3, <1>4 DEF OnHeadFail

LEMMA OnPatchOkInv == ASSUME Inv, NEW p \in Parts, OnPatchOk(p) PROVE Inv'
<1>1. /\ pc[p] = "patch" /\ ans[p].kind = "ok" /\ pc[p] \in Running
      /\ UNCHANGED <<server, caller, attempt, last, known, stall>>
  BY DEF OnPatchOk, Running, Waiting
<1>2. ans[p].offset <= PartLen(p) /\ (ans[p].offset = PartLen(p) => Whole(p))
  BY <1>1, TaskFacts DEF Wire
<1>3. CASE Finish(p, TRUE) /\ UNCHANGED <<sent, prog>>
  BY <1>1, <1>3, TaskFacts, FinishInv DEF ProgressTypes, prog
<1>4. CASE /\ sent' = [sent EXCEPT ![p] = ans[p].offset]
           /\ pc' = [pc EXCEPT ![p] = "report"]
           /\ ans' = [ans EXCEPT ![p] = NoAns]
           /\ Advance(p, ans[p].offset)
           /\ UNCHANGED <<net, late, failed>>
  <2>1. WireTypes' /\ Wire(p)' /\ pc' \in [Parts -> Points] /\ pc'[p] = "report" /\ Elsewhere(p)
    BY <1>1, <1>4, StopStep DEF Running
  <2>2. /\ TaskTypes' /\ sent'[p] = ans[p].offset
        /\ \A q \in Parts \ {p} : sent'[q] = sent[q]
    BY <1>1, <1>4, <2>1, TaskFacts DEF TaskTypes
  <2>3. Believed(p)' /\ Budget(p)'
    BY <1>1, <1>2, <2>1, <2>2, TaskFacts DEF Believed, Budget, Whole, server
  <2> QED
    BY <1>1, <1>4, <2>1, <2>2, <2>3, TaskFacts, AdvanceTypes, TaskStep
    DEF Elsewhere, Running
<1> QED
  BY <1>3, <1>4 DEF OnPatchOk

LEMMA OnPatchFailInv == ASSUME Inv, NEW p \in Parts, OnPatchFail(p) PROVE Inv'
<1>1. pc[p] = "patch" /\ pc[p] \in Running /\ UNCHANGED <<server, prog, caller, last, sent, known>>
  BY DEF OnPatchFail, Running, Waiting
<1>2. ProgressTypes'
  BY <1>1, TaskFacts DEF ProgressTypes, prog
<1>3. CASE Finish(p, TRUE) /\ UNCHANGED <<attempt, stall>>
  BY <1>1, <1>2, <1>3, FinishInv
<1>4. CASE /\ Send(p, "lastHead", HeadReq) /\ stall' = [stall EXCEPT ![p] = @ + 1]
           /\ UNCHANGED <<attempt, failed>>
  <2>1. /\ attempt' \in [Parts -> Nat] /\ stall' \in [Parts -> Nat]
        /\ last' \in [Parts -> Int] /\ sent' \in [Parts -> Nat]
        /\ \A q \in Parts \ {p} :
             attempt'[q] = attempt[q] /\ stall'[q] = stall[q] /\ sent'[q] = sent[q]
    BY <1>1, <1>4, TaskFacts DEF TaskTypes
  <2>2. sent'[p] <= PartLen(p) /\ attempt'[p] <= MaxRetries /\ stall'[p] <= attempt'[p] + 1
    BY <1>1, <1>4, TaskFacts DEF TaskTypes, Budget, Believed
  <2> QED
    BY <1>1, <1>2, <1>4, <2>1, <2>2, RequestsFit, SendInv
<1>5. CASE ~Exhausted(p) /\ Retry(p)
  BY <1>1, <1>5, RetryInv
<1> QED
  BY <1>3, <1>4, <1>5 DEF OnPatchFail

LEMMA OnLastHeadInv == ASSUME Inv, NEW p \in Parts, OnLastHead(p) PROVE Inv'
<1> DEFINE isError == ~(ans[p].kind = "ok" /\ ans[p].offset = PartLen(p))
<1>1. /\ pc[p] = "lastHead" /\ pc[p] \in Running /\ Finish(p, isError)
      /\ UNCHANGED <<server, prog, caller, attempt, last, sent, known, stall>>
  BY DEF OnLastHead, Running, Waiting
<1>2. ProgressTypes'
  BY <1>1, TaskFacts DEF ProgressTypes, prog
<1>3. ~isError => Whole(p)
  BY TaskFacts DEF Wire
<1>4. isError \in BOOLEAN
  OBVIOUS
<1> HIDE DEF isError
<1> QED
  BY <1>1, <1>2, <1>3, <1>4, FinishInv

-----------------------------------------------------------------------------
(* upload_parallel.                                                         *)

LEMMA SpawnInv == ASSUME Inv, Spawn PROVE Inv'
<1>0. PICK p \in Parts : p = next
  BY DEF Spawn, MaySpawn
<1> DEFINE req == [kind |-> "post", offset |-> 0, len |-> IF WithBody(p) THEN PartLen(p) ELSE 0]
<1>1. /\ main = "run" /\ next' = next + 1 /\ Send(p, "post", req)
      /\ UNCHANGED <<server, task, prog, created, urls, main, tried>>
  BY <1>0 DEF Spawn, MaySpawn
<1>2. req \in Requests /\ Fits(p, req)
  BY <1>1, PartFacts, Constants DEF Requests, Fits
<1> HIDE DEF req
<1>3. WireTypes' /\ Wire(p)' /\ pc' \in [Parts -> Points] /\ pc'[p] = "post" /\ Elsewhere(p)
      /\ UNCHANGED late
  BY <1>1, <1>2, SendStep DEF Waiting
<1>4. next \in Nat /\ PartCount \in Nat /\ next <= PartCount
  BY <1>0, Ceiling DEF Parts
<1>5. Types'
  BY <1>1, <1>3, <1>4
  DEF Inv, Types, ServerTypes, TaskTypes, ProgressTypes, CallerTypes, server, task, prog
<1>6. CallerInv /\ pc[p] = "new"
  BY <1>0, <1>1, <1>4 DEF Inv, CallerInv
<1>7. CallerInv'
  <2>1. \A q \in Parts : q \in Nat
    BY PartFacts
  <2> QED
    BY <1>0, <1>1, <1>3, <1>4, <1>6, <2>1 DEF CallerInv, Elsewhere, task, server
<1>8. ASSUME NEW q \in Parts PROVE PartInv(q)'
  <2>1. PartInv(q)
    BY DEF Inv
  <2>2. CASE q = p
    BY <1>1, <1>3, <1>6, <2>1, <2>2
    DEF PartInv, Stored, Believed, Budget, server, task
  <2>3. CASE q # p
    BY <1>1, <1>3, <2>1, <2>3
    DEF PartInv, Stored, Wire, Believed, Budget, Whole, Elsewhere, server, task
  <2> QED
    BY <2>2, <2>3
<1> QED
  BY <1>5, <1>7, <1>8 DEF Inv

\* The running tasks are dropped; what the finished ones found stays.
LEMMA AbortInv ==
  ASSUME Inv, NEW joined \in SUBSET Parts, AbortAll(joined), main = "run",
         \A p \in joined : pc[p] = "finished",
         UNCHANGED <<server, next, urls, tried>>, created' \in SUBSET Parts,
         created \subseteq created', \A p \in joined : known[p] => p \in created'
  PROVE  Inv'
<1> DEFINE D == {p \in Parts : pc[p] \in Running}
<1>1. /\ main' = "drain" /\ UNCHANGED <<net, late, known, failed, seen, total, reported>>
      /\ pc' = [p \in Parts |-> IF p \in D THEN "cancelled"
                                ELSE IF p \in joined THEN "joined" ELSE pc[p]]
      /\ ans' = [p \in Parts |-> IF p \in D THEN NoAns ELSE ans[p]]
      /\ attempt' = [p \in Parts |-> IF p \in D THEN 0 ELSE attempt[p]]
      /\ last' = [p \in Parts |-> IF p \in D THEN None ELSE last[p]]
      /\ sent' = [p \in Parts |-> IF p \in D THEN 0 ELSE sent[p]]
      /\ stall' = [p \in Parts |-> IF p \in D THEN 0 ELSE stall[p]]
      /\ pend' = [p \in Parts |-> IF p \in D THEN 0 ELSE pend[p]]
  BY DEF AbortAll
<1>2. ServerTypes' /\ CallerTypes'
  BY <1>1 DEF Inv, Types, ServerTypes, CallerTypes, server
<1>3. WireTypes'
  BY <1>1, Fixed DEF Inv, Types, WireTypes
<1>4. TaskTypes'
  BY <1>1 DEF Inv, Types, TaskTypes, Points, None
<1>5. ProgressTypes'
  BY <1>1 DEF Inv, Types, ProgressTypes
<1>6. CallerInv'
  <2>1. \A p \in Parts : pc'[p] \notin Running
    BY <1>1 DEF Running, Waiting
  <2>2. \A p \in Parts : pc'[p] = "joined" /\ known'[p] => p \in created'
    BY <1>1 DEF Inv, CallerInv
  <2> QED
    BY <1>1, <2>1, <2>2 DEF CallerInv
<1>7. ASSUME NEW p \in Parts PROVE PartInv(p)'
  <2>1. PartInv(p) /\ PartLen(p) \in Nat
    BY PartFacts DEF Inv
  <2>2. Stored(p)'
    BY <2>1 DEF PartInv, Stored, server
  <2>3. CASE p \in D
    <3>1. pc'[p] = "cancelled" /\ ans'[p] = NoAns /\ attempt'[p] = 0 /\ sent'[p] = 0 /\ stall'[p] = 0
      BY <1>1, <2>3
    <3> QED
      BY <1>1, <2>1, <2>2, <3>1, Fixed, Constants DEF PartInv, Wire, Believed, Budget
  <2>4. CASE p \notin D
    <3>1. /\ ans'[p] = ans[p] /\ attempt'[p] = attempt[p] /\ sent'[p] = sent[p] /\ stall'[p] = stall[p]
          /\ pc'[p] = pc[p] \/ (pc[p] = "finished" /\ pc'[p] = "joined")
      BY <1>1, <2>4
    <3> QED
      BY <1>1, <2>1, <2>2, <3>1 DEF PartInv, Wire, Believed, Budget, Whole, server
  <2> QED
    BY <2>3, <2>4
<1> QED
  BY <1>2, <1>3, <1>4, <1>5, <1>6, <1>7 DEF Inv, Types

LEMMA SourceFailsInv == ASSUME Inv, SourceFails PROVE Inv'
<1>1. main = "run" /\ AbortAll({}) /\ UNCHANGED <<server, next, created, urls, tried>>
  BY DEF SourceFails
<1>2. created \in SUBSET Parts
  BY DEF Inv, Types, CallerTypes
<1> QED
  BY <1>1, <1>2, AbortInv

\* A finished task is joined: its part keeps what it knows.
LEMMA JoinedPart ==
  ASSUME Inv, NEW p \in Parts, pc[p] = "finished", pc' = [pc EXCEPT ![p] = "joined"],
         UNCHANGED <<server, wire, task, prog>>
  PROVE  /\ ServerTypes' /\ WireTypes' /\ TaskTypes' /\ ProgressTypes'
         /\ \A q \in Parts : PartInv(q)'
         /\ pc'[p] = "joined" /\ \A q \in Parts \ {p} : pc'[q] = pc[q]
<1>1. ServerTypes' /\ WireTypes' /\ ProgressTypes'
  BY DEF Inv, Types, ServerTypes, WireTypes, ProgressTypes, server, wire, prog
<1>2. TaskTypes' /\ pc'[p] = "joined" /\ \A q \in Parts \ {p} : pc'[q] = pc[q]
  BY DEF Inv, Types, TaskTypes, Points, task
<1>3. ASSUME NEW q \in Parts PROVE PartInv(q)'
  <2>1. PartInv(q)
    BY DEF Inv
  <2>2. Stored(q)' /\ Wire(q)'
    BY <2>1 DEF PartInv, Stored, Wire, Whole, server, wire
  <2>3. Believed(q)' /\ Budget(q)'
    BY <1>2, <2>1 DEF PartInv, Believed, Budget, Whole, server, task
  <2> QED
    BY <2>2, <2>3 DEF PartInv
<1> QED
  BY <1>1, <1>2, <1>3

LEMMA JoinInv == ASSUME Inv, NEW p \in Parts, Join(p) PROVE Inv'
<1>1. /\ main = "run" /\ pc[p] = "finished"
      /\ created' = IF known[p] THEN created \cup {p} ELSE created
      /\ UNCHANGED <<server, next, tried>>
  BY DEF Join
<1>2. created' \in SUBSET Parts /\ created \subseteq created' /\ (known[p] => p \in created')
  BY <1>1 DEF Inv, Types, CallerTypes
<1>3. CASE failed[p] /\ AbortAll({p}) /\ UNCHANGED urls
  BY <1>1, <1>2, <1>3, AbortInv
<1>4. CASE /\ urls' = [urls EXCEPT ![p] = p] /\ pc' = [pc EXCEPT ![p] = "joined"]
           /\ UNCHANGED <<main, wire, task, prog>>
  <2>1. /\ ServerTypes' /\ WireTypes' /\ TaskTypes' /\ ProgressTypes'
        /\ \A q \in Parts : PartInv(q)'
        /\ pc'[p] = "joined" /\ \A q \in Parts \ {p} : pc'[q] = pc[q]
    BY <1>1, <1>4, JoinedPart
  <2>2. CallerTypes' /\ urls'[p] = p /\ \A q \in Parts \ {p} : urls'[q] = urls[q]
    BY <1>1, <1>2, <1>4 DEF Inv, Types, CallerTypes
  <2>3. CallerInv'
    <3>1. known' = known /\ main' = "run" /\ next' = next
      BY <1>1, <1>4 DEF task
    <3>2. CallerInv
      BY DEF Inv
    <3> QED
      BY <1>1, <1>2, <2>1, <2>2, <3>1, <3>2 DEF CallerInv
  <2> QED
    BY <2>1, <2>2, <2>3 DEF Inv, Types
<1> QED
  BY <1>3, <1>4 DEF Join

LEMMA DrainInv == ASSUME Inv, Drain PROVE Inv'
<1>1. main = "drain" /\ UNCHANGED <<server, wire, task, prog, next, urls, tried>>
  BY DEF Drain
<1>2. CASE \E p \in Parts :
             /\ pc[p] = "finished"
             /\ pc' = [pc EXCEPT ![p] = "joined"]
             /\ created' = IF known[p] THEN created \cup {p} ELSE created
             /\ UNCHANGED main
  <2>1. PICK p \in Parts :
          /\ pc[p] = "finished"
          /\ pc' = [pc EXCEPT ![p] = "joined"]
          /\ created' = IF known[p] THEN created \cup {p} ELSE created
          /\ UNCHANGED main
    BY <1>2
  <2>2. /\ ServerTypes' /\ WireTypes' /\ TaskTypes' /\ ProgressTypes'
        /\ \A q \in Parts : PartInv(q)'
        /\ pc'[p] = "joined" /\ \A q \in Parts \ {p} : pc'[q] = pc[q]
    BY <1>1, <2>1, JoinedPart
  <2>3. CallerTypes'
    BY <1>1, <2>1 DEF Inv, Types, CallerTypes
  <2>4. CallerInv'
    BY <1>1, <2>1, <2>2 DEF Inv, CallerInv, task, Running, Waiting
  <2> QED
    BY <2>2, <2>3, <2>4 DEF Inv, Types
<1>3. CASE /\ \A p \in Parts : pc[p] # "finished"
           /\ main' = "cleanup"
           /\ UNCHANGED <<pc, created>>
  <2>1. Types'
    BY <1>1, <1>3 DEF Inv, Types, ServerTypes, WireTypes, TaskTypes, ProgressTypes, CallerTypes,
                      server, wire, task, prog
  <2>2. CallerInv'
    BY <1>1, <1>3 DEF Inv, CallerInv, task
  <2>3. \A p \in Parts : PartInv(p)'
    BY <1>1, <1>3
    DEF Inv, PartInv, Stored, Wire, Believed, Budget, Whole, server, wire, task
  <2> QED
    BY <2>1, <2>2, <2>3 DEF Inv
<1> QED
  BY <1>2, <1>3 DEF Drain

LEMMA CleanupInv == ASSUME Inv, Cleanup PROVE Inv'
<1>1. main = "cleanup" /\ UNCHANGED <<stored, final, wire, pc, task, prog, next, created, urls>>
  BY DEF Cleanup
<1>2. /\ main' = "cleanup" \/ (main' = "error" /\ created \subseteq tried /\ UNCHANGED tried)
      /\ tried' \in SUBSET Parts
      /\ UNCHANGED res \/ \E p \in Parts : res' = [res EXCEPT ![p] = "gone"]
  BY <1>1 DEF Cleanup, Inv, Types, CallerTypes
<1>3. res' \in [Parts -> {"none", "live", "gone"}]
      /\ \A p \in Parts : res'[p] = res[p] \/ res'[p] = "gone"
  BY <1>2 DEF Inv, Types, ServerTypes
<1>4. Types'
  BY <1>1, <1>2, <1>3
  DEF Inv, Types, ServerTypes, WireTypes, TaskTypes, ProgressTypes, CallerTypes, wire, task, prog
<1>5. CallerInv'
  BY <1>1, <1>2 DEF Inv, CallerInv, task
<1>6. ASSUME NEW p \in Parts PROVE PartInv(p)'
  <2>1. PartInv(p) /\ (Whole(p) => Whole(p)')
    BY <1>1, <1>3 DEF Inv, Whole
  <2>2. Stored(p)' /\ Wire(p)'
    BY <1>1, <1>3, <2>1 DEF PartInv, Stored, Wire, wire
  <2>3. Believed(p)' /\ Budget(p)'
    BY <1>1, <2>1 DEF PartInv, Believed, Budget, task
  <2> QED
    BY <2>2, <2>3 DEF PartInv
<1> QED
  BY <1>4, <1>5, <1>6 DEF Inv

\* When nothing is left to spawn or to join, every part has its own URL.
LEMMA AllJoined ==
  ASSUME Inv, main = "run", next = PartCount + 1, Spawned = {}
  PROVE  urls = [p \in Parts |-> p]
<1>1. ASSUME NEW p \in Parts PROVE urls[p] = p
  <2>1. p \in Nat /\ PartCount \in Nat /\ p <= PartCount
    BY Ceiling DEF Parts
  <2>2. pc[p] # "new" /\ pc[p] # "cancelled" /\ pc[p] \in Points
    BY <2>1 DEF Inv, CallerInv, Types, TaskTypes
  <2>3. pc[p] = "joined"
    BY <2>2 DEF Spawned, Points
  <2> QED
    BY <2>3 DEF Inv, CallerInv
<1> QED
  BY <1>1 DEF Inv, Types, CallerTypes

LEMMA ConcatenateInv == ASSUME Inv, Concatenate PROVE Inv'
<1>1. /\ main = "run" /\ next = PartCount + 1 /\ Spawned = {} /\ main' \in {"ok", "error"}
      /\ main' = "ok" => final' = urls
      /\ UNCHANGED <<res, stored, wire, pc, task, prog, next, created, urls, tried>>
  BY DEF Concatenate
<1>2. urls = [p \in Parts |-> p]
  BY <1>1, AllJoined
<1>3. Types'
  BY <1>1
  DEF Inv, Types, ServerTypes, WireTypes, TaskTypes, ProgressTypes, CallerTypes, wire, task, prog
<1>4. CallerInv'
  <2>1. \A p \in Parts : pc[p] \notin Running \cup {"finished"}
    BY <1>1 DEF Spawned
  <2>2. \A p \in Parts : urls[p] = p
    BY <1>2
  <2> QED
    BY <1>1, <1>2, <2>1, <2>2 DEF Inv, CallerInv, task
<1>5. \A p \in Parts : PartInv(p)'
  BY <1>1 DEF Inv, PartInv, Stored, Wire, Believed, Budget, Whole, wire, task
<1> QED
  BY <1>3, <1>4, <1>5 DEF Inv

LEMMA NextInv == Inv /\ [Next]_vars => Inv'
<1> SUFFICES ASSUME Inv, [Next]_vars PROVE Inv'
  OBVIOUS
<1>1. CASE UNCHANGED vars
  <2>1. Types'
    BY <1>1
    DEF vars, Inv, Types, ServerTypes, WireTypes, TaskTypes, ProgressTypes, CallerTypes,
        server, wire, task, prog, caller
  <2>2. CallerInv'
    BY <1>1 DEF vars, Inv, CallerInv, server, task, caller
  <2>3. \A p \in Parts : PartInv(p)'
    BY <1>1
    DEF vars, Inv, PartInv, Stored, Wire, Believed, Budget, Whole, server, wire, task
  <2> QED
    BY <2>1, <2>2, <2>3 DEF Inv
<1>2. CASE Next
  <2>1. CASE Caller
    BY <2>1, SpawnInv, JoinInv, DrainInv, CleanupInv, ConcatenateInv DEF Caller
  <2>2. CASE SourceFails
    BY <2>2, SourceFailsInv
  <2>3. CASE \E p \in Parts : \/ Task(p) \/ Serve(p) \/ Timeout(p) \/ ServeLate(p)
                              \/ Expire(p) \/ Rollback(p)
    BY <2>3, OnPostInv, ReportInv, OnHeadOkInv, OnHeadFailInv, OnPatchOkInv, OnPatchFailInv,
       OnLastHeadInv, ServeInv, TimeoutInv, ServeLateInv, ExpireInv, RollbackInv
    DEF Task
  <2> QED
    BY <1>2, <2>1, <2>2, <2>3 DEF Next
<1> QED
  BY <1>1, <1>2

LEMMA InvAlways == Spec => []Inv
BY InitInv, NextInv, PTL DEF Spec

-----------------------------------------------------------------------------
\* A stored prefix as a sequence.
LEMMA PrefixOf ==
  ASSUME Inv, NEW p \in Parts
  PROVE  stored[p] = SubSeq(PartBytes(p), 1, Len(stored[p]))
<1>1. /\ stored[p] \in Seq(Nat) /\ Stored(p) /\ Len(stored[p]) \in Nat
      /\ PartLen(p) \in Nat /\ Start(p) \in Nat
  BY PartFacts DEF Inv, Types, ServerTypes, PartInv
<1>2. PartBytes(p) \in Seq(Nat) /\ Len(PartBytes(p)) = PartLen(p)
      /\ \A i \in 1 .. PartLen(p) : PartBytes(p)[i] = Start(p) + i
  BY <1>1 DEF PartBytes
<1> DEFINE t == SubSeq(PartBytes(p), 1, Len(stored[p]))
<1>3. /\ t \in Seq(Nat) /\ Len(t) = Len(stored[p])
      /\ \A i \in 1 .. Len(stored[p]) : t[i] = PartBytes(p)[i]
  <2>1. \A i \in 1 .. Len(stored[p]) : PartBytes(p)[i] \in Nat
    BY <1>1, <1>2 DEF Stored
  <2>2. /\ t \in Seq(Nat)
        /\ Len(t) = IF 1 <= Len(stored[p]) THEN Len(stored[p]) - 1 + 1 ELSE 0
        /\ \A i \in 1 .. Len(stored[p]) - 1 + 1 : t[i] = PartBytes(p)[1 + i - 1]
    BY <1>1, <2>1, SubSeqProperties
  <2> HIDE DEF t
  <2> QED
    BY <1>1, <2>2
<1> HIDE DEF t
<1>4. \A i \in 1 .. Len(stored[p]) : t[i] = stored[p][i]
  BY <1>1, <1>2, <1>3 DEF Stored
<1>5. t = stored[p]
  BY <1>1, <1>3, <1>4, SeqEqual
<1> QED
  BY <1>5 DEF t

LEMMA WholeIs ==
  ASSUME Inv, NEW p \in Parts, Len(stored[p]) = PartLen(p)
  PROVE  stored[p] = PartBytes(p)
<1>1. PartLen(p) \in Nat /\ Start(p) \in Nat
  BY PartFacts
<1>2. PartBytes(p) \in Seq(Nat) /\ Len(PartBytes(p)) = PartLen(p)
  BY <1>1 DEF PartBytes
<1>3. SubSeq(PartBytes(p), 1, PartLen(p)) = PartBytes(p)
  BY <1>1, <1>2, SubSeqFull
<1> QED
  BY <1>3, PrefixOf

\* However requests are lost, delayed and repeated, the server holds a prefix
\* of each part.
THEOREM PrefixAlways == Spec => []StoredPrefix
<1>1. Inv => StoredPrefix
  BY PrefixOf DEF StoredPrefix
<1> QED
  BY <1>1, InvAlways, PTL

\* What the client takes for uploaded is whole, unless it expired.
THEOREM WholeAlways == Spec => []FinishedIsWhole
<1>1. Inv => FinishedIsWhole
  BY WholeIs DEF FinishedIsWhole, Inv, PartInv, Believed, Whole
<1> QED
  BY <1>1, InvAlways, PTL

\* A success is the source: every part in the order of its index.
THEOREM SuccessAlways == Spec => []SuccessIsSource
<1>1. Inv => SuccessIsSource
  BY DEF SuccessIsSource, Inv, CallerInv
<1> QED
  BY <1>1, InvAlways, PTL

\* The retry budget holds for every part, whatever the server's offset does.
THEOREM BudgetAlways == Spec => []RetryBudget
<1>1. Inv => RetryBudget
  BY Constants DEF RetryBudget, Inv, Types, TaskTypes, PartInv, Budget
<1> QED
  BY <1>1, InvAlways, PTL

\* A failed upload has tried to delete every part it knows the URL of.
THEOREM CleanedAlways == Spec => []FinishedPartsCleaned
<1>1. Inv => FinishedPartsCleaned
  <2> SUFFICES ASSUME Inv, main = "error", NEW u \in Parts, urls[u] = NoUrl,
                      NEW p \in Parts, pc[p] \in {"finished", "joined"}, known[p]
               PROVE  p \in tried
    BY DEF FinishedPartsCleaned
  <2>1. u # NoUrl
    BY DEF Parts, NoUrl
  <2> QED
    BY <2>1 DEF Inv, CallerInv
<1> QED
  BY <1>1, InvAlways, PTL

\* The progress that is reported never falls.
THEOREM ProgressAlways == Spec => ProgressNeverFalls
<1>1. Inv /\ [Next]_vars => [reported' >= reported]_vars
  <2> SUFFICES ASSUME Inv, [Next]_vars PROVE reported' >= reported
    OBVIOUS
  <2>1. reported \in Nat /\ \A p \in Parts : pend[p] \in Nat
    BY DEF Inv, Types, ProgressTypes
  <2>2. CASE \E p \in Parts : Report(p)
    BY <2>1, <2>2 DEF Report
  <2>3. CASE UNCHANGED reported
    BY <2>1, <2>3
  <2>4. (\E p \in Parts : Report(p)) \/ UNCHANGED reported
    <3>1. CASE UNCHANGED vars
      BY <3>1 DEF vars, prog
    <3>2. CASE Caller \/ SourceFails
      BY <3>2 DEF Caller, Spawn, Join, AbortAll, Drain, Cleanup, Concatenate, SourceFails, prog
    <3>3. ASSUME NEW p \in Parts, Task(p), ~Report(p) PROVE UNCHANGED reported
      <4>1. CASE OnPost(p)
        BY <4>1 DEF OnPost, Advance, prog
      <4>2. CASE OnHeadOk(p)
        BY <4>2 DEF OnHeadOk, Advance, prog
      <4>3. CASE OnPatchOk(p)
        BY <4>3 DEF OnPatchOk, Advance, prog
      <4>4. CASE OnHeadFail(p) \/ OnPatchFail(p) \/ OnLastHead(p)
        BY <4>4 DEF OnHeadFail, OnPatchFail, OnLastHead, prog
      <4> QED
        BY <3>3, <4>1, <4>2, <4>3, <4>4 DEF Task
    <3>4. ASSUME NEW p \in Parts,
                 Serve(p) \/ Timeout(p) \/ ServeLate(p) \/ Expire(p) \/ Rollback(p)
          PROVE  UNCHANGED reported
      BY <3>4 DEF Serve, Timeout, ServeLate, Expire, Rollback, prog
    <3> QED
      BY <3>1, <3>2, <3>3, <3>4 DEF Next
  <2> QED
    BY <2>2, <2>3, <2>4
<1> QED
  BY <1>1, InvAlways, PTL DEF Spec, ProgressNeverFalls

-----------------------------------------------------------------------------
(* The types, with the bounds of the progress.  The common counter is the  *)
(* sum of the parts' shares: it is stated by the partial sums g.           *)

Adds(g, f) ==
  /\ g \in [0 .. PartCount -> Nat] /\ g[0] = 0
  /\ \A p \in Parts : g[p] = g[p - 1] + f[p]

Bounded ==
  /\ \A p \in Parts : /\ seen[p] <= PartLen(p) /\ pend[p] <= total
                      /\ last[p] \in None .. PartSize
  /\ reported <= total
  /\ \E g : Adds(g, seen) /\ g[PartCount] = total
  /\ final \in {<< >>, [p \in Parts |-> p]}

\* The shares of the first i parts: induction by the least counterexample.
LEMMA SharesBounded ==
  ASSUME NEW g, NEW f \in [Parts -> Nat], Adds(g, f), \A p \in Parts : f[p] <= PartLen(p)
  PROVE  g[PartCount] \in 0 .. SourceLength
<1>0. /\ PartCount \in Nat /\ (PartCount - 1) * PartSize < SourceLength
      /\ PartSize \in Nat /\ SourceLength \in Nat /\ g \in [0 .. PartCount -> Nat] /\ g[0] = 0
  BY Ceiling, Constants DEF Adds
<1> DEFINE T == {i \in 0 .. PartCount : ~(g[i] <= i * PartSize)}
           R == {ss \in Nat \X Nat : ss[1] < ss[2]}
<1>1. T = {}
  <2> SUFFICES ASSUME T # {} PROVE FALSE
    OBVIOUS
  <2>1. IsWellFoundedOn(R, Nat)
    BY NatLessThanWellFounded DEF OpToRel
  <2>2. T \in SUBSET Nat
    BY <1>0
  <2> HIDE DEF R
  <2>3. PICK x \in T : \A y \in T : ~(<<y, x>> \in R)
    BY <2>1, <2>2, WFMin
  <2>4. x \in Nat /\ x <= PartCount /\ ~(g[x] <= x * PartSize) /\ x # 0
    BY <1>0, <2>3
  <2>5. x \in Parts /\ x - 1 \in 0 .. PartCount /\ x - 1 \in Nat
    BY <1>0, <2>4 DEF Parts
  <2>6. <<x - 1, x>> \in R
    BY <2>4, <2>5 DEF R
  <2>7. g[x - 1] <= (x - 1) * PartSize
    BY <2>3, <2>5, <2>6
  <2>8. g[x] = g[x - 1] + f[x] /\ f[x] <= PartSize /\ f[x] \in Nat /\ g[x - 1] \in Nat
    BY <1>0, <2>5, PartFacts DEF Adds
  <2>9. (x - 1) * PartSize + PartSize = x * PartSize /\ (x - 1) * PartSize \in Nat
    BY <1>0, <2>4, <2>5
  <2> QED
    BY <1>0, <2>4, <2>7, <2>8, <2>9
<1>2. CASE PartCount = 0
  BY <1>0, <1>2
<1>3. CASE PartCount # 0
  <2>1. PartCount \in Parts /\ PartCount - 1 \in 0 .. PartCount
    BY <1>0, <1>3 DEF Parts
  <2>2. g[PartCount - 1] <= (PartCount - 1) * PartSize
    BY <1>1, <2>1
  <2>3. g[PartCount] = g[PartCount - 1] + f[PartCount]
    BY <2>1 DEF Adds
  <2>4. f[PartCount] <= SourceLength - (PartCount - 1) * PartSize /\ f[PartCount] \in Nat
    <3>1. (PartCount - 1) * PartSize \in Nat
      BY <1>0, <2>1
    <3>2. PartLen(PartCount) <= SourceLength - (PartCount - 1) * PartSize
      BY <1>0, <3>1 DEF PartLen, Start, Smaller
    <3>3. f[PartCount] <= PartLen(PartCount) /\ PartLen(PartCount) \in Nat /\ f[PartCount] \in Nat
      BY <2>1, PartFacts
    <3> QED
      BY <1>0, <3>1, <3>2, <3>3
  <2>5. g[PartCount] \in Nat /\ g[PartCount - 1] \in Nat /\ (PartCount - 1) * PartSize \in Int
    BY <1>0, <2>1
  <2> QED
    BY <1>0, <2>2, <2>3, <2>4, <2>5
<1> QED
  BY <1>2, <1>3

\* One part's share grows.
LEMMA SharesGrow ==
  ASSUME NEW g, NEW f \in [Parts -> Nat], Adds(g, f), NEW p \in Parts, NEW d \in Nat
  PROVE  \E h : Adds(h, [f EXCEPT ![p] = @ + d]) /\ h[PartCount] = g[PartCount] + d
<1> DEFINE h == [i \in 0 .. PartCount |-> IF i >= p THEN g[i] + d ELSE g[i]]
           e == [f EXCEPT ![p] = @ + d]
<1>0. PartCount \in Nat /\ g \in [0 .. PartCount -> Nat] /\ g[0] = 0 /\ p \in 1 .. PartCount
  BY Ceiling DEF Adds, Parts
<1>1. h \in [0 .. PartCount -> Nat] /\ h[0] = 0 /\ h[PartCount] = g[PartCount] + d
  BY <1>0
<1>2. ASSUME NEW q \in Parts PROVE h[q] = h[q - 1] + e[q]
  <2>1. q \in 1 .. PartCount /\ q - 1 \in 0 .. PartCount /\ q \in 0 .. PartCount
    BY <1>0 DEF Parts
  <2>2. g[q] = g[q - 1] + f[q] /\ f[q] \in Nat /\ g[q - 1] \in Nat
    BY <1>0, <2>1 DEF Adds
  <2>3. e[q] = IF q = p THEN f[q] + d ELSE f[q]
    OBVIOUS
  <2>4. h[q] = (IF q >= p THEN g[q] + d ELSE g[q])
        /\ h[q - 1] = (IF q - 1 >= p THEN g[q - 1] + d ELSE g[q - 1])
    BY <2>1
  <2> HIDE DEF h, e
  <2> QED
    BY <1>0, <2>1, <2>2, <2>3, <2>4
<1>3. Adds(h, e)
  BY <1>1, <1>2 DEF Adds
<1> QED
  BY <1>1, <1>3

LEMMA InitBounded == Init => Bounded
<1> SUFFICES ASSUME Init PROVE Bounded
  OBVIOUS
<1>1. Adds([i \in 0 .. PartCount |-> 0], seen)
  BY Ceiling DEF Init, Adds, Parts
<1>2. PartCount \in 0 .. PartCount
  BY Ceiling
<1>3. \E g : Adds(g, seen) /\ g[PartCount] = total
  BY <1>1, <1>2 DEF Init
<1> QED
  BY <1>3, PartFacts, Constants DEF Init, Bounded, None

\* on_progress keeps the counter the sum of the shares.
LEMMA AdvanceBounded ==
  ASSUME Inv, Bounded, NEW p \in Parts, NEW o \in Nat, o <= PartLen(p), Advance(p, o),
         \A q \in Parts : last'[q] \in None .. PartSize, UNCHANGED final
  PROVE  Bounded'
<1> DEFINE delta == IF o > seen[p] THEN o - seen[p] ELSE 0
<1>1. /\ seen \in [Parts -> Nat] /\ pend \in [Parts -> Nat] /\ total \in Nat /\ reported \in Nat
  BY DEF Inv, Types, ProgressTypes
<1>2. seen[p] <= PartLen(p) /\ PartLen(p) \in Nat
  BY PartFacts DEF Bounded
<1>3. delta \in Nat /\ seen[p] + delta <= PartLen(p)
  BY <1>1, <1>2
<1>4. /\ seen' = [seen EXCEPT ![p] = @ + delta] /\ total' = total + delta
      /\ pend' = [pend EXCEPT ![p] = IF delta = 0 THEN 0 ELSE total + delta]
      /\ reported' = reported
  BY DEF Advance
<1> HIDE DEF delta
<1>5. PICK g : Adds(g, seen) /\ g[PartCount] = total
  BY DEF Bounded
<1>6. \E h : Adds(h, seen') /\ h[PartCount] = total'
  <2>1. PICK h : Adds(h, [seen EXCEPT ![p] = @ + delta]) /\ h[PartCount] = g[PartCount] + delta
    BY <1>1, <1>3, <1>5, SharesGrow
  <2>2. Adds(h, seen') /\ h[PartCount] = total'
    BY <1>4, <1>5, <2>1
  <2> QED
    BY <2>2
<1>7. ASSUME NEW q \in Parts PROVE seen'[q] <= PartLen(q) /\ pend'[q] <= total'
  BY <1>1, <1>3, <1>4 DEF Bounded
<1>8. reported' <= total'
  BY <1>1, <1>3, <1>4 DEF Bounded
<1> QED
  BY <1>6, <1>7, <1>8 DEF Bounded

LEMMA OnPostBounded == ASSUME Inv, Bounded, NEW p \in Parts, OnPost(p) PROVE Bounded'
<1>0. UNCHANGED final /\ ans[p].offset \in 0 .. PartSize
      /\ last \in [Parts -> Int]
  BY TaskFacts DEF OnPost, server, TaskTypes, Answers
<1>1. CASE ans[p].kind = "ok"
  <2>1. \A q \in Parts : last'[q] \in None .. PartSize
    BY <1>0, <1>1, Constants DEF OnPost, Bounded, None
  <2>2. ans[p].offset \in Nat /\ ans[p].offset <= PartLen(p)
    BY <1>1, TaskFacts DEF Wire
  <2>3. CASE Advance(p, ans[p].offset)
    BY <1>0, <2>1, <2>2, <2>3, AdvanceBounded
  <2>4. CASE UNCHANGED prog
    BY <1>0, <2>1, <2>4 DEF Bounded, prog
  <2> QED
    BY <1>1, <2>3, <2>4 DEF OnPost
<1>2. CASE UNCHANGED last /\ UNCHANGED prog
  BY <1>0, <1>2 DEF Bounded, prog
<1> QED
  BY <1>1, <1>2 DEF OnPost

LEMMA ReportBounded == ASSUME Inv, Bounded, NEW p \in Parts, Report(p) PROVE Bounded'
<1>1. /\ UNCHANGED <<final, seen, total, last>> /\ pend' = [pend EXCEPT ![p] = 0]
      /\ reported' = IF pend[p] > reported THEN pend[p] ELSE reported
  BY DEF Report, server
<1>2. pend \in [Parts -> Nat] /\ total \in Nat /\ reported \in Nat
  BY DEF Inv, Types, ProgressTypes
<1>3. reported' <= total' /\ \A q \in Parts : pend'[q] <= total'
  BY <1>1, <1>2 DEF Bounded
<1> QED
  BY <1>1, <1>3 DEF Bounded

LEMMA OnHeadOkBounded == ASSUME Inv, Bounded, NEW p \in Parts, OnHeadOk(p) PROVE Bounded'
<1>1. UNCHANGED <<final, seen, total, pend, reported>>
  BY DEF OnHeadOk, server, prog
<1>2. ans[p].offset \in 0 .. PartSize /\ last \in [Parts -> Int]
  BY TaskFacts DEF TaskTypes, Answers
<1>3. \A q \in Parts : last'[q] \in None .. PartSize
  <2>1. UNCHANGED last
        \/ last' = [last EXCEPT ![p] = IF ans[p].offset > @ THEN ans[p].offset ELSE @]
    BY DEF OnHeadOk
  <2> QED
    BY <1>2, <2>1, Constants DEF Bounded, None
<1> QED
  BY <1>1, <1>3 DEF Bounded

LEMMA OnPatchOkBounded == ASSUME Inv, Bounded, NEW p \in Parts, OnPatchOk(p) PROVE Bounded'
<1>1. UNCHANGED final /\ UNCHANGED last /\ ans[p].kind = "ok"
  BY DEF OnPatchOk, server
<1>2. ans[p].offset \in Nat /\ ans[p].offset <= PartLen(p)
  BY <1>1, TaskFacts DEF Wire
<1>3. \A q \in Parts : last'[q] \in None .. PartSize
  BY <1>1 DEF Bounded
<1>4. CASE UNCHANGED prog
  BY <1>1, <1>4 DEF Bounded, prog
<1>5. CASE Advance(p, ans[p].offset)
  BY <1>1, <1>2, <1>3, <1>5, AdvanceBounded
<1> QED
  BY <1>4, <1>5 DEF OnPatchOk

LEMMA AbortBounded ==
  ASSUME Inv, Bounded, NEW S, AbortAll(S), UNCHANGED server
  PROVE  Bounded'
<1>1. /\ UNCHANGED <<final, seen, total, reported>>
      /\ \A q \in Parts : last'[q] \in {None, last[q]} /\ pend'[q] \in {0, pend[q]}
  BY DEF AbortAll, server
<1>2. total \in Nat
  BY DEF Inv, Types, ProgressTypes
<1>3. \A q \in Parts : last'[q] \in None .. PartSize /\ pend'[q] <= total
  BY <1>1, <1>2, Constants DEF Bounded, None
<1> QED
  BY <1>1, <1>3 DEF Bounded

LEMMA NextBounded == Inv /\ Bounded /\ [Next]_vars => Bounded'
<1> SUFFICES ASSUME Inv, Bounded, [Next]_vars PROVE Bounded'
  OBVIOUS
<1> DEFINE Same == UNCHANGED <<final, seen, total, pend, reported, last>>
<1>0. ASSUME Same PROVE Bounded'
  BY <1>0 DEF Bounded
<1>1. CASE UNCHANGED vars
  <2>1. Same
    BY <1>1 DEF vars, server, prog, task
  <2> QED
    BY <1>0, <2>1
<1>2. CASE Concatenate
  <2>1. UNCHANGED <<seen, total, pend, reported, last>>
    BY <1>2 DEF Concatenate, prog, task
  <2>2. final' \in {final, [p \in Parts |-> p]}
    <3>1. CASE UNCHANGED final
      BY <3>1
    <3>2. CASE final' = urls
      BY <1>2, <3>2, AllJoined DEF Concatenate
    <3> QED
      BY <1>2, <3>1, <3>2 DEF Concatenate
  <2> QED
    BY <2>1, <2>2 DEF Bounded
<1>3. CASE Spawn \/ Drain \/ Cleanup
  <2>1. Same
    BY <1>3 DEF Spawn, Drain, Cleanup, server, prog, task
  <2> QED
    BY <1>0, <2>1
<1>4. ASSUME NEW p \in Parts, Join(p) PROVE Bounded'
  <2>1. UNCHANGED server
    BY <1>4 DEF Join
  <2>2. CASE AbortAll({p})
    BY <2>1, <2>2, AbortBounded
  <2>3. CASE UNCHANGED <<main, wire, task, prog>>
    <3>1. Same
      BY <2>1, <2>3 DEF server, prog, task
    <3> QED
      BY <1>0, <3>1
  <2> QED
    BY <1>4, <2>2, <2>3 DEF Join
<1>5. CASE SourceFails
  BY <1>5, AbortBounded DEF SourceFails
<1>6. ASSUME NEW p \in Parts, Task(p) PROVE Bounded'
  <2>1. CASE OnHeadFail(p) \/ OnPatchFail(p) \/ OnLastHead(p)
    <3>1. Same
      BY <2>1 DEF OnHeadFail, OnPatchFail, OnLastHead, server, prog
    <3> QED
      BY <1>0, <3>1
  <2> QED
    BY <1>6, <2>1, OnPostBounded, ReportBounded, OnHeadOkBounded, OnPatchOkBounded DEF Task
<1>7. ASSUME NEW p \in Parts,
             Serve(p) \/ Timeout(p) \/ ServeLate(p) \/ Expire(p) \/ Rollback(p)
      PROVE  Bounded'
  <2>1. Same
    BY <1>7 DEF Serve, Timeout, ServeLate, Expire, Rollback, server, prog, task
  <2> QED
    BY <1>0, <2>1
<1> QED
  BY <1>1, <1>2, <1>3, <1>4, <1>5, <1>6, <1>7 DEF Next, Caller

LEMMA FunctionIsSeq ==
  ASSUME NEW S, NEW n \in Nat, NEW s \in [1 .. n -> S]
  PROVE  s \in Seq(S)
OBVIOUS

LEMMA WellTyped == Inv /\ Bounded => TypeOK
<1> SUFFICES ASSUME Inv, Bounded PROVE TypeOK
  OBVIOUS
<1>0. Types /\ ServerTypes /\ WireTypes /\ TaskTypes /\ ProgressTypes /\ CallerTypes
  BY DEF Inv, Types
<1>1. total \in 0 .. SourceLength
  <2>1. PICK g : Adds(g, seen) /\ g[PartCount] = total
    BY DEF Bounded
  <2> QED
    BY <1>0, <2>1, SharesBounded DEF Bounded, ProgressTypes
<1>2. reported \in 0 .. SourceLength /\ pend \in [Parts -> 0 .. SourceLength]
  <2>1. \A p \in Parts : pend[p] \in 0 .. SourceLength
    BY <1>0, <1>1, Constants DEF Bounded, ProgressTypes
  <2> QED
    BY <1>0, <1>1, <2>1, Constants DEF Bounded, ProgressTypes
<1>3. seen \in [Parts -> 0 .. PartSize] /\ sent \in [Parts -> 0 .. PartSize]
      /\ attempt \in [Parts -> 0 .. MaxRetries] /\ last \in [Parts -> None .. PartSize]
  <2>1. \A p \in Parts : /\ seen[p] \in 0 .. PartSize /\ sent[p] \in 0 .. PartSize
                         /\ attempt[p] \in 0 .. MaxRetries /\ last[p] \in None .. PartSize
    <3> TAKE p \in Parts
    <3>1. /\ seen[p] \in Nat /\ seen[p] <= PartLen(p) /\ sent[p] \in Nat /\ sent[p] <= PartLen(p)
          /\ attempt[p] \in Nat /\ attempt[p] <= MaxRetries /\ last[p] \in None .. PartSize
      BY <1>0 DEF Bounded, ProgressTypes, TaskTypes, Inv, PartInv, Believed, Budget
    <3>2. PartLen(p) \in Nat /\ PartLen(p) <= PartSize
      BY PartFacts
    <3> QED
      BY <3>1, <3>2, Constants
  <2> QED
    BY <1>0, <2>1 DEF ProgressTypes, TaskTypes
<1>4. stored \in [Parts -> Seq(1 .. SourceLength)]
  <2>1. ASSUME NEW p \in Parts PROVE stored[p] \in Seq(1 .. SourceLength)
    <3>1. /\ stored[p] \in Seq(Nat) /\ Len(stored[p]) <= PartLen(p) /\ Len(stored[p]) \in Nat
          /\ \A i \in 1 .. Len(stored[p]) : stored[p][i] = Start(p) + i
      BY <1>0 DEF ServerTypes, Inv, PartInv, Stored
    <3>2. PartLen(p) \in Nat /\ Start(p) \in Nat /\ PartLen(p) <= SourceLength - Start(p)
      BY PartFacts, Constants DEF PartLen, Smaller
    <3>3. \A i \in 1 .. Len(stored[p]) : stored[p][i] \in 1 .. SourceLength
      BY <3>1, <3>2, Constants
    <3>4. stored[p] = [i \in 1 .. Len(stored[p]) |-> stored[p][i]]
      BY <3>1
    <3>5. stored[p] \in [1 .. Len(stored[p]) -> 1 .. SourceLength]
      BY <3>3, <3>4, Zenon
    <3> QED
      BY <3>1, <3>5, FunctionIsSeq
  <2> QED
    BY <1>0, <2>1 DEF ServerTypes
<1>5. final \in Seq(Parts)
  <2>1. [p \in Parts |-> p] \in Seq(Parts) /\ << >> \in Seq(Parts)
    BY Ceiling DEF Parts
  <2> QED
    BY <2>1 DEF Bounded
<1> QED
  BY <1>0, <1>1, <1>2, <1>3, <1>4, <1>5
  DEF TypeOK, ServerTypes, WireTypes, TaskTypes, ProgressTypes, CallerTypes

\* The types of the session: in particular the progress never exceeds the
\* source, although tasks restart and repeat their offsets, because the counter
\* is at all times the sum of what each part has reported (PartProgress::last).
THEOREM TypeCorrect == Spec => []TypeOK
BY InitInv, InitBounded, NextInv, NextBounded, WellTyped, PTL DEF Spec
=============================================================================
