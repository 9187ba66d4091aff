----------------------- MODULE ServerLifecycleProofs -----------------------
(***************************************************************************)
(* The safety properties of ServerLifecycle, for any number of connections *)
(* and any timeouts.  The inductive invariant follows the clocks: a        *)
(* delivery's deadline runs with its attempt's timer, so that an attempt   *)
(* begins no later than the deadline (Delivery); while the server drains,  *)
(* the grace period left exceeds what is left of a request (InTime, with   *)
(* Togo for the steps ahead); and the time since the signal is what        *)
(* drain_delay, backoffs and grace period have used up (LoopTime).         *)
(* Verdict says what a request has done and announced by each of its       *)
(* steps, and that it goes past no gate that refused it.                   *)
(***************************************************************************)
EXTENDS ServerLifecycle, TLAPS

Delivery(c) ==
  /\ conn[c] \in {"closed", "read"} => task[c] = NoTask
  /\ conn[c] \in InHandler \cup {"reply"} =>
       task[c].kind \in DOMAIN Plans /\ task[c].at \in 1 .. Len(Plans[task[c].kind])
  /\ conn[c] \in {"send", "sleep"} => StepOf(c) \in Gates \cup Posts
  /\ conn[c] = "body" => StepOf(c) = "body"
  /\ conn[c] = "work" => StepOf(c) \in {"lock", "load", "store"}
  /\ conn[c] = "undo" => task[c].kind \in Creations
  /\ conn[c] = "sleep" => task[c].attempt < MaxRetries /\ task[c].left >= timer[c]
  /\ conn[c] = "send" => timer[c] <= Timeout /\ task[c].left >= timer[c] - Timeout
  /\ conn[c] = "read" => timer[c] <= HeaderTimeout
  /\ conn[c] = "work" => timer[c] <= Span(StepOf(c))
  /\ conn[c] = "undo" => timer[c] <= StoreTime
  /\ task[c].left >= -Timeout /\ task[c].left <= Deadline

\* What a request has announced by step i, and whether it has made its change.
Sent(k, i) == {Plans[k][j] : j \in 1 .. i} \cap Posts
Made(k, i) == \E j \in 1 .. (i - 1) : Plans[k][j] = "store"

\* What becomes of a request that a gate refused.
Stands(c) ==
  vetoed[c] # "none" =>
    IF task[c].kind = "lastPatch" /\ vetoed[c] = "PreFinish"
    THEN c \in changed /\ sent[c] = {"PostReceive"}
    ELSE (c \notin changed \/ c \in stuck) /\ sent[c] = {}

Verdict(c) ==
  /\ conn[c] \in {"closed", "read"} =>
       vetoed[c] = "none" /\ sent[c] = {} /\ c \notin changed /\ c \notin stuck
  /\ conn[c] \in {"send", "sleep", "body", "work"} =>
       /\ vetoed[c] = "none" /\ c \notin stuck
       /\ c \in changed <=> Made(task[c].kind, task[c].at)
       /\ sent[c] = Sent(task[c].kind, task[c].at)
  /\ conn[c] = "undo" /\ vetoed[c] # "none" => sent[c] = {}
  /\ conn[c] = "reply" => Stands(c)

\* A bound on what a request without a body still takes after each of its steps.
Togo ==
  LET D == OneDelivery
      S == StoreTime
  IN  [create  |-> <<D + 2 * S, D + S, S>>,
       empty   |-> <<3 * D + 2 * S, 3 * D + S, 2 * D + S, D + S, S>>,
       planned |-> <<2 * D + 2 * S, D + 2 * S, D + S, S>>,
       final   |-> <<4 * D + 2 * S, 3 * D + 2 * S, 2 * D + 2 * S, 2 * D + S, D + S, S>>,
       delete  |-> <<2 * D + 2 * S, D + 2 * S, D + S, S>>,
       recover |-> <<2 * D + 2 * S, D + 2 * S, D + S, S>>,
       read    |-> <<S>>]

Cost(step) == IF step \in Gates \cup Posts THEN OneDelivery ELSE Span(step)

\* The grace period suffices and runs.
Ample == loop = "drain" /\ grace > HeaderTimeout + LongestRequest
Ahead(c) == Togo[task[c].kind][task[c].at]

InTime(c) ==
  Ample =>
    /\ conn[c] = "read" => alarm > timer[c] + LongestRequest
    /\ task[c].kind \notin WithBody =>
         /\ conn[c] \in {"send", "sleep"} => alarm > task[c].left + Timeout + Ahead(c)
         /\ conn[c] = "work" => alarm > timer[c] + Ahead(c)
         /\ conn[c] = "undo" => alarm > timer[c]

\* What is left of drain_delay.
LameLeft == IF lame = NotDraining THEN DrainDelay ELSE lame

LoopTime ==
  /\ ~signal => since = 0 /\ lame = NotDraining
  /\ loop = "select" => alarm = 0
  /\ loop \in {"select", "backoff"} =>
       since <= (DrainDelay - LameLeft) + errors * Backoff - alarm
  /\ loop = "drain" => alarm <= grace /\ since <= DrainDelay + (grace - alarm) + errors * Backoff
  /\ ShutdownBounded

Inv ==
  /\ TypeOK
  /\ \A c \in Conns : Delivery(c) /\ Verdict(c) /\ InTime(c)
  /\ LoopTime /\ GraceSuffices

-----------------------------------------------------------------------------
LEMMA Constants ==
  /\ DrainDelay \in Nat /\ MaxErrors \in Nat /\ Deadline \in Nat /\ MaxRetries \in Nat
  /\ MaxDelay \in Nat /\ HeaderTimeout \in Nat /\ Backoff \in Nat /\ Timeout \in Nat
  /\ LockTimeout \in Nat /\ StoreTime \in Nat
  /\ HeaderTimeout > 0 /\ Backoff > 0 /\ Timeout > 0
BY ConstantsAssumption

LEMMA ConfigTypes == ASSUME TypeOK PROVE grace \in Nat /\ failOpen \in BOOLEAN /\ retryPost \in BOOLEAN
BY ConstantsAssumption DEF TypeOK

LEMMA Durations ==
  /\ OneDelivery \in Nat /\ OneDelivery = Deadline + Timeout /\ LongestRequest \in Nat
  /\ LongestRequest = LockTimeout + 3 * StoreTime + 4 * OneDelivery
  /\ \A step : Span(step) \in Nat
BY Constants DEF OneDelivery, LongestRequest, Span

-----------------------------------------------------------------------------
(* The plans.                                                               *)

LEMMA PlanKinds ==
  DOMAIN Plans = {"patch", "lastPatch", "create", "empty", "with", "whole", "planned", "final",
                  "delete", "recover", "read"}
BY DEF Plans

LEMMA PlanLengths == \A k \in DOMAIN Plans : Len(Plans[k]) \in Nat /\ Len(Plans[k]) >= 1
<1> SUFFICES ASSUME NEW k \in DOMAIN Plans PROVE Len(Plans[k]) \in Nat /\ Len(Plans[k]) >= 1
  OBVIOUS
<1>1. CASE k = "patch"
  BY <1>1 DEF Plans
<1>2. CASE k = "lastPatch"
  BY <1>2 DEF Plans
<1>3. CASE k = "create"
  BY <1>3 DEF Plans
<1>4. CASE k = "empty"
  BY <1>4 DEF Plans
<1>5. CASE k = "with"
  BY <1>5 DEF Plans
<1>6. CASE k = "whole"
  BY <1>6 DEF Plans
<1>7. CASE k = "planned"
  BY <1>7 DEF Plans
<1>8. CASE k = "final"
  BY <1>8 DEF Plans
<1>9. CASE k = "delete"
  BY <1>9 DEF Plans
<1>10. CASE k = "recover"
  BY <1>10 DEF Plans
<1>11. CASE k = "read"
  BY <1>11 DEF Plans
<1> QED
  BY PlanKinds, <1>1, <1>2, <1>3, <1>4, <1>5, <1>6, <1>7, <1>8, <1>9, <1>10, <1>11

LEMMA PlanSteps ==
  ASSUME NEW k \in DOMAIN Plans, NEW i \in 1 .. Len(Plans[k])
  PROVE  /\ Plans[k][i] \in Gates \cup Posts \cup {"lock", "load", "store", "body"}
         /\ Plans[k][i] = "body" => k \in WithBody
<1>1. CASE k = "patch"
  BY <1>1 DEF Plans, Gates, Posts, WithBody
<1>2. CASE k = "lastPatch"
  BY <1>2 DEF Plans, Gates, Posts, WithBody
<1>3. CASE k = "create"
  BY <1>3 DEF Plans, Gates, Posts, WithBody
<1>4. CASE k = "empty"
  BY <1>4 DEF Plans, Gates, Posts, WithBody
<1>5. CASE k = "with"
  BY <1>5 DEF Plans, Gates, Posts, WithBody
<1>6. CASE k = "whole"
  BY <1>6 DEF Plans, Gates, Posts, WithBody
<1>7. CASE k = "planned"
  BY <1>7 DEF Plans, Gates, Posts, WithBody
<1>8. CASE k = "final"
  BY <1>8 DEF Plans, Gates, Posts, WithBody
<1>9. CASE k = "delete"
  BY <1>9 DEF Plans, Gates, Posts, WithBody
<1>10. CASE k = "recover"
  BY <1>10 DEF Plans, Gates, Posts, WithBody
<1>11. CASE k = "read"
  BY <1>11 DEF Plans, Gates, Posts, WithBody
<1> QED
  BY PlanKinds, <1>1, <1>2, <1>3, <1>4, <1>5, <1>6, <1>7, <1>8, <1>9, <1>10, <1>11

LEMMA TogoKinds == DOMAIN Togo = DOMAIN Plans \ WithBody
<1>1. DOMAIN Togo = {"create", "empty", "planned", "final", "delete", "recover", "read"}
  BY DEF Togo
<1> QED
  BY <1>1, PlanKinds DEF WithBody

\* The one gate after which a change is kept is PreFinish of a PATCH; no other
\* comes after a post-hook, and none after a change that is not a creation.
LEMMA GateFacts ==
  ASSUME NEW k \in DOMAIN Plans, NEW i \in 1 .. Len(Plans[k]), Plans[k][i] \in Gates
  PROVE  IF k = "lastPatch" /\ Plans[k][i] = "PreFinish"
         THEN Made(k, i) /\ Sent(k, i) = {"PostReceive"} /\ k \notin Creations
         ELSE Sent(k, i) = {} /\ (Made(k, i) => k \in Creations)
<1>1. CASE k = "patch"
  BY <1>1 DEF Plans, Gates, Posts, Sent, Made, Creations
<1>2. CASE k = "lastPatch"
  <2>1. Plans[k] = <<"lock", "PreReceive", "body", "store", "PostReceive", "PreFinish", "PostFinish">>
    BY <1>2 DEF Plans
  <2>2. i \in {2, 6}
    BY <2>1 DEF Gates
  <2>3. CASE i = 2
    BY <1>2, <2>1, <2>3 DEF Posts, Sent, Made, Creations
  <2>4. CASE i = 6
    BY <1>2, <2>1, <2>4 DEF Posts, Sent, Made, Creations
  <2> QED
    BY <2>2, <2>3, <2>4
<1>3. CASE k = "create"
  BY <1>3 DEF Plans, Gates, Posts, Sent, Made, Creations
<1>4. CASE k = "empty"
  BY <1>4 DEF Plans, Gates, Posts, Sent, Made, Creations
<1>5. CASE k = "with"
  BY <1>5 DEF Plans, Gates, Posts, Sent, Made, Creations
<1>6. CASE k = "whole"
  BY <1>6 DEF Plans, Gates, Posts, Sent, Made, Creations
<1>7. CASE k = "planned"
  BY <1>7 DEF Plans, Gates, Posts, Sent, Made, Creations
<1>8. CASE k = "final"
  BY <1>8 DEF Plans, Gates, Posts, Sent, Made, Creations
<1>9. CASE k = "delete"
  BY <1>9 DEF Plans, Gates, Posts, Sent, Made, Creations
<1>10. CASE k = "recover"
  BY <1>10 DEF Plans, Gates, Posts, Sent, Made, Creations
<1>11. CASE k = "read"
  BY <1>11 DEF Plans, Gates, Posts, Sent, Made, Creations
<1> QED
  BY PlanKinds, <1>1, <1>2, <1>3, <1>4, <1>5, <1>6, <1>7, <1>8, <1>9, <1>10, <1>11

\* Entering the next step announces it if it is a post-hook, and leaves the change
\* made if the last one was the store.
LEMMA StepFacts ==
  ASSUME NEW k \in DOMAIN Plans, NEW i \in 1 .. Len(Plans[k])
  PROVE  /\ Sent(k, i) = IF Plans[k][i] \in Posts THEN Sent(k, i - 1) \cup {Plans[k][i]} ELSE Sent(k, i - 1)
         /\ Made(k, i + 1) <=> Made(k, i) \/ Plans[k][i] = "store"
<1>1. i \in Nat /\ i >= 1
  BY PlanLengths
<1>2. 1 .. i = (1 .. (i - 1)) \cup {i}
  BY <1>1
<1> QED
  BY <1>1, <1>2 DEF Sent, Made

LEMMA SentNone == ASSUME NEW k PROVE Sent(k, 0) = {} /\ ~Made(k, 1)
BY DEF Sent, Made

\* The time of a step comes off what was to go before it.
LEMMA TogoFacts ==
  ASSUME NEW k \in DOMAIN Togo, NEW i \in 1 .. Len(Plans[k])
  PROVE  /\ k \in DOMAIN Plans
         /\ Togo[k][i] \in Nat /\ Togo[k][i] >= StoreTime
         /\ i < Len(Plans[k]) => Togo[k][i] >= Cost(Plans[k][i + 1]) + Togo[k][i + 1]
         /\ LongestRequest >= Cost(Plans[k][1]) + Togo[k][1]
<1>1. CASE k = "create"
  BY <1>1, Constants, Durations DEF Plans, Togo, Cost, Span, Gates, Posts
<1>2. CASE k = "empty"
  BY <1>2, Constants, Durations DEF Plans, Togo, Cost, Span, Gates, Posts
<1>3. CASE k = "planned"
  BY <1>3, Constants, Durations DEF Plans, Togo, Cost, Span, Gates, Posts
<1>4. CASE k = "final"
  BY <1>4, Constants, Durations DEF Plans, Togo, Cost, Span, Gates, Posts
<1>5. CASE k = "delete"
  BY <1>5, Constants, Durations DEF Plans, Togo, Cost, Span, Gates, Posts
<1>6. CASE k = "recover"
  BY <1>6, Constants, Durations DEF Plans, Togo, Cost, Span, Gates, Posts
<1>7. CASE k = "read"
  BY <1>7, Constants, Durations DEF Plans, Togo, Cost, Span, Gates, Posts
<1> QED
  BY <1>1, <1>2, <1>3, <1>4, <1>5, <1>6, <1>7 DEF Togo

\* From any step on, a request has at most LongestRequest before it.
LEMMA TogoLongest ==
  ASSUME NEW k \in DOMAIN Plans, k \notin WithBody, NEW i \in 1 .. Len(Plans[k])
  PROVE  Togo[k][i] \in Nat /\ LongestRequest >= Cost(Plans[k][i]) + Togo[k][i]
<1>1. CASE k = "create"
  BY <1>1, Constants, Durations DEF Plans, Togo, Cost, Span, Gates, Posts
<1>2. CASE k = "empty"
  BY <1>2, Constants, Durations DEF Plans, Togo, Cost, Span, Gates, Posts
<1>3. CASE k = "planned"
  BY <1>3, Constants, Durations DEF Plans, Togo, Cost, Span, Gates, Posts
<1>4. CASE k = "final"
  BY <1>4, Constants, Durations DEF Plans, Togo, Cost, Span, Gates, Posts
<1>5. CASE k = "delete"
  BY <1>5, Constants, Durations DEF Plans, Togo, Cost, Span, Gates, Posts
<1>6. CASE k = "recover"
  BY <1>6, Constants, Durations DEF Plans, Togo, Cost, Span, Gates, Posts
<1>7. CASE k = "read"
  BY <1>7, Constants, Durations DEF Plans, Togo, Cost, Span, Gates, Posts
<1> QED
  BY PlanKinds, <1>1, <1>2, <1>3, <1>4, <1>5, <1>6, <1>7 DEF WithBody

LEMMA InitInv == Init => Inv
<1> SUFFICES ASSUME Init PROVE Inv
  OBVIOUS
<1>1. TypeOK
  <2>1. /\ loop = "select" /\ alarm = 0 /\ since = 0 /\ signal = FALSE /\ errors = 0
        /\ lame = -1 /\ changed = {} /\ stuck = {} /\ cut = {}
    BY DEF Init, NotDraining
  <2>2. errors \in 0 .. MaxErrors /\ lame \in NotDraining .. DrainDelay
    BY <2>1, Constants DEF NotDraining
  <2>3. task \in [Conns -> [kind : DOMAIN Plans \cup {"none"}, at : Nat,
                            attempt : 0 .. MaxRetries, left : Int]]
    BY Constants DEF Init, NoTask
  <2>4. [grace |-> grace, failOpen |-> failOpen, retryPost |-> retryPost] \in Configs
    <3>1. PICK k \in Configs : grace = k.grace /\ failOpen = k.failOpen /\ retryPost = k.retryPost
      BY DEF Init
    <3>2. k \in [grace : Nat, failOpen : BOOLEAN, retryPost : BOOLEAN]
      BY ConstantsAssumption
    <3>3. k = [grace |-> k.grace, failOpen |-> k.failOpen, retryPost |-> k.retryPost]
      BY <3>2
    <3> QED
      BY <3>1, <3>3
  <2>5. /\ conn \in [Conns -> Phases] /\ timer \in [Conns -> Nat] /\ wants \in [Conns -> Decisions]
        /\ vetoed \in [Conns -> Gates \cup {"none"}] /\ sent \in [Conns -> SUBSET Posts]
    BY DEF Init, Decisions, Phases
  <2>6. signal \in BOOLEAN /\ alarm \in Nat /\ since \in Nat
    BY <2>1
  <2> QED
    BY <2>1, <2>2, <2>3, <2>4, <2>5, <2>6 DEF TypeOK
<1>2. \A c \in Conns : Delivery(c) /\ Verdict(c) /\ InTime(c)
  BY Constants DEF Init, Delivery, Verdict, InTime, NoTask, InHandler, Ample
<1>3. LoopTime
  BY <1>1, Constants, ConfigTypes DEF Init, LoopTime, LameLeft, NotDraining, ShutdownBounded
<1>4. GraceSuffices
  BY DEF Init, GraceSuffices
<1> QED
  BY <1>1, <1>2, <1>3, <1>4 DEF Inv

-----------------------------------------------------------------------------
(* The steps of one connection.                                             *)

\* Everything but the connection c keeps its state.
OnlyThis(c) ==
  /\ UNCHANGED <<server, cut, config>>
  /\ \A d \in Conns \ {c} :
       /\ conn'[d] = conn[d] /\ timer'[d] = timer[d] /\ task'[d] = task[d]
       /\ wants'[d] = wants[d] /\ vetoed'[d] = vetoed[d] /\ sent'[d] = sent[d]
       /\ d \in changed' <=> d \in changed
       /\ d \in stuck' <=> d \in stuck

Tasks == [kind : DOMAIN Plans \cup {"none"}, at : Nat, attempt : 0 .. MaxRetries, left : Int]

RequestTypes ==
  /\ conn \in [Conns -> Phases] /\ timer \in [Conns -> Nat] /\ task \in [Conns -> Tasks]
  /\ wants \in [Conns -> Decisions] /\ vetoed \in [Conns -> Gates \cup {"none"}]
  /\ changed \in SUBSET Conns /\ stuck \in SUBSET Conns /\ sent \in [Conns -> SUBSET Posts]

LEMMA OneConn ==
  ASSUME Inv, NEW c \in Conns, OnlyThis(c), RequestTypes',
         Delivery(c)', Verdict(c)', InTime(c)'
  PROVE  Inv'
<1>1. TypeOK'
  BY DEF Inv, TypeOK, OnlyThis, RequestTypes, Tasks, server, config
<1>2. \A d \in Conns : Delivery(d)' /\ Verdict(d)' /\ InTime(d)'
  <2> SUFFICES ASSUME NEW d \in Conns \ {c} PROVE Delivery(d)' /\ Verdict(d)' /\ InTime(d)'
    OBVIOUS
  <2>1. Delivery(d) /\ Verdict(d) /\ InTime(d)
    BY DEF Inv
  <2>2. Delivery(d)'
    BY <2>1 DEF OnlyThis, Delivery, StepOf
  <2>3. Verdict(d)'
    BY <2>1 DEF OnlyThis, Verdict, Stands
  <2>4. InTime(d)'
    BY <2>1 DEF OnlyThis, InTime, Ample, Ahead, server, config
  <2> QED
    BY <2>2, <2>3, <2>4
<1>3. LoopTime' /\ GraceSuffices'
  BY DEF Inv, OnlyThis, LoopTime, LameLeft, ShutdownBounded, GraceSuffices, server, config
<1> QED
  BY <1>1, <1>2, <1>3 DEF Inv

\* A connection without a request.
LEMMA RestInv ==
  ASSUME Inv, NEW c \in Conns, UNCHANGED <<server, cut, config>>, Forget(c),
         Become(c, "closed", 0) \/ (loop # "drain" /\ Become(c, "read", HeaderTimeout))
  PROVE  Inv'
<1>1. RequestTypes'
  <2>1. NoTask \in Tasks
    BY Constants DEF NoTask, Tasks
  <2>2. task' \in [Conns -> Tasks]
    BY <2>1 DEF Inv, TypeOK, Forget, Tasks
  <2>3. "none" \in Decisions /\ HeaderTimeout \in Nat /\ {"closed", "read"} \subseteq Phases
    BY Constants DEF Decisions, Phases
  <2>4. conn' \in [Conns -> Phases] /\ timer' \in [Conns -> Nat]
    <3>1. conn \in [Conns -> Phases] /\ timer \in [Conns -> Nat]
      BY DEF Inv, TypeOK
    <3>2. CASE Become(c, "closed", 0)
      BY <2>3, <3>1, <3>2 DEF Become
    <3>3. CASE Become(c, "read", HeaderTimeout)
      BY <2>3, <3>1, <3>3 DEF Become
    <3> QED
      BY <3>2, <3>3
  <2>5. /\ wants' \in [Conns -> Decisions] /\ vetoed' \in [Conns -> Gates \cup {"none"}]
        /\ sent' \in [Conns -> SUBSET Posts] /\ changed' \in SUBSET Conns /\ stuck' \in SUBSET Conns
    BY <2>3 DEF Inv, TypeOK, Forget
  <2> QED
    BY <2>2, <2>4, <2>5 DEF RequestTypes
<1>2. OnlyThis(c)
  BY DEF Inv, TypeOK, OnlyThis, Forget, Become
<1>3. /\ conn'[c] = "closed" \/ (conn'[c] = "read" /\ timer'[c] = HeaderTimeout /\ loop # "drain")
      /\ task'[c] = NoTask /\ vetoed'[c] = "none" /\ sent'[c] = {}
      /\ c \notin changed' /\ c \notin stuck' /\ loop' = loop
  BY DEF Inv, TypeOK, Forget, Become, server
<1>4. Delivery(c)' /\ Verdict(c)' /\ InTime(c)'
  BY <1>3, Constants DEF Delivery, Verdict, InTime, NoTask, InHandler, Ample
<1> QED
  BY <1>1, <1>2, <1>4, OneConn

LEMMA ReplyInv ==
  ASSUME Inv, NEW c \in Conns, Reply(c), conn[c] \in InHandler,
         vetoed' \in [Conns -> Gates \cup {"none"}], changed' \in SUBSET Conns,
         stuck' \in SUBSET Conns, Stands(c)',
         \A d \in Conns \ {c} : /\ vetoed'[d] = vetoed[d] /\ (d \in changed' <=> d \in changed)
                                /\ (d \in stuck' <=> d \in stuck),
         UNCHANGED <<server, cut, config>>
  PROVE  Inv'
<1>1. conn'[c] = "reply" /\ UNCHANGED <<task, wants, sent>>
  BY DEF Reply, Become, Inv, TypeOK
<1>2. RequestTypes'
  BY DEF RequestTypes, Reply, Become, Inv, TypeOK, Tasks, Phases
<1>3. OnlyThis(c)
  <2>1. \A d \in Conns \ {c} : conn'[d] = conn[d] /\ timer'[d] = timer[d]
    BY DEF Reply, Become, Inv, TypeOK
  <2> QED
    BY <1>1, <2>1 DEF OnlyThis
<1>4. Delivery(c)
  BY DEF Inv
<1>5. Delivery(c)' /\ Verdict(c)' /\ InTime(c)'
  BY <1>1, <1>4 DEF Delivery, Verdict, InTime, InHandler
<1> QED
  BY <1>2, <1>3, <1>5, OneConn

\* The next step: what came before it is done, and there is time for it.
LEMMA BeginInv ==
  ASSUME Inv, NEW c \in Conns, NEW k \in DOMAIN Plans, NEW i \in 1 .. (Len(Plans[k]) + 1),
         Begin(c, k, i),
         i > 1 => conn[c] \in InHandler /\ task[c].kind = k /\ task[c].at = i - 1,
         vetoed' \in [Conns -> Gates \cup {"none"}], changed' \in SUBSET Conns, stuck' = stuck,
         vetoed'[c] = "none", c \notin stuck, c \in changed' <=> Made(k, i), sent[c] = Sent(k, i - 1),
         \A d \in Conns \ {c} : vetoed'[d] = vetoed[d] /\ (d \in changed' <=> d \in changed),
         Ample /\ k \notin WithBody /\ i <= Len(Plans[k]) => alarm > Cost(Plans[k][i]) + Togo[k][i],
         UNCHANGED <<server, cut, config>>
  PROVE  Inv'
<1>0. Len(Plans[k]) \in Nat /\ Len(Plans[k]) >= 1 /\ i \in Nat /\ i >= 1
  BY PlanLengths
<1>1. CASE i > Len(Plans[k]) /\ Reply(c)
  <2>1. i > 1 /\ stuck' \in SUBSET Conns
    BY <1>0, <1>1 DEF Inv, TypeOK
  <2>2. Stands(c)'
    BY DEF Stands
  <2> QED
    BY <1>1, <2>1, <2>2, ReplyInv
<1>2. CASE /\ i <= Len(Plans[k])
           /\ task' = [task EXCEPT ![c] = [kind |-> k, at |-> i, attempt |-> 0, left |-> Deadline]]
  <2> DEFINE step == Plans[k][i]
             t == [kind |-> k, at |-> i, attempt |-> 0, left |-> Deadline]
  <2>1. i \in 1 .. Len(Plans[k])
    BY <1>0, <1>2
  <2>2. t \in Tasks /\ t.kind = k /\ t.at = i /\ t.left = Deadline
    BY <1>0, Constants DEF Tasks
  <2>3. task' = [task EXCEPT ![c] = t] /\ task \in [Conns -> Tasks]
    BY <1>2 DEF Inv, TypeOK, Tasks
  <2> HIDE DEF t
  <2>4. /\ task' \in [Conns -> Tasks] /\ \A d \in Conns \ {c} : task'[d] = task[d]
        /\ task'[c].kind = k /\ task'[c].at = i /\ task'[c].left = Deadline
    BY <2>2, <2>3
  <2>5. StepOf(c)' = step /\ Ahead(c)' = Togo[k][i]
    BY <2>4 DEF StepOf, Ahead
  <2>6. Sent(k, i) = IF step \in Posts THEN Sent(k, i - 1) \cup {step} ELSE Sent(k, i - 1)
    BY <2>1, StepFacts
  <2>7. /\ wants \in [Conns -> Decisions] /\ sent \in [Conns -> SUBSET Posts]
        /\ conn \in [Conns -> Phases] /\ timer \in [Conns -> Nat] /\ stuck \in SUBSET Conns
    BY DEF Inv, TypeOK
  <2>8. Gates \cap Posts = {} /\ {"lock", "load", "store", "body"} \cap (Gates \cup Posts) = {}
    BY DEF Gates, Posts
  <2>9. /\ wants' \in [Conns -> Decisions] /\ sent' \in [Conns -> SUBSET Posts]
        /\ \A d \in Conns \ {c} : wants'[d] = wants[d] /\ sent'[d] = sent[d]
        /\ sent'[c] = Sent(k, i)
        /\ \/ step \in Gates \cup Posts /\ Become(c, "send", Timeout)
           \/ step = "body" /\ Become(c, "body", 0)
           \/ step \in {"lock", "load", "store"} /\ Become(c, "work", Span(step))
    <3> HIDE DEF step
    <3>0. step = Plans[k][i]
      BY DEF step
    <3>1. CASE step \in Gates \cup Posts /\ Deliver(c, step)
      <4>1. CASE step \in Gates
        BY <2>6, <2>7, <2>8, <3>1, <4>1 DEF Deliver, Decisions
      <4>2. CASE step \in Posts
        BY <2>6, <2>7, <2>8, <3>1, <4>2 DEF Deliver, Decisions
      <4> QED
        BY <3>1, <4>1, <4>2
    <3>2. CASE step \in {"lock", "load", "store", "body"} /\ UNCHANGED <<wants, sent>>
      BY <1>0, <1>2, <2>6, <2>7, <2>8, <3>0, <3>2 DEF Begin, Deliver
    <3> QED
      BY <1>0, <1>2, <3>0, <3>1, <3>2 DEF Begin
  <2>10. RequestTypes'
    <3>1. conn' \in [Conns -> Phases] /\ timer' \in [Conns -> Nat]
      <4>1. \E phase \in Phases, n \in Nat : Become(c, phase, n)
        BY <2>9, Constants, Durations DEF Phases
      <4> QED
        BY <2>7, <4>1 DEF Become
    <3> QED
      BY <2>4, <2>7, <2>9, <3>1 DEF RequestTypes
  <2>11. OnlyThis(c)
    BY <2>4, <2>7, <2>9 DEF OnlyThis, Become
  <2>12. \/ step \in Gates \cup Posts /\ conn'[c] = "send" /\ timer'[c] = Timeout
         \/ step = "body" /\ conn'[c] = "body" /\ timer'[c] = 0
         \/ step \in {"lock", "load", "store"} /\ conn'[c] = "work" /\ timer'[c] = Span(step)
    BY <2>7, <2>9 DEF Become
  <2>13. Delivery(c)'
    <3>0. Span(step) \in Nat
      BY Constants DEF Span
    <3>1. /\ Deadline >= -Timeout /\ Deadline <= Deadline /\ Deadline >= Timeout - Timeout
          /\ Timeout <= Timeout /\ Span(step) <= Span(step)
      BY <3>0, Constants
    <3>2. CASE step \in Gates \cup Posts /\ conn'[c] = "send" /\ timer'[c] = Timeout
      BY <2>1, <2>4, <2>5, <3>1, <3>2 DEF Delivery, InHandler
    <3>3. CASE step = "body" /\ conn'[c] = "body" /\ timer'[c] = 0
      BY <2>1, <2>4, <2>5, <3>1, <3>3 DEF Delivery, InHandler
    <3>4. CASE step \in {"lock", "load", "store"} /\ conn'[c] = "work" /\ timer'[c] = Span(step)
      BY <2>1, <2>4, <2>5, <3>1, <3>4 DEF Delivery, InHandler
    <3> QED
      BY <2>12, <3>2, <3>3, <3>4
  <2>14. Verdict(c)'
    BY <2>4, <2>9, <2>12 DEF Verdict
  <2>15. InTime(c)'
    <3> SUFFICES ASSUME Ample, k \notin WithBody
                 PROVE  /\ conn'[c] = "send" => alarm > Deadline + Timeout + Togo[k][i]
                        /\ conn'[c] = "work" => alarm > Span(step) + Togo[k][i]
      BY <2>4, <2>5, <2>12 DEF InTime, Ample, server, config
    <3>1. k \in DOMAIN Togo /\ alarm \in Nat
      BY TogoKinds DEF Inv, TypeOK
    <3>2. Togo[k][i] \in Nat /\ alarm > Cost(step) + Togo[k][i]
      BY <1>2, <2>1, <3>1, TogoFacts
    <3> QED
      BY <2>8, <2>12, <3>1, <3>2, Constants, Durations DEF Cost
  <2> QED
    BY <2>10, <2>11, <2>13, <2>14, <2>15, OneConn
<1> QED
  BY <1>1, <1>2 DEF Begin

LEMMA RequestInv == ASSUME Inv, NEW c \in Conns, Request(c) PROVE Inv'
<1>1. PICK k \in Kinds : Begin(c, k, 1)
  BY DEF Request
<1>2. k \in DOMAIN Plans /\ conn[c] = "read" /\ UNCHANGED <<server, vetoed, changed, stuck, cut, config>>
  BY ConstantsAssumption DEF Request
<1>3. Delivery(c) /\ Verdict(c) /\ InTime(c) /\ timer[c] \in Nat /\ alarm \in Nat
  BY DEF Inv, TypeOK
<1>4. Len(Plans[k]) \in Nat /\ Len(Plans[k]) >= 1
  BY <1>2, PlanLengths
<1>5. /\ vetoed[c] = "none" /\ c \notin stuck /\ c \notin changed /\ sent[c] = {}
  BY <1>2, <1>3 DEF Verdict
<1>6. sent[c] = Sent(k, 1 - 1) /\ (c \in changed <=> Made(k, 1))
  BY <1>5, SentNone
<1>7. ASSUME Ample, k \notin WithBody PROVE alarm > Cost(Plans[k][1]) + Togo[k][1]
  <2>1. k \in DOMAIN Togo
    BY <1>2, <1>7, TogoKinds
  <2>2. LongestRequest >= Cost(Plans[k][1]) + Togo[k][1] /\ Togo[k][1] \in Nat
    BY <1>4, <2>1, TogoFacts
  <2>3. alarm > timer[c] + LongestRequest
    BY <1>2, <1>3, <1>7 DEF InTime
  <2>4. Cost(Plans[k][1]) \in Nat
    BY Durations DEF Cost
  <2> QED
    BY <1>3, <2>2, <2>3, <2>4, Durations
<1>8. vetoed \in [Conns -> Gates \cup {"none"}] /\ changed \in SUBSET Conns
  BY DEF Inv, TypeOK
<1> QED
  BY <1>1, <1>2, <1>4, <1>5, <1>6, <1>7, <1>8, BeginInv

\* The step a handler is at is over.
LEMMA AdvanceInv ==
  ASSUME Inv, NEW c \in Conns, Advance(c), conn[c] \in {"send", "body", "work"},
         vetoed' = vetoed, stuck' = stuck,
         changed' = IF StepOf(c) = "store" THEN changed \cup {c} ELSE changed,
         UNCHANGED <<server, cut, config>>
  PROVE  Inv'
<1> DEFINE k == task[c].kind
           i == task[c].at
<1>1. /\ Delivery(c) /\ Verdict(c) /\ InTime(c) /\ timer[c] \in Nat /\ alarm \in Nat
      /\ task[c].left \in Int /\ vetoed \in [Conns -> Gates \cup {"none"}] /\ changed \in SUBSET Conns
  BY DEF Inv, TypeOK
<1>2. k \in DOMAIN Plans /\ i \in 1 .. Len(Plans[k])
  BY <1>1 DEF Delivery, InHandler
<1>3. Len(Plans[k]) \in Nat /\ i \in Nat /\ i >= 1 /\ i <= Len(Plans[k])
  BY <1>2, PlanLengths
<1>4. i + 1 \in 1 .. (Len(Plans[k]) + 1) /\ (i + 1) - 1 = i
  BY <1>3
<1>5. /\ vetoed[c] = "none" /\ c \notin stuck /\ (c \in changed <=> Made(k, i)) /\ sent[c] = Sent(k, i)
  BY <1>1 DEF Verdict
<1>6. c \in changed' <=> Made(k, i + 1)
  BY <1>2, <1>5, StepFacts DEF StepOf
<1>7. ASSUME Ample, k \notin WithBody, i + 1 <= Len(Plans[k])
      PROVE  alarm > Cost(Plans[k][i + 1]) + Togo[k][i + 1]
  <2>1. k \in DOMAIN Togo
    BY <1>2, <1>7, TogoKinds
  <2>2. /\ Togo[k][i] >= Cost(Plans[k][i + 1]) + Togo[k][i + 1]
        /\ Togo[k][i] \in Nat /\ Togo[k][i + 1] \in Nat
    <3>1. i + 1 \in 1 .. Len(Plans[k]) /\ i < Len(Plans[k])
      BY <1>3, <1>7
    <3> QED
      BY <1>2, <2>1, <3>1, TogoFacts
  <2>3. conn[c] # "body"
    BY <1>1, <1>2, <1>7, PlanSteps DEF Delivery, StepOf
  <2>4. alarm > Togo[k][i]
    <3>1. Ahead(c) = Togo[k][i] /\ task[c].kind \notin WithBody
      BY <1>7 DEF Ahead
    <3>2. CASE conn[c] = "send"
      <4>1. alarm > task[c].left + Timeout + Togo[k][i] /\ task[c].left >= -Timeout
        BY <1>1, <1>7, <3>1, <3>2 DEF InTime, Delivery
      <4> QED
        BY <1>1, <2>2, <4>1, Constants
    <3>3. CASE conn[c] = "work"
      <4>1. alarm > timer[c] + Togo[k][i]
        BY <1>1, <1>7, <3>1, <3>3 DEF InTime
      <4> QED
        BY <1>1, <2>2, <4>1
    <3> QED
      BY <2>3, <3>2, <3>3
  <2>5. Cost(Plans[k][i + 1]) \in Nat
    BY Durations DEF Cost
  <2> QED
    BY <1>1, <2>2, <2>4, <2>5
<1>8. Begin(c, k, i + 1)
  BY DEF Advance
<1>9. conn[c] \in InHandler
  BY DEF InHandler
<1>10. changed' \in SUBSET Conns /\ \A d \in Conns \ {c} : d \in changed' <=> d \in changed
  BY <1>1
<1> HIDE DEF k, i
<1>11. task[c].kind = k /\ task[c].at = i
  BY DEF k, i
<1> QED
  BY <1>1, <1>2, <1>4, <1>5, <1>6, <1>7, <1>8, <1>9, <1>10, <1>11, BeginInv

\* An error: the request is answered, or first rolled back.
LEMMA RefuseInv ==
  ASSUME Inv, NEW c \in Conns, Refuse(c), conn[c] \in {"send", "body", "work"},
         vetoed' = vetoed \/ (vetoed' = [vetoed EXCEPT ![c] = StepOf(c)] /\ StepOf(c) \in Gates),
         UNCHANGED <<server, changed, stuck, cut, config>>
  PROVE  Inv'
<1> DEFINE undo == task[c].kind \in Creations /\ (StepOf(c) = "store" \/ c \in changed)
<1>1. /\ Delivery(c) /\ Verdict(c) /\ InTime(c) /\ timer[c] \in Nat /\ alarm \in Nat
      /\ task[c].left \in Int /\ vetoed \in [Conns -> Gates \cup {"none"}]
      /\ changed \in SUBSET Conns /\ stuck \in SUBSET Conns
  BY DEF Inv, TypeOK
<1>2. /\ task[c].kind \in DOMAIN Plans /\ task[c].at \in 1 .. Len(Plans[task[c].kind])
      /\ StepOf(c) = Plans[task[c].kind][task[c].at]
  BY <1>1 DEF Delivery, InHandler, StepOf
<1>3. /\ vetoed[c] = "none" /\ c \notin stuck
      /\ c \in changed <=> Made(task[c].kind, task[c].at)
      /\ sent[c] = Sent(task[c].kind, task[c].at)
  BY <1>1 DEF Verdict
<1>4. /\ vetoed' \in [Conns -> Gates \cup {"none"}] /\ \A d \in Conns \ {c} : vetoed'[d] = vetoed[d]
      /\ vetoed'[c] = "none" \/ (vetoed'[c] = StepOf(c) /\ StepOf(c) \in Gates)
  BY <1>1, <1>3
<1>5. StepOf(c) \in Gates =>
        IF task[c].kind = "lastPatch" /\ StepOf(c) = "PreFinish"
        THEN c \in changed /\ sent[c] = {"PostReceive"} /\ task[c].kind \notin Creations
        ELSE sent[c] = {} /\ (c \in changed => task[c].kind \in Creations)
  BY <1>2, <1>3, GateFacts
<1>6. CASE ~undo /\ Reply(c)
  <2>1. Stands(c)'
    <3>1. UNCHANGED <<task, sent, changed, stuck>>
      BY <1>6 DEF Reply
    <3>2. CASE vetoed'[c] = "none"
      BY <3>2 DEF Stands
    <3>3. CASE vetoed'[c] = StepOf(c) /\ StepOf(c) \in Gates
      BY <1>5, <1>6, <3>1, <3>3 DEF Stands
    <3> QED
      BY <1>4, <3>2, <3>3
  <2>2. conn[c] \in InHandler
    BY DEF InHandler
  <2> QED
    BY <1>1, <1>4, <1>6, <2>1, <2>2, ReplyInv
<1>7. CASE undo /\ Become(c, "undo", StoreTime) /\ UNCHANGED <<task, wants, sent>>
  <2>1. conn'[c] = "undo" /\ timer'[c] = StoreTime
    BY <1>7 DEF Become, Inv, TypeOK
  <2>2. RequestTypes'
    BY <1>4, <1>7, Constants DEF RequestTypes, Become, Inv, TypeOK, Tasks, Phases
  <2>3. OnlyThis(c)
    BY <1>4, <1>7 DEF OnlyThis, Become, Inv, TypeOK
  <2>4. Delivery(c)'
    <3>1. task'[c] = task[c]
      BY <1>7
    <3> QED
      BY <1>1, <1>2, <1>7, <2>1, <3>1, Constants DEF Delivery, InHandler
  <2>5. Verdict(c)'
    <3>1. vetoed'[c] # "none" => sent[c] = {}
      BY <1>4, <1>5, <1>7
    <3> QED
      BY <1>7, <2>1, <3>1 DEF Verdict
  <2>6. InTime(c)'
    <3> SUFFICES ASSUME Ample, task[c].kind \notin WithBody PROVE alarm > StoreTime
      BY <1>7, <2>1 DEF InTime, Ample, server, config
    <3>1. task[c].kind \in DOMAIN Togo
      BY <1>2, TogoKinds
    <3>2. Ahead(c) \in Nat /\ Ahead(c) >= StoreTime
      BY <1>2, <3>1, TogoFacts DEF Ahead
    <3>3. conn[c] # "body"
      BY <1>1, <1>2, PlanSteps DEF Delivery
    <3> QED
      BY <1>1, <3>2, <3>3, Constants DEF InTime, Delivery
  <2> QED
    BY <2>2, <2>3, <2>4, <2>5, <2>6, OneConn
<1> QED
  BY <1>6, <1>7 DEF Refuse

LEMMA ReceivedInv == ASSUME Inv, NEW c \in Conns, Received(c) PROVE Inv'
<1>1. conn[c] = "body" /\ UNCHANGED <<server, vetoed, changed, stuck, cut, config>>
  BY DEF Received
<1>2. StepOf(c) = "body"
  BY <1>1 DEF Inv, Delivery
<1>3. CASE Advance(c)
  BY <1>1, <1>2, <1>3, AdvanceInv
<1>4. CASE Refuse(c)
  BY <1>1, <1>4, RefuseInv
<1> QED
  BY <1>3, <1>4 DEF Received

LEMMA WorkedInv == ASSUME Inv, NEW c \in Conns, Worked(c) PROVE Inv'
<1>1. conn[c] = "work" /\ UNCHANGED <<server, vetoed, stuck, cut, config>>
  BY DEF Worked
<1>2. CASE changed' = (IF StepOf(c) = "store" THEN changed \cup {c} ELSE changed) /\ Advance(c)
  BY <1>1, <1>2, AdvanceInv
<1>3. CASE Refuse(c) /\ UNCHANGED changed
  BY <1>1, <1>3, RefuseInv
<1> QED
  BY <1>2, <1>3 DEF Worked

LEMMA UndoneInv == ASSUME Inv, NEW c \in Conns, Undone(c) PROVE Inv'
<1>1. /\ conn[c] = "undo" /\ Reply(c) /\ UNCHANGED <<server, vetoed, cut, config>>
      /\ \/ changed' = changed \ {c} /\ UNCHANGED stuck
         \/ stuck' = stuck \cup {c} /\ UNCHANGED changed
  BY DEF Undone
<1>2. /\ Delivery(c) /\ Verdict(c) /\ vetoed \in [Conns -> Gates \cup {"none"}]
      /\ changed \in SUBSET Conns /\ stuck \in SUBSET Conns
  BY DEF Inv, TypeOK
<1>3. /\ conn[c] \in InHandler /\ task[c].kind \in Creations
      /\ vetoed[c] # "none" => sent[c] = {}
  BY <1>1, <1>2 DEF Delivery, Verdict, InHandler
<1>4. task[c].kind # "lastPatch" /\ UNCHANGED <<task, sent>>
  BY <1>1, <1>3 DEF Creations, Reply
<1>5. c \notin changed' \/ c \in stuck'
  BY <1>1
<1>6. Stands(c)'
  BY <1>1, <1>3, <1>4, <1>5 DEF Stands
<1>7. /\ changed' \in SUBSET Conns /\ stuck' \in SUBSET Conns
      /\ \A d \in Conns \ {c} : /\ vetoed'[d] = vetoed[d] /\ (d \in changed' <=> d \in changed)
                                /\ (d \in stuck' <=> d \in stuck)
  BY <1>1, <1>2
<1> QED
  BY <1>1, <1>2, <1>3, <1>6, <1>7, ReplyInv

LEMMA RepliedInv == ASSUME Inv, NEW c \in Conns, Replied(c) PROVE Inv'
BY RestInv DEF Replied

\* The end of a delivery, with the decision that came back.
LEMMA ConcludeInv ==
  ASSUME Inv, NEW c \in Conns, NEW verdict \in {wants[c], "none"}, Conclude(c, verdict),
         conn[c] = "send", UNCHANGED <<server, cut, config>>
  PROVE  Inv'
<1>1. Delivery(c) /\ UNCHANGED <<changed, stuck>>
  BY DEF Inv, Conclude
<1>2. StepOf(c) # "store"
  BY <1>1 DEF Delivery, Gates, Posts
<1>3. CASE StepOf(c) \in Posts /\ Advance(c) /\ UNCHANGED vetoed
  BY <1>1, <1>2, <1>3, AdvanceInv
<1>4. CASE /\ StepOf(c) \in Gates
           /\ vetoed' = IF wants[c] = "reject" /\ ~(verdict = "none" /\ failOpen)
                        THEN [vetoed EXCEPT ![c] = StepOf(c)] ELSE vetoed
  <2>1. CASE Proceeds(verdict) /\ Advance(c)
    <3>1. vetoed' = vetoed
      BY <1>4, <2>1 DEF Proceeds
    <3> QED
      BY <1>1, <1>2, <2>1, <3>1, AdvanceInv
  <2>2. CASE Refuse(c)
    BY <1>1, <1>4, <2>2, RefuseInv
  <2> QED
    BY <1>3, <1>4, <2>1, <2>2 DEF Conclude
<1> QED
  BY <1>3, <1>4 DEF Conclude

LEMMA AnsweredInv == ASSUME Inv, NEW c \in Conns, Answered(c) PROVE Inv'
BY ConcludeInv DEF Answered

LEMMA DropInv == ASSUME Inv, NEW c \in Conns, Drop(c) PROVE Inv'
BY RestInv DEF Drop

\* A further attempt, begun before the deadline.
LEMMA AgainInv ==
  ASSUME Inv, NEW c \in Conns, Again(c), conn[c] \in {"send", "sleep"},
         task[c].attempt < MaxRetries, task[c].left >= 0,
         UNCHANGED <<server, wants, history, cut, config>>
  PROVE  Inv'
<1> DEFINE t == [task[c] EXCEPT !.attempt = @ + 1]
<1>1. task[c] \in Tasks /\ task \in [Conns -> Tasks] /\ alarm \in Nat /\ task[c].left \in Int
  BY DEF Inv, TypeOK, Tasks
<1>2. /\ t \in Tasks /\ t.kind = task[c].kind /\ t.at = task[c].at /\ t.left = task[c].left
  BY <1>1, Constants DEF Tasks
<1>3. task' = [task EXCEPT ![c] = t]
  BY <1>1 DEF Again
<1> HIDE DEF t
<1>4. task' \in [Conns -> Tasks] /\ task'[c] = t
  BY <1>1, <1>2, <1>3
<1>5. RequestTypes'
  BY <1>4, Constants DEF RequestTypes, Again, Become, Inv, TypeOK, Phases, history
<1>6. OnlyThis(c)
  BY <1>1, <1>3 DEF OnlyThis, Again, Become, Inv, TypeOK, history
<1>7. conn'[c] = "send" /\ timer'[c] = Timeout
  BY DEF Again, Become, Inv, TypeOK
<1>8. Delivery(c) /\ Verdict(c) /\ InTime(c)
  BY DEF Inv
<1>9. Delivery(c)'
  BY <1>1, <1>2, <1>4, <1>7, <1>8, Constants DEF Delivery, StepOf, InHandler
<1>10. Verdict(c)'
  BY <1>2, <1>4, <1>7, <1>8 DEF Verdict, history
<1>11. InTime(c)'
  BY <1>2, <1>4, <1>7, <1>8 DEF InTime, Ample, Ahead, server, config
<1> QED
  BY <1>5, <1>6, <1>9, <1>10, <1>11, OneConn

LEMMA RetryInv == ASSUME Inv, NEW c \in Conns, Retry(c) PROVE Inv'
<1>1. conn[c] = "sleep" /\ timer[c] = 0 /\ Delivery(c)
  BY DEF Retry, Inv
<1>2. task[c].attempt < MaxRetries /\ task[c].left >= 0
  BY <1>1 DEF Delivery
<1> QED
  BY <1>1, <1>2, AgainInv DEF Retry

LEMMA FailedInv == ASSUME Inv, NEW c \in Conns, Failed(c) PROVE Inv'
<1> DEFINE giveUp(delay) == \/ task[c].attempt + 1 >= MaxAttempts(StepOf(c))
                            \/ ExceedsDeadline(c, delay)
<1>1. PICK delay \in Delays :
        \/ giveUp(delay) /\ Conclude(c, "none")
        \/ /\ ~giveUp(delay)
           /\ \/ delay = 0 /\ Again(c)
              \/ delay > 0 /\ Become(c, "sleep", delay) /\ UNCHANGED task
           /\ UNCHANGED <<wants, history>>
  BY DEF Failed
<1>2. conn[c] = "send" /\ UNCHANGED <<server, cut, config>>
  BY DEF Failed
<1>3. delay \in Nat
  BY Constants DEF Delays, Smaller
<1>4. task[c].attempt \in Nat /\ task[c].left \in Int
  BY Constants DEF Inv, TypeOK
<1>5. CASE giveUp(delay) /\ Conclude(c, "none")
  BY <1>2, <1>5, ConcludeInv
<1>6. CASE ~giveUp(delay) /\ UNCHANGED <<wants, history>>
  <2>1. task[c].attempt < MaxRetries /\ delay <= task[c].left
    BY <1>3, <1>4, <1>6, Constants DEF MaxAttempts, ExceedsDeadline
  <2>2. CASE delay = 0 /\ Again(c)
    BY <1>2, <1>4, <1>6, <2>1, <2>2, AgainInv
  <2>3. CASE delay > 0 /\ Become(c, "sleep", delay) /\ UNCHANGED task
    <3>1. RequestTypes'
      BY <1>3, <1>6, <2>3 DEF RequestTypes, Become, Inv, TypeOK, Tasks, Phases, history
    <3>2. OnlyThis(c)
      BY <1>2, <1>6, <2>3 DEF OnlyThis, Become, Inv, TypeOK, history
    <3>3. conn'[c] = "sleep" /\ timer'[c] = delay /\ Delivery(c) /\ Verdict(c) /\ InTime(c)
      BY <2>3 DEF Become, Inv, TypeOK
    <3>4. Delivery(c)'
      BY <1>2, <2>1, <2>3, <3>3 DEF Delivery, StepOf, InHandler
    <3>5. Verdict(c)' /\ InTime(c)'
      BY <1>2, <1>6, <2>3, <3>3 DEF Verdict, InTime, Ample, Ahead, server, config, history
    <3> QED
      BY <3>1, <3>2, <3>4, <3>5, OneConn
  <2> QED
    BY <1>1, <1>6, <2>2, <2>3
<1> QED
  BY <1>1, <1>5, <1>6

LEMMA AcceptInv == ASSUME Inv, NEW c \in Conns, Accept(c) PROVE Inv'
<1>1. /\ conn[c] = "closed" /\ Delivery(c) /\ Verdict(c) /\ loop = "select"
      /\ UNCHANGED <<server, task, wants, history, cut, config>>
  BY DEF Accept, Inv
<1>2. conn'[c] = "read" /\ timer'[c] = HeaderTimeout
  BY DEF Accept, Become, Inv, TypeOK
<1>3. RequestTypes' /\ OnlyThis(c)
  <2>1. conn' \in [Conns -> Phases] /\ timer' \in [Conns -> Nat]
    BY Constants DEF Accept, Become, Inv, TypeOK, Phases
  <2>2. \A d \in Conns \ {c} : conn'[d] = conn[d] /\ timer'[d] = timer[d]
    BY DEF Accept, Become, Inv, TypeOK
  <2> QED
    BY <1>1, <2>1, <2>2 DEF RequestTypes, OnlyThis, Inv, TypeOK, Tasks, history
<1>4. Delivery(c)' /\ Verdict(c)' /\ InTime(c)'
  BY <1>1, <1>2, Constants DEF Delivery, Verdict, InTime, Ample, InHandler, server, config, history
<1> QED
  BY <1>3, <1>4, OneConn

-----------------------------------------------------------------------------
(* The steps of the loop.                                                   *)

LEMMA Times ==
  ASSUME TypeOK
  PROVE  /\ alarm \in Nat /\ since \in Nat /\ errors \in Nat /\ grace \in Nat
         /\ lame \in Int /\ lame >= -1 /\ lame <= DrainDelay
         /\ errors * Backoff \in Nat
<1>1. /\ alarm \in Nat /\ since \in Nat /\ errors \in Nat /\ grace \in Nat
      /\ lame \in Int /\ lame >= -1 /\ lame <= DrainDelay
  BY ConfigTypes, Constants DEF TypeOK, NotDraining
<1> QED
  BY <1>1, Constants

LEMMA QuietInv ==
  ASSUME Inv, UNCHANGED <<request, config>>, loop' # "drain" \/ UNCHANGED <<loop, alarm>>,
         TypeOK', LoopTime', GraceSuffices'
  PROVE  Inv'
<1> SUFFICES ASSUME NEW c \in Conns PROVE Delivery(c)' /\ Verdict(c)' /\ InTime(c)'
  BY DEF Inv
<1>1. Delivery(c) /\ Verdict(c) /\ InTime(c)
  BY DEF Inv
<1> QED
  BY <1>1 DEF Delivery, Verdict, InTime, Ample, Ahead, Stands, StepOf, request, config, history

LEMMA SignalInv == ASSUME Inv, Signal PROVE Inv'
<1>1. TypeOK'
  BY DEF Inv, TypeOK, Signal, request, history, config
<1>2. LoopTime' /\ GraceSuffices'
  BY DEF Inv, Signal, LoopTime, LameLeft, ShutdownBounded, GraceSuffices, config
<1> QED
  BY <1>1, <1>2, QuietInv DEF Signal

LEMMA AcceptErrorInv == ASSUME Inv, AcceptError PROVE Inv'
<1>1. TypeOK'
  BY Constants DEF Inv, TypeOK, AcceptError, request, history, config
<1>2. (errors + 1) * Backoff = errors * Backoff + Backoff
  BY Times, Constants DEF Inv
<1>3. LoopTime'
  <2> DEFINE past == errors * Backoff
  <2>1. errors' * Backoff = past + Backoff /\ past \in Nat /\ alarm' = Backoff
        /\ loop = "select" /\ loop' = "backoff" /\ UNCHANGED <<lame, signal, since, config>>
    BY <1>2, Times DEF Inv, AcceptError
  <2>2. /\ alarm = 0 /\ since <= (DrainDelay - LameLeft) + past - alarm
        /\ since <= DrainDelay + grace + past
        /\ ~signal => since = 0 /\ lame = NotDraining
    BY <2>1 DEF Inv, LoopTime, ShutdownBounded
  <2> HIDE DEF past
  <2> QED
    BY <2>1, <2>2, Times, Constants
    DEF Inv, LoopTime, LameLeft, ShutdownBounded, NotDraining, config
<1>4. GraceSuffices'
  BY DEF Inv, AcceptError, GraceSuffices, config
<1> QED
  BY <1>1, <1>3, <1>4, QuietInv DEF AcceptError

LEMMA AcceptAgainInv == ASSUME Inv, AcceptAgain PROVE Inv'
<1>1. TypeOK'
  BY DEF Inv, TypeOK, AcceptAgain, request, history, config
<1>2. LoopTime' /\ GraceSuffices'
  BY DEF Inv, AcceptAgain, LoopTime, LameLeft, ShutdownBounded, GraceSuffices, config
<1> QED
  BY <1>1, <1>2, QuietInv DEF AcceptAgain

LEMMA DrainedInv == ASSUME Inv, Drained PROVE Inv'
<1>1. TypeOK'
  BY DEF Inv, TypeOK, Drained, request, history, config
<1>2. LoopTime' /\ GraceSuffices'
  BY DEF Inv, Drained, LoopTime, LameLeft, ShutdownBounded, GraceSuffices, config
<1> QED
  BY <1>1, <1>2, QuietInv DEF Drained

\* The connections that are aborted leave nothing; only requests with a body
\* may be among them if the grace period suffices.
LEMMA AbortInv ==
  ASSUME Inv, AbortTasks, UNCHANGED <<signal, since, errors, config>>, UNCHANGED lame,
         grace > HeaderTimeout + LongestRequest =>
           \A c \in Conns : conn[c] \in InHandler => task[c].kind \in WithBody
  PROVE  Inv'
<1>1. TypeOK'
  <2>1. NoTask \in Tasks /\ "none" \in Decisions /\ "closed" \in Phases
    BY Constants DEF NoTask, Tasks, Decisions, Phases
  <2>2. /\ conn' \in [Conns -> Phases] /\ timer' \in [Conns -> Nat] /\ task' \in [Conns -> Tasks]
        /\ wants' \in [Conns -> Decisions] /\ vetoed' \in [Conns -> Gates \cup {"none"}]
        /\ sent' \in [Conns -> SUBSET Posts] /\ changed' \in SUBSET Conns /\ stuck' \in SUBSET Conns
    BY <2>1 DEF AbortTasks
  <2>3. cut' \in SUBSET DOMAIN Plans
    <3>1. \A c \in Conns : conn[c] \in InHandler => task[c].kind \in DOMAIN Plans
      BY DEF Inv, Delivery
    <3>2. cut \in SUBSET DOMAIN Plans
      BY DEF Inv, TypeOK
    <3> QED
      BY <3>1, <3>2 DEF AbortTasks
  <2>4. loop' = "exited" /\ alarm' = 0
    BY DEF AbortTasks
  <2> QED
    BY <2>2, <2>3, <2>4 DEF Inv, TypeOK, Tasks, config
<1>2. \A c \in Conns : Delivery(c)' /\ Verdict(c)' /\ InTime(c)'
  BY Constants DEF AbortTasks, Delivery, Verdict, InTime, NoTask, InHandler, Ample
<1>3. LoopTime'
  BY DEF AbortTasks, Inv, LoopTime, ShutdownBounded, config
<1>4. GraceSuffices'
  BY DEF AbortTasks, Inv, GraceSuffices, config
<1> QED
  BY <1>1, <1>2, <1>3, <1>4 DEF Inv

\* The loop closes the listener once all of drain_delay has passed.
LEMMA CloseInv ==
  ASSUME Inv, Close, loop = "select", LameLeft = 0, signal, UNCHANGED <<lame, signal, since, errors, config>>
  PROVE  Inv'
<1>1. grace \in Nat
  BY Times DEF Inv
<1>2. CASE grace = 0 /\ AbortTasks
  <2>1. ~(grace > HeaderTimeout + LongestRequest)
    BY <1>1, <1>2, Constants, Durations
  <2> QED
    BY <1>2, <2>1, AbortInv
<1>3. CASE grace > 0 /\ loop' = "drain" /\ alarm' = grace /\ UNCHANGED <<request, cut>>
  <2>1. TypeOK'
    BY <1>1, <1>3 DEF Inv, TypeOK, request, history, config
  <2>2. \A c \in Conns : Delivery(c)' /\ Verdict(c)'
    BY <1>3 DEF Inv, Delivery, Verdict, Stands, StepOf, request, config, history
  <2>3. \A c \in Conns : InTime(c)'
    <3> SUFFICES ASSUME NEW c \in Conns, grace > HeaderTimeout + LongestRequest
                 PROVE  /\ conn[c] = "read" => grace > timer[c] + LongestRequest
                        /\ task[c].kind \notin WithBody =>
                             /\ conn[c] \in {"send", "sleep"} => grace > task[c].left + Timeout + Ahead(c)
                             /\ conn[c] = "work" => grace > timer[c] + Ahead(c)
                             /\ conn[c] = "undo" => grace > timer[c]
      BY <1>3 DEF InTime, Ample, Ahead, request, config
    <3>1. Delivery(c) /\ timer[c] \in Nat /\ task[c].left \in Int
      BY DEF Inv, TypeOK
    <3>2. conn[c] = "read" => grace > timer[c] + LongestRequest
      BY <1>1, <3>1, Constants, Durations DEF Delivery
    <3>3. ASSUME task[c].kind \notin WithBody, conn[c] \in {"send", "sleep", "work"}
          PROVE  Ahead(c) \in Nat /\ LongestRequest >= Cost(StepOf(c)) + Ahead(c)
      BY <3>1, <3>3, TogoLongest DEF Delivery, InHandler, StepOf, Ahead
    <3>4. ASSUME task[c].kind \notin WithBody, conn[c] \in {"send", "sleep"}
          PROVE  grace > task[c].left + Timeout + Ahead(c)
      <4>1. Cost(StepOf(c)) = OneDelivery /\ task[c].left <= Deadline
        BY <3>1, <3>4 DEF Delivery, Cost
      <4> QED
        BY <1>1, <3>1, <3>3, <3>4, <4>1, Constants, Durations
    <3>5. ASSUME task[c].kind \notin WithBody, conn[c] = "work" PROVE grace > timer[c] + Ahead(c)
      <4>1. Cost(StepOf(c)) = Span(StepOf(c)) /\ timer[c] <= Span(StepOf(c))
        BY <3>1, <3>5 DEF Delivery, Cost, Gates, Posts
      <4>2. Span(StepOf(c)) \in Nat
        BY Constants DEF Span
      <4> QED
        BY <1>1, <3>1, <3>3, <3>5, <4>1, <4>2, Constants, Durations
    <3>6. conn[c] = "undo" => grace > timer[c]
      BY <1>1, <3>1, Constants, Durations DEF Delivery
    <3> QED
      BY <3>2, <3>4, <3>5, <3>6
  <2>4. LoopTime'
    <3>1. /\ since <= DrainDelay - 0 + errors * Backoff - alarm /\ alarm = 0
          /\ ShutdownBounded
      BY DEF Inv, LoopTime
    <3>2. errors * Backoff \in Nat /\ since \in Nat /\ grace \in Nat
      BY Times DEF Inv
    <3> QED
      BY <1>3, <3>1, <3>2, Constants DEF LoopTime, ShutdownBounded, config
  <2>5. GraceSuffices'
    BY <1>3 DEF Inv, GraceSuffices, config
  <2> QED
    BY <2>1, <2>2, <2>3, <2>4, <2>5 DEF Inv
<1> QED
  BY <1>2, <1>3 DEF Close

LEMMA EnterInv == ASSUME Inv, EnterLameDuck PROVE Inv'
<1>1. /\ loop = "select" /\ signal /\ lame = NotDraining
      /\ UNCHANGED <<signal, since, errors, config>>
  BY DEF EnterLameDuck, ShutdownReady
<1>2. CASE DrainDelay = 0 /\ Close /\ UNCHANGED lame
  BY <1>1, <1>2, CloseInv DEF LameLeft
<1>3. CASE DrainDelay > 0 /\ lame' = DrainDelay /\ UNCHANGED <<loop, alarm, request, cut>>
  <2>1. TypeOK'
    BY <1>1, <1>3, Constants DEF Inv, TypeOK, NotDraining, request, history, config
  <2>2. LoopTime'
    BY <1>1, <1>3, Constants DEF Inv, LoopTime, LameLeft, ShutdownBounded, NotDraining, config
  <2>3. GraceSuffices'
    BY <1>1, <1>3 DEF Inv, GraceSuffices, config
  <2> QED
    BY <1>1, <1>3, <2>1, <2>2, <2>3, QuietInv
<1> QED
  BY <1>2, <1>3 DEF EnterLameDuck

LEMMA LeaveInv == ASSUME Inv, LeaveLameDuck PROVE Inv'
<1>1. /\ loop = "select" /\ lame = 0 /\ Close /\ UNCHANGED <<lame, signal, since, errors, config>>
  BY DEF LeaveLameDuck, DrainSleepOver
<1>2. LameLeft = 0 /\ signal
  BY <1>1 DEF LameLeft, NotDraining, Inv, LoopTime, TypeOK
<1> QED
  BY <1>1, <1>2, CloseInv

LEMMA ForceExitInv == ASSUME Inv, ForceExit PROVE Inv'
<1>1. loop = "drain" /\ alarm = 0 /\ AbortTasks /\ UNCHANGED <<lame, signal, since, errors, config>>
  BY DEF ForceExit
<1>2. ASSUME grace > HeaderTimeout + LongestRequest, NEW c \in Conns, conn[c] \in InHandler
      PROVE  task[c].kind \in WithBody
  <2> SUFFICES ASSUME task[c].kind \notin WithBody PROVE FALSE
    OBVIOUS
  <2>1. Delivery(c) /\ InTime(c) /\ timer[c] \in Nat /\ task[c].left \in Int /\ Ample
    BY <1>1, <1>2 DEF Inv, TypeOK, Ample
  <2>2. conn[c] # "body"
    BY <2>1, PlanSteps DEF Delivery, InHandler, StepOf
  <2>3. CASE conn[c] = "undo"
    BY <1>1, <2>1, <2>3 DEF InTime
  <2>4. CASE conn[c] \in {"send", "sleep", "work"}
    <3>1. Ahead(c) \in Nat
      BY <2>1, <2>4, TogoLongest DEF Delivery, InHandler, Ahead
    <3> QED
      BY <1>1, <2>1, <2>4, <3>1, Constants DEF InTime, Delivery
  <2> QED
    BY <1>2, <2>2, <2>3, <2>4 DEF InHandler
<1> QED
  BY <1>1, <1>2, AbortInv

-----------------------------------------------------------------------------
(* Time passes: every clock runs, and nobody who is due is overtaken.       *)

LEMMA ElapseInv == ASSUME Inv, Elapse PROVE Inv'
<1>1. /\ loop # "exited" /\ ~Due
      /\ alarm' = Less(alarm) /\ lame' = Less(lame)
      /\ timer' = [c \in Conns |-> Less(timer[c])]
      /\ task' = [c \in Conns |-> IF conn[c] \notin {"send", "sleep"} THEN task[c]
                                  ELSE [task[c] EXCEPT !.left = @ - 1]]
      /\ since' = IF signal THEN since + 1 ELSE since
      /\ UNCHANGED <<loop, signal, errors, conn, wants, history, cut, config>>
  BY DEF Elapse
<1>2. TypeOK'
  <2>1. alarm' \in Nat /\ since' \in Nat /\ lame' \in NotDraining .. DrainDelay
    BY <1>1, Times, Constants DEF Inv, Less, NotDraining
  <2>2. timer' \in [Conns -> Nat]
    BY <1>1 DEF Inv, TypeOK, Less
  <2>3. task' \in [Conns -> Tasks]
    <3> SUFFICES ASSUME NEW c \in Conns, task[c] \in Tasks
                 PROVE  [task[c] EXCEPT !.left = @ - 1] \in Tasks
      BY <1>1 DEF Inv, TypeOK, Tasks
    <3> QED
      BY DEF Tasks
  <2> QED
    BY <1>1, <2>1, <2>2, <2>3 DEF Inv, TypeOK, Tasks, config, history
<1>3. ASSUME NEW c \in Conns PROVE Delivery(c)' /\ Verdict(c)' /\ InTime(c)'
  <2>1. /\ Delivery(c) /\ Verdict(c) /\ InTime(c)
        /\ timer[c] \in Nat /\ task[c] \in Tasks /\ alarm \in Nat /\ task[c].left \in Int
    BY <1>3 DEF Inv, TypeOK, Tasks
  <2>2. conn[c] \in Timed => timer[c] > 0 /\ timer'[c] = timer[c] - 1
    BY <1>1, <2>1 DEF Due, Less
  <2>3. loop = "drain" => alarm > 0 /\ alarm' = alarm - 1
    BY <1>1, <2>1 DEF Due, Less
  <2>4. /\ conn'[c] = conn[c] /\ (Ample' <=> Ample) /\ (Ample => loop = "drain")
        /\ vetoed'[c] = vetoed[c] /\ sent'[c] = sent[c] /\ changed' = changed /\ stuck' = stuck
    BY <1>1 DEF Ample, config, history
  <2>5. CASE conn[c] \notin {"send", "sleep"}
    <3>1. task'[c] = task[c] /\ StepOf(c)' = StepOf(c) /\ Ahead(c)' = Ahead(c)
      BY <1>1, <2>5 DEF StepOf, Ahead
    <3>2. Delivery(c)'
      <4>1. Span(StepOf(c)) \in Nat
        BY Constants DEF Span
      <4> QED
        BY <2>1, <2>2, <2>4, <2>5, <3>1, <4>1, Constants DEF Delivery, Timed
    <3>3. Verdict(c)'
      BY <2>1, <2>4, <3>1 DEF Verdict, Stands
    <3>4. InTime(c)'
      <4>1. ASSUME task[c].kind \notin WithBody, conn[c] = "work" PROVE Ahead(c) \in Nat
        BY <2>1, <4>1, TogoLongest DEF Delivery, InHandler, Ahead
      <4> QED
        BY <2>1, <2>2, <2>3, <2>4, <2>5, <3>1, <4>1, Durations DEF InTime, Timed
    <3> QED
      BY <3>2, <3>3, <3>4
  <2>6. CASE conn[c] \in {"send", "sleep"}
    <3>1. task'[c] = [task[c] EXCEPT !.left = @ - 1]
      BY <1>1, <2>6
    <3>2. /\ task'[c].kind = task[c].kind /\ task'[c].at = task[c].at
          /\ task'[c].attempt = task[c].attempt /\ task'[c].left = task[c].left - 1
      BY <2>1, <3>1 DEF Tasks
    <3>3. StepOf(c)' = StepOf(c) /\ Ahead(c)' = Ahead(c)
      BY <3>2 DEF StepOf, Ahead
    <3>4. Delivery(c)'
      <4>1. timer[c] \in Nat /\ task[c].left \in Int /\ Timeout \in Nat /\ Deadline \in Nat
        BY <2>1, Constants DEF Tasks
      <4>2. timer[c] > 0 /\ timer'[c] = timer[c] - 1
        BY <2>2, <2>6 DEF Timed
      <4>3. /\ conn[c] = "sleep" => task[c].attempt < MaxRetries /\ task[c].left >= timer[c]
            /\ conn[c] = "send" => timer[c] <= Timeout /\ task[c].left >= timer[c] - Timeout
            /\ task[c].left <= Deadline
        BY <2>1 DEF Delivery
      <4>4. /\ conn'[c] = "sleep" => task'[c].attempt < MaxRetries /\ task'[c].left >= timer'[c]
            /\ conn'[c] = "send" => timer'[c] <= Timeout /\ task'[c].left >= timer'[c] - Timeout
            /\ task'[c].left >= -Timeout /\ task'[c].left <= Deadline
        BY <2>4, <2>6, <3>2, <4>1, <4>2, <4>3
      <4>5. /\ task[c].kind \in DOMAIN Plans /\ task[c].at \in 1 .. Len(Plans[task[c].kind])
            /\ StepOf(c) \in Gates \cup Posts
        BY <2>1, <2>6 DEF Delivery, InHandler
      <4> QED
        BY <2>4, <2>6, <3>2, <3>3, <4>4, <4>5 DEF Delivery
    <3>5. Verdict(c)'
      BY <2>1, <2>4, <2>6, <3>2 DEF Verdict
    <3>6. InTime(c)'
      <4>1. ASSUME task[c].kind \notin WithBody PROVE Ahead(c) \in Nat
        BY <2>1, <2>6, <4>1, TogoLongest DEF Delivery, InHandler, Ahead
      <4> QED
        BY <2>1, <2>3, <2>4, <2>6, <3>2, <3>3, <4>1, Constants DEF InTime
    <3> QED
      BY <3>4, <3>5, <3>6
  <2> QED
    BY <2>5, <2>6
<1>4. LoopTime'
  <2> DEFINE past == errors * Backoff
  <2>1. /\ alarm \in Nat /\ since \in Nat /\ grace \in Nat /\ past \in Nat /\ lame \in Int
        /\ lame >= -1 /\ lame <= DrainDelay
    BY Times DEF Inv
  <2>2. errors' * Backoff = past /\ loop' = loop /\ grace' = grace /\ signal' = signal
    BY <1>1 DEF config
  <2>3. /\ ~signal => since = 0 /\ lame = NotDraining
        /\ loop = "select" => alarm = 0
        /\ loop \in {"select", "backoff"} => since <= (DrainDelay - LameLeft) + past - alarm
        /\ loop = "drain" => alarm <= grace /\ since <= DrainDelay + (grace - alarm) + past
        /\ since <= DrainDelay + grace + past
    BY DEF Inv, LoopTime, ShutdownBounded
  <2> HIDE DEF past
  <2>4. /\ loop = "select" /\ signal => lame > 0
        /\ loop = "backoff" => alarm > 0
        /\ loop = "drain" => alarm > 0
        /\ loop \in {"select", "backoff", "drain"}
    <3>1. loop \in {"select", "backoff", "drain"}
      BY <1>1 DEF Inv, TypeOK
    <3>2. /\ ~(loop = "select" /\ signal /\ lame = -1) /\ ~(loop = "select" /\ lame = 0)
          /\ ~(loop = "backoff" /\ alarm = 0) /\ ~(loop = "drain" /\ alarm = 0)
      BY <1>1 DEF Due, ShutdownReady, DrainSleepOver, NotDraining
    <3> QED
      BY <2>1, <3>1, <3>2
  <2>5. CASE loop = "select"
    BY <1>1, <2>1, <2>2, <2>3, <2>4, <2>5, Constants
    DEF LoopTime, LameLeft, ShutdownBounded, Less, NotDraining
  <2>6. CASE loop = "backoff"
    BY <1>1, <2>1, <2>2, <2>3, <2>4, <2>6, Constants
    DEF LoopTime, LameLeft, ShutdownBounded, Less, NotDraining
  <2>7. CASE loop = "drain"
    BY <1>1, <2>1, <2>2, <2>3, <2>4, <2>7, Constants
    DEF LoopTime, LameLeft, ShutdownBounded, Less, NotDraining
  <2> QED
    BY <2>4, <2>5, <2>6, <2>7
<1>5. GraceSuffices'
  BY <1>1 DEF Inv, GraceSuffices, config
<1> QED
  BY <1>2, <1>3, <1>4, <1>5 DEF Inv

LEMMA NextInv == Inv /\ [Next]_vars => Inv'
<1> SUFFICES ASSUME Inv, [Next]_vars PROVE Inv'
  OBVIOUS
<1>1. CASE UNCHANGED vars
  <2>1. TypeOK' /\ LoopTime' /\ GraceSuffices'
    BY <1>1
    DEF vars, server, request, history, config, Inv, TypeOK, LoopTime, LameLeft, ShutdownBounded,
        GraceSuffices
  <2> QED
    BY <1>1, <2>1, QuietInv DEF vars, server
<1>2. CASE Next
  BY <1>2, SignalInv, AcceptErrorInv, AcceptAgainInv, EnterInv, LeaveInv, DrainedInv,
     ForceExitInv, ElapseInv, AcceptInv, RequestInv, ReceivedInv, WorkedInv, UndoneInv, RepliedInv,
     AnsweredInv, FailedInv, RetryInv, DropInv
  DEF Next, LoopStep, ConnStep
<1> QED
  BY <1>1, <1>2

LEMMA InvAlways == Spec => []Inv
BY InitInv, NextInv, PTL DEF Spec

LEMMA InvProperties == Inv => TypeOK /\ RejectionStands /\ DeliveryBounded /\ GraceSuffices /\ ShutdownBounded
<1> SUFFICES ASSUME Inv PROVE RejectionStands /\ DeliveryBounded
  BY DEF Inv, LoopTime
<1>1. RejectionStands
  BY DEF Inv, Verdict, Stands, RejectionStands
<1>2. DeliveryBounded
  BY DEF Inv, Delivery, DeliveryBounded
<1> QED
  BY <1>1, <1>2

-----------------------------------------------------------------------------
\* The attempts of a delivery stay within max_retries, and every clock that can
\* stop is stopped at zero.
THEOREM TypeCorrect == Spec => []TypeOK
BY InvAlways, InvProperties, PTL

\* A request that a gate refuses leaves nothing changed and nothing announced, but
\* for the bytes of a PATCH that is refused at PreFinish.
THEOREM RejectionAlways == Spec => []RejectionStands
BY InvAlways, InvProperties, PTL

\* A delivery ends by its retry deadline and one timeout.
THEOREM DeliveryAlways == Spec => []DeliveryBounded
BY InvAlways, InvProperties, PTL

\* A grace period that exceeds the time for the headers, the lock, the stores and
\* four deliveries cuts no handler short that is not waiting for its own client.
THEOREM GraceAlways == Spec => []GraceSuffices
BY InvAlways, InvProperties, PTL

\* The time from the signal to the end of serve_connections is bounded.
THEOREM ShutdownAlways == Spec => []ShutdownBounded
BY InvAlways, InvProperties, PTL
=============================================================================
