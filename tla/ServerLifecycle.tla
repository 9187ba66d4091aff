-------------------------- MODULE ServerLifecycle --------------------------
(***************************************************************************)
(* The standalone server's accept and shutdown loop                        *)
(* (crates/tus-server/src/lifecycle.rs) together with the requests it may  *)
(* cut short.  A request runs through the steps of its handler             *)
(* (crates/tus-protocol/src/protocol, lifecycle): lock and load, the       *)
(* pre-hooks that may refuse it, its body, the change of the upload, the   *)
(* post-hooks.  Hooks are webhooks (crates/tus-hook-http/src/lib.rs), each *)
(* delivered with retries before the handler goes on.                      *)
(*                                                                         *)
(* Time is discrete.  A wait has a timer; Elapse runs all of them down and *)
(* is held up by one that has run out, as its waiter is woken first.       *)
(* hyper, the clients and the webhook endpoint are external.  A definition *)
(* marked "Faulty" is the one below it with a plausible bug; nothing uses  *)
(* it.                                                                     *)
(***************************************************************************)
EXTENDS Integers, Sequences, FiniteSets

CONSTANTS
  Conns,         \* bound: connections at a time
  Kinds,         \* the kinds of requests that arrive
  Configs,       \* the configurations: shutdown_grace, fail_open, retry_post_hooks
  DrainDelay,    \* drain_delay
  HeaderTimeout, \* header_read_timeout, one that is set
  Backoff,       \* ACCEPT_ERROR_BACKOFF
  MaxErrors,     \* bound: accept errors that are backed off from
  Timeout,       \* HttpHookConfig::timeout
  Deadline,      \* HttpHookConfig::retry_deadline
  MaxRetries,    \* HttpHookConfig::max_retries
  MaxDelay,      \* bound: the longest backoff or Retry-After
  LockTimeout,   \* Config::lock_timeout
  StoreTime      \* external: the longest the stores take between two other waits

\* The steps of each kind of request, in the order its handler awaits them: a
\* PATCH and one that completes the upload; a POST without a body, for a
\* zero-length upload, with a body and with the whole upload; a POST of a final
\* upload with incomplete and with complete parts; a DELETE; a request that finds
\* a completion to recover (HEAD, GET, PATCH); one that only reads or is refused.
Plans ==
  [patch     |-> <<"lock", "PreReceive", "body", "store", "PostReceive">>,
   lastPatch |-> <<"lock", "PreReceive", "body", "store", "PostReceive", "PreFinish", "PostFinish">>,
   create    |-> <<"PreCreate", "store", "PostCreate">>,
   empty     |-> <<"PreCreate", "store", "PreFinish", "PostCreate", "PostFinish">>,
   with      |-> <<"PreCreate", "PreReceive", "body", "store", "PostCreate", "PostReceive">>,
   whole     |-> <<"PreCreate", "PreReceive", "body", "store", "PreFinish", "PostCreate",
                   "PostReceive", "PostFinish">>,
   planned   |-> <<"load", "PreCreate", "store", "PostCreate">>,
   final     |-> <<"load", "PreCreate", "PreFinish", "store", "PostCreate", "PostFinish">>,
   delete    |-> <<"lock", "PreTerminate", "store", "PostTerminate">>,
   recover   |-> <<"lock", "PreFinish", "store", "PostFinish">>,
   read      |-> <<"lock">>]

WithBody == {"patch", "lastPatch", "with", "whole"}
Creations == {"create", "empty", "with", "whole", "planned", "final"}
Gates == {"PreCreate", "PreReceive", "PreFinish", "PreTerminate"}
Posts == {"PostCreate", "PostReceive", "PostFinish", "PostTerminate"}

ASSUME ConstantsAssumption ==
  /\ Kinds \subseteq DOMAIN Plans
  /\ {DrainDelay, MaxErrors, Deadline, MaxRetries, MaxDelay, LockTimeout, StoreTime} \subseteq Nat
  /\ {HeaderTimeout, Backoff, Timeout} \subseteq Nat \ {0}
  /\ Configs \subseteq [grace : Nat, failOpen : BOOLEAN, retryPost : BOOLEAN]

VARIABLES
  loop, alarm,   \* where serve_connections is, and the timer it waits on
  lame,          \* what is left of drain_sleep, once there is one
  signal, since, \* ShutdownSignal; the time since it was given
  errors,        \* accept errors so far
  conn, timer,   \* each connection's phase and the timer it waits on
  task,          \* each request: its kind, its step, the delivery it waits for
  wants,         \* what the endpoint decides of that delivery
  vetoed,        \* history: the gate at which the endpoint refused the request
  changed, sent, \* history: the requests that changed an upload; their post-hooks
  stuck,         \* history: the requests whose rollback failed
  cut,           \* the kinds of the requests the server has aborted
  grace, failOpen, retryPost  \* the configuration

server  == <<loop, alarm, lame, signal, since, errors>>
history == <<vetoed, changed, sent, stuck>>
request == <<conn, timer, task, wants, history>>
config  == <<grace, failOpen, retryPost>>
vars    == <<server, request, cut, config>>

NotDraining == -1

\* Without a request; else attempt and left (the time to the deadline) are those
\* of the delivery.
NoTask == [kind |-> "none", at |-> 0, attempt |-> 0, left |-> 0]
Decisions == {"none", "proceed", "reject"}

StepOf(c) == Plans[task[c].kind][task[c].at]
Phases == {"closed", "read", "send", "sleep", "body", "work", "undo", "reply"}
InHandler == {"send", "sleep", "body", "work", "undo"}

Smaller(a, b) == IF a <= b THEN a ELSE b

\* The state of the loop, of the requests and of the configuration.
TypeOK ==
  /\ loop \in {"select", "backoff", "drain", "exited"}
  /\ alarm \in Nat /\ since \in Nat /\ signal \in BOOLEAN /\ errors \in 0 .. MaxErrors
  /\ lame \in NotDraining .. DrainDelay
  /\ conn \in [Conns -> Phases] /\ timer \in [Conns -> Nat]
  /\ task \in [Conns -> [kind : DOMAIN Plans \cup {"none"}, at : Nat,
                         attempt : 0 .. MaxRetries, left : Int]]
  /\ wants \in [Conns -> Decisions] /\ vetoed \in [Conns -> Gates \cup {"none"}]
  /\ changed \in SUBSET Conns /\ stuck \in SUBSET Conns
  /\ sent \in [Conns -> SUBSET Posts] /\ cut \in SUBSET DOMAIN Plans
  /\ [grace |-> grace, failOpen |-> failOpen, retryPost |-> retryPost] \in Configs

Init ==
  /\ loop = "select" /\ alarm = 0 /\ lame = NotDraining
  /\ signal = FALSE /\ since = 0 /\ errors = 0
  /\ conn = [c \in Conns |-> "closed"] /\ timer = [c \in Conns |-> 0]
  /\ task = [c \in Conns |-> NoTask] /\ wants = [c \in Conns |-> "none"]
  /\ vetoed = [c \in Conns |-> "none"] /\ sent = [c \in Conns |-> {}]
  /\ changed = {} /\ stuck = {} /\ cut = {}
  /\ \E k \in Configs : grace = k.grace /\ failOpen = k.failOpen /\ retryPost = k.retryPost

-----------------------------------------------------------------------------
(* A request and its webhooks.                                              *)

Become(c, phase, t) ==
  /\ conn' = [conn EXCEPT ![c] = phase]
  /\ timer' = [timer EXCEPT ![c] = t]

Forget(c) ==
  /\ task' = [task EXCEPT ![c] = NoTask] /\ wants' = [wants EXCEPT ![c] = "none"]
  /\ vetoed' = [vetoed EXCEPT ![c] = "none"] /\ sent' = [sent EXCEPT ![c] = {}]
  /\ changed' = changed \ {c} /\ stuck' = stuck \ {c}

\* The handler returns; its response is written as fast as the client reads it.
Reply(c) ==
  /\ Become(c, "reply", 0)
  /\ UNCHANGED <<task, wants, sent>>

\* send_webhook_with_retry: a new delivery, its deadline, its first attempt.  The
\* endpoint decides on a pre-hook once, however often it receives it.
Deliver(c, event) ==
  /\ Become(c, "send", Timeout)
  /\ \/ /\ event \in Gates
        /\ \E decision \in {"proceed", "reject"} : wants' = [wants EXCEPT ![c] = decision]
        /\ UNCHANGED sent
     \/ /\ event \in Posts
        /\ sent' = [sent EXCEPT ![c] = @ \cup {event}]
        /\ wants' = [wants EXCEPT ![c] = "none"]

\* The lock, which is given up after lock_timeout, and the calls of the stores.
Span(step) == IF step = "lock" THEN LockTimeout + StoreTime ELSE StoreTime

\* The handler goes on to step i of its plan.
Begin(c, kind, i) ==
  \/ i > Len(Plans[kind]) /\ Reply(c)
  \/ /\ i <= Len(Plans[kind])
     /\ task' = [task EXCEPT ![c] = [kind |-> kind, at |-> i, attempt |-> 0, left |-> Deadline]]
     /\ LET step == Plans[kind][i]
        IN  \/ step \in Gates \cup Posts /\ Deliver(c, step)
            \/ step = "body" /\ Become(c, "body", 0) /\ UNCHANGED <<wants, sent>>
            \/ /\ step \in {"lock", "load", "store"}
               /\ Become(c, "work", Span(step)) /\ UNCHANGED <<wants, sent>>
Advance(c) == Begin(c, task[c].kind, task[c].at + 1)

\* An error ends the request.  What a creation has made is rolled back, or may be.
FaultyRefuse(c) == Reply(c)
Refuse(c) ==
  LET undo == task[c].kind \in Creations /\ (StepOf(c) = "store" \/ c \in changed)
  IN  \/ undo /\ Become(c, "undo", StoreTime) /\ UNCHANGED <<task, wants, sent>>
      \/ ~undo /\ Reply(c)

\* The headers arrive and the request reaches its handler.
Request(c) ==
  /\ conn[c] = "read"
  /\ \E kind \in Kinds : Begin(c, kind, 1)
  /\ UNCHANGED <<server, vetoed, changed, stuck, cut, config>>

\* All of the body, which is at the mercy of its client, has arrived, or what has
\* arrived of it is refused.
Received(c) ==
  /\ conn[c] = "body"
  /\ Advance(c) \/ Refuse(c)
  /\ UNCHANGED <<server, vetoed, changed, stuck, cut, config>>

\* The lock is granted, the stores answer; or they fail.
Worked(c) ==
  /\ conn[c] = "work"
  /\ \/ /\ changed' = IF StepOf(c) = "store" THEN changed \cup {c} ELSE changed
        /\ Advance(c)
     \/ Refuse(c) /\ UNCHANGED changed
  /\ UNCHANGED <<server, vetoed, stuck, cut, config>>

\* The rollback, whose failure is logged.
Undone(c) ==
  /\ conn[c] = "undo"
  /\ \/ changed' = changed \ {c} /\ UNCHANGED stuck
     \/ stuck' = stuck \cup {c} /\ UNCHANGED changed
  /\ Reply(c)
  /\ UNCHANGED <<server, vetoed, cut, config>>

\* A connection that is kept alive waits for the next request, until the server
\* drains.
Replied(c) ==
  /\ conn[c] = "reply"
  /\ \/ Become(c, "closed", 0)
     \/ loop # "drain" /\ Become(c, "read", HeaderTimeout)
  /\ Forget(c)
  /\ UNCHANGED <<server, cut, config>>

\* execute_pre: without a decision the request fails, or proceeds if the hook
\* is configured to fail open; execute_post logs whatever came back.
FaultyProceeds(verdict) == verdict = "proceed" \/ failOpen
Proceeds(verdict) == verdict = "proceed" \/ (verdict = "none" /\ failOpen)

Conclude(c, verdict) ==
  /\ \/ /\ StepOf(c) \in Gates
        /\ vetoed' = IF wants[c] = "reject" /\ ~(verdict = "none" /\ failOpen)
                     THEN [vetoed EXCEPT ![c] = StepOf(c)] ELSE vetoed
        /\ \/ Proceeds(verdict) /\ Advance(c)
           \/ ~Proceeds(verdict) /\ Refuse(c)
     \/ StepOf(c) \in Posts /\ Advance(c) /\ UNCHANGED vetoed
  /\ UNCHANGED <<changed, stuck>>

\* retry_enabled is on here; a post-hook is retried only if that is asked for.
MaxAttempts(event) == IF event \in Gates \/ retryPost THEN MaxRetries + 1 ELSE 1

ExceedsDeadline(c, delay) == delay > task[c].left

\* retry_delay: Retry-After, capped at the deadline, or the capped backoff.
Delays == {Smaller(k, Deadline) : k \in 0 .. MaxDelay} \cup 1 .. MaxDelay

\* The attempt is answered with a decision, or with what no retry can change:
\* another status, a body that is too long or makes no sense.
Answered(c) ==
  /\ conn[c] = "send"
  /\ \E verdict \in {wants[c], "none"} : Conclude(c, verdict)
  /\ UNCHANGED <<server, cut, config>>

Again(c) ==
  /\ Become(c, "send", Timeout)
  /\ task' = [task EXCEPT ![c].attempt = @ + 1]

\* It fails, times out (the endpoint may have received it) or gets a status
\* that is worth a retry.
Failed(c) ==
  /\ conn[c] = "send"
  /\ \E delay \in Delays :
       LET giveUp == \/ task[c].attempt + 1 >= MaxAttempts(StepOf(c))
                     \/ ExceedsDeadline(c, delay)
       IN  \/ giveUp /\ Conclude(c, "none")
           \/ /\ ~giveUp
              /\ \/ delay = 0 /\ Again(c)
                 \/ delay > 0 /\ Become(c, "sleep", delay) /\ UNCHANGED task
              /\ UNCHANGED <<wants, history>>
  /\ UNCHANGED <<server, cut, config>>

Retry(c) ==
  /\ conn[c] = "sleep" /\ timer[c] = 0
  /\ Again(c)
  /\ UNCHANGED <<server, wants, history, cut, config>>

\* A client that leaves, or is too slow with its headers: the connection and
\* the handler in it are dropped.  hyper also drops one that is idle once the
\* server drains.
Drop(c) ==
  /\ conn[c] # "closed"
  /\ Become(c, "closed", 0)
  /\ Forget(c)
  /\ UNCHANGED <<server, cut, config>>

-----------------------------------------------------------------------------
(* serve_connections.                                                       *)

Signal ==
  /\ ~signal
  /\ signal' = TRUE
  /\ UNCHANGED <<loop, alarm, lame, since, errors, request, cut, config>>

Accept(c) ==
  /\ loop = "select" /\ conn[c] = "closed"
  /\ Become(c, "read", HeaderTimeout)
  /\ UNCHANGED <<server, task, wants, history, cut, config>>

\* The sleep is awaited inside the branch: nothing else is polled meanwhile.
\* An error that is retried at once changes nothing.
AcceptError ==
  /\ loop = "select" /\ errors < MaxErrors
  /\ errors' = errors + 1
  /\ loop' = "backoff" /\ alarm' = Backoff
  /\ UNCHANGED <<lame, signal, since, request, cut, config>>

AcceptAgain ==
  /\ loop = "backoff" /\ alarm = 0
  /\ loop' = "select"
  /\ UNCHANGED <<alarm, lame, signal, since, errors, request, cut, config>>

\* abort_all, and the join of what it aborted.
AbortTasks ==
  /\ cut' = cut \cup {task[c].kind : c \in {d \in Conns : conn[d] \in InHandler}}
  /\ conn' = [c \in Conns |-> "closed"] /\ timer' = [c \in Conns |-> 0]
  /\ task' = [c \in Conns |-> NoTask] /\ wants' = [c \in Conns |-> "none"]
  /\ vetoed' = [c \in Conns |-> "none"] /\ sent' = [c \in Conns |-> {}]
  /\ changed' = {} /\ stuck' = {}
  /\ loop' = "exited" /\ alarm' = 0

\* The listener is dropped; the connections are aborted at once or told to
\* shut down gracefully.
FaultyClose ==
  \/ grace = 0 /\ AbortTasks
  \/ /\ grace > 0
     /\ loop' = "drain" /\ alarm' = DrainDelay
     /\ UNCHANGED <<request, cut>>
Close ==
  \/ grace = 0 /\ AbortTasks
  \/ /\ grace > 0
     /\ loop' = "drain" /\ alarm' = grace
     /\ UNCHANGED <<request, cut>>

ShutdownReady == loop = "select" /\ signal /\ lame = NotDraining
DrainSleepOver == loop = "select" /\ lame = 0

\* The shutdown branch of the loop.
EnterLameDuck ==
  /\ ShutdownReady
  /\ \/ DrainDelay = 0 /\ Close /\ UNCHANGED lame
     \/ /\ DrainDelay > 0
        /\ lame' = DrainDelay
        /\ UNCHANGED <<loop, alarm, request, cut>>
  /\ UNCHANGED <<signal, since, errors, config>>

LeaveLameDuck ==
  /\ DrainSleepOver
  /\ Close
  /\ UNCHANGED <<lame, signal, since, errors, config>>

\* graceful.shutdown() returns when the last connection is gone.
Drained ==
  /\ loop = "drain" /\ \A c \in Conns : conn[c] = "closed"
  /\ loop' = "exited" /\ alarm' = 0
  /\ UNCHANGED <<lame, signal, since, errors, request, cut, config>>

FaultyForceExit == FALSE /\ UNCHANGED vars
ForceExit ==
  /\ loop = "drain" /\ alarm = 0
  /\ AbortTasks
  /\ UNCHANGED <<lame, signal, since, errors, config>>

-----------------------------------------------------------------------------

Timed == {"read", "send", "sleep", "work", "undo"}

\* Somebody has been woken and has not run yet.
Due ==
  \/ loop = "backoff" /\ alarm = 0
  \/ ShutdownReady \/ DrainSleepOver
  \/ loop = "drain" /\ (alarm = 0 \/ \A c \in Conns : conn[c] = "closed")
  \/ \E c \in Conns : conn[c] \in Timed /\ timer[c] = 0

Less(t) == IF t > 0 THEN t - 1 ELSE t

Elapse ==
  /\ loop # "exited" /\ ~Due
  /\ alarm' = Less(alarm) /\ lame' = Less(lame)
  /\ timer' = [c \in Conns |-> Less(timer[c])]
  /\ task' = [c \in Conns |-> IF conn[c] \notin {"send", "sleep"} THEN task[c]
                              ELSE [task[c] EXCEPT !.left = @ - 1]]
  /\ since' = IF signal THEN since + 1 ELSE since
  /\ UNCHANGED <<loop, signal, errors, conn, wants, history, cut, config>>

ConnStep(c) ==
  \/ Request(c) \/ Received(c) \/ Worked(c) \/ Undone(c) \/ Replied(c)
  \/ Answered(c) \/ Failed(c) \/ Retry(c) \/ Drop(c)
\* What happens to a connection whose timer has run out.
Woken(c) ==
  /\ conn[c] \in Timed /\ timer[c] = 0
  /\ Failed(c) \/ Retry(c) \/ Worked(c) \/ Undone(c) \/ (conn[c] = "read" /\ Drop(c))
LoopStep == AcceptAgain \/ EnterLameDuck \/ LeaveLameDuck \/ Drained \/ ForceExit

Next ==
  \/ Signal \/ AcceptError \/ LoopStep \/ Elapse
  \/ \E c \in Conns : Accept(c) \/ ConnStep(c)

\* Timers fire, the executor polls what is woken, time passes.
Fairness == WF_vars(LoopStep) /\ WF_vars(Elapse) /\ \A c \in Conns : WF_vars(Woken(c))

Spec == Init /\ [][Next]_vars /\ Fairness

-----------------------------------------------------------------------------
(* Properties.                                                              *)

\* A request that a gate refuses, even if the answer that says so is lost and
\* the delivery is retried, is answered with the upload as it was before it and
\* with no post-hook sent: it stops before the change, or what it created is rolled
\* back (unless a store fails to).  Only the bytes of a PATCH that completes the
\* upload stay, with their PostReceive, as PreFinish comes after them.  A hook that
\* fails open overrules the endpoint only when no answer came through.
RejectionStands ==
  \A c \in Conns : conn[c] = "reply" /\ vetoed[c] # "none" =>
    IF task[c].kind = "lastPatch" /\ vetoed[c] = "PreFinish"
    THEN c \in changed /\ sent[c] = {"PostReceive"}
    ELSE (c \notin changed \/ c \in stuck) /\ sent[c] = {}

\* A delivery, retries and backoff included, ends by the retry deadline and one
\* more timeout, whatever Retry-After the endpoint asks for.
DeliveryBounded == \A c \in Conns : task[c].left >= -Timeout

\* Enough for any request without a body: the lock, the stores before, at and
\* after the change, and four deliveries.
OneDelivery == Deadline + Timeout
LongestRequest == LockTimeout + 3 * StoreTime + 4 * OneDelivery

\* If shutdown_grace exceeds the time for the headers and the longest request, no
\* handler is cut short except one whose client may still have been sending its
\* body when the server began to drain.
GraceSuffices == grace > HeaderTimeout + LongestRequest => cut \subseteq WithBody

\* From the signal to the end of serve_connections it takes drain_delay and
\* shutdown_grace, and a backoff per accept error, however many connections
\* arrive meanwhile and however slow their clients are.
ShutdownBounded == since <= DrainDelay + grace + errors * Backoff

\* Once a signal is given the server stops.
ShutdownEnds == signal ~> loop = "exited"
=============================================================================
