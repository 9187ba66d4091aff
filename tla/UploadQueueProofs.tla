------------------------- MODULE UploadQueueProofs -------------------------
(***************************************************************************)
(* The safety of the browser client's queue, for any number of workers,    *)
(* items, files, chunks and calls of the user.                             *)
(*                                                                         *)
(* A worker's step is summarised once, action by action, in Effect: what   *)
(* it may do to its engine, its channel, its status, the stored entries    *)
(* and the resources.  The invariants then follow from the summary.        *)
(***************************************************************************)
EXTENDS UploadQueue, FiniteSetTheorems, TLAPS

\* What a running engine knows of its resource and of its retries.
Sound(e) ==
  /\ e.pc = "pre" <=> e.res = None
  /\ e.pc # "pre" => e.offset <= offs[e.res]
  /\ e.pc \notin {"pre", "loop"} => e.offset < Size
  /\ e.pc \in {"recover", "headBackoff"} => e.attempt <= MaxRetries

TypeInv ==
  /\ TypeOK
  /\ \A w \in Workers : eng[w] # NoRun => Sound(eng[w])
  /\ \A i \in DOMAIN items : i < nextId
  /\ \A w \in Workers : slots[w] < nextId

-----------------------------------------------------------------------------
\* Everybody who knows a resource takes it for an upload of its file.
KnownAs(owner, r, f) == r # None => owner[r] = f
OwnedBy(owner) ==
  /\ \A f \in Files : KnownAs(owner, disk[f], f)
  /\ \A i \in DOMAIN items : KnownAs(owner, items[i].url, items[i].file)
  /\ \A w \in Workers : \A k \in DOMAIN chan[w] :
       chan[w][k].kind = "Start" => KnownAs(owner, chan[w][k].url, chan[w][k].file)
  /\ \A w \in Workers : eng[w] # NoRun =>
       KnownAs(owner, eng[w].url, eng[w].file) /\ KnownAs(owner, eng[w].res, eng[w].file)

Owned == \E owner : OwnedBy(owner)

-----------------------------------------------------------------------------
\* A Start is the first command of a worker that is not running, the engine
\* runs the slot's item, and what the worker shows is true of that item.
NoStart(q) == \A k \in DOMAIN q : q[k].kind # "Start"
Serves(w) ==
  /\ \A k \in DOMAIN chan[w] : k > 1 => chan[w][k].kind # "Start"
  /\ eng[w] # NoRun => /\ NoStart(chan[w])
                       /\ st[w] \in {"Uploading", "Paused"}
                       /\ eng[w].item = slots[w]
  /\ \A k \in DOMAIN chan[w] :
       chan[w][k].kind = "Start" => st[w] = "Uploading" /\ chan[w][k].item = slots[w]
  /\ slots[w] # None =>
       /\ \A k \in DOMAIN chan[w] : chan[w][k].kind = "Abort" => slots[w] \in asked
       /\ st[w] = "Idle" => slots[w] \in asked
       /\ st[w] = "Complete" => slots[w] \in done

OneSlot == \A v, w \in Workers : slots[v] = slots[w] /\ slots[v] # None => v = w

Serving == (\A w \in Workers : Serves(w)) /\ OneSlot /\ StatusIsTrue

-----------------------------------------------------------------------------
(* The summary of a worker's step.                                         *)

Running(w) == eng[w] # NoRun

\* Only the worker's own engine, status and channel change.
Alone(w) ==
  /\ eng' = [eng EXCEPT ![w] = eng'[w]]
  /\ st' = [st EXCEPT ![w] = st'[w]]
  /\ chan' = [chan EXCEPT ![w] = chan'[w]]
  /\ poll' \in Workers \cup {0}
  /\ UNCHANGED <<queue, user>>

\* The first command has been taken.
Took(w) == chan[w] # << >> /\ chan'[w] = Tail(chan[w])

\* The run goes on, perhaps with the resource it asked for or a new one.
GoesOn(w) ==
  /\ Running(w) /\ eng'[w] \in Engine' /\ Sound(eng[w])'
  /\ eng'[w].item = eng[w].item /\ eng'[w].file = eng[w].file
  /\ eng'[w].url = eng[w].url
  /\ \/ eng'[w].res \in {eng[w].res, eng[w].url}
     \/ Len(offs') = Len(offs) + 1 /\ eng'[w].res = Len(offs')

Begins(w) == Took(w) /\ chan[w][1].kind = "Start" /\ eng'[w] = Run(chan[w][1])

EngineEffect(w) ==
  /\ eng'[w] = NoRun \/ Begins(w) \/ GoesOn(w)
  /\ Took(w) \/ (Running(w) /\ chan'[w] = chan[w])

\* The server's offsets only grow, and there may be a new resource.
ServerEffect ==
  /\ offs' \in Seq(0 .. Size)
  /\ Len(offs') \in {Len(offs), Len(offs) + 1}
  /\ \A r \in DOMAIN offs : offs[r] <= offs'[r]
  /\ fate' \in [DOMAIN offs' -> {"open", "error", "dropped", "aborted", "done"}]

Forgets(w) == Running(w) /\ disk' = [disk EXCEPT ![eng[w].file] = None]
Saves(w) ==
  /\ GoesOn(w) /\ eng'[w].res # None /\ fate'[eng'[w].res] = "open"
  /\ disk' = [disk EXCEPT ![eng[w].file] = eng'[w].res]

\* A resource is given up or done with only together with its entry.
DiskEffect(w) ==
  /\ disk' = disk \/ Forgets(w) \/ Saves(w)
  /\ \A r \in DOMAIN offs :
       \/ fate'[r] \in {fate[r], "open", "error", "dropped"}
       \/ Forgets(w) /\ r \in {eng[w].res, eng[w].url}

\* What the worker shows.
StatusEffect(w) ==
  /\ st'[w] \in Ended \cup {"Uploading", "Paused"}
  /\ GoesOn(w) /\ ~Begins(w) => st'[w] \in {st[w], "Uploading", "Paused"}
  /\ Begins(w) /\ ~Running(w) => st'[w] = st[w]
  /\ st'[w] = "Idle" => \/ st[w] = "Idle"
                        \/ Took(w) /\ chan[w][1].kind = "Abort"
                        \/ Took(w) /\ chan[w][1].kind = "Start" /\ Running(w)
  /\ st'[w] = "Complete" => st[w] = "Complete" \/ (Running(w) /\ eng[w].item \in done')
  /\ done \subseteq done' /\ done' \subseteq Ids

Effect(w) ==
  Alone(w) /\ EngineEffect(w) /\ ServerEffect /\ DiskEffect(w) /\ StatusEffect(w)

-----------------------------------------------------------------------------
\* The sets of values grow with the number of resources.
LEMMA Grow ==
  ASSUME offs \in Seq(0 .. Size), offs' \in Seq(0 .. Size), Len(offs) <= Len(offs')
  PROVE  /\ Resources \subseteq Resources' /\ Item \subseteq Item'
         /\ Command \subseteq Command' /\ Engine \subseteq Engine'
<1>1. Len(offs) \in Nat /\ Len(offs') \in Nat
  OBVIOUS
<1>2. Resources \subseteq Resources'
  BY <1>1 DEF Resources
<1>3. Item \subseteq Item'
  BY <1>2 DEF Item
<1>4. Command \subseteq Command'
  BY <1>2 DEF Command, StartCommand
<1>5. Engine \subseteq Engine'
  BY <1>2 DEF Engine
<1> QED
  BY <1>2, <1>3, <1>4, <1>5

\* The elements of a sequence.
LEMMA Elements ==
  ASSUME NEW S, NEW s \in Seq(S)
  PROVE  /\ Len(s) \in Nat /\ DOMAIN s = 1 .. Len(s)
         /\ \A r \in DOMAIN s : s[r] \in S
<1>1. Len(s) \in Nat /\ DOMAIN s = 1 .. Len(s)
  OBVIOUS
<1>2. \A r \in 1 .. Len(s) : s[r] \in S
  OBVIOUS
<1> QED
  BY <1>1, <1>2

\* The fields of a running engine.
LEMMA EngineFields ==
  ASSUME TypeInv, NEW w \in Workers, eng[w] # NoRun
  PROVE  /\ eng[w] \in Engine /\ Sound(eng[w])
         /\ eng[w].pc \in Raced \cup {"loop", "patch"}
         /\ eng[w].item \in Ids /\ eng[w].file \in Files
         /\ eng[w].url \in Resources /\ eng[w].res \in Resources
         /\ eng[w].offset \in 0 .. Size /\ eng[w].paused \in BOOLEAN
         /\ eng[w].attempt \in 0 .. MaxRetries + 1
<1>1. eng[w] \in Engine /\ Sound(eng[w])
  BY DEF TypeInv, TypeOK
<1> QED
  BY <1>1 DEF Engine

LEMMA NoRunIdle ==
  ASSUME TypeInv, NEW w \in Workers
  PROVE  eng[w] = NoRun <=> eng[w].pc = "idle"
<1>1. CASE eng[w] = NoRun
  BY <1>1 DEF NoRun
<1>2. CASE eng[w] # NoRun
  BY <1>2, EngineFields DEF Raced
<1> QED
  BY <1>1, <1>2

\* The numbers.
LEMMA Numbers ==
  ASSUME TypeInv
  PROVE  /\ Size \in Nat /\ Size > 0 /\ MaxRetries \in Nat /\ MaxItems \in Nat
         /\ WorkerCount \in Nat
         /\ Len(offs) \in Nat /\ DOMAIN offs = 1 .. Len(offs)
         /\ Resources = {0} \cup DOMAIN offs
         /\ \A r \in DOMAIN offs : offs[r] \in 0 .. Size
BY ConstantsAssumption DEF TypeInv, TypeOK, Resources

\* Offsets are compared through a third.
LEMMA Through ==
  ASSUME NEW a \in 0 .. Size, NEW b \in 0 .. Size, NEW c \in 0 .. Size, a <= b, b <= c
  PROVE  a <= c
BY ConstantsAssumption

\* The first command and the rest of a channel.
LEMMA Channel ==
  ASSUME TypeInv, NEW w \in Workers, chan[w] # << >>
  PROVE  /\ chan[w] \in Seq(Command) /\ Len(chan[w]) \in Nat \ {0}
         /\ Head(chan[w]) = chan[w][1] /\ chan[w][1] \in Command
         /\ Tail(chan[w]) \in Seq(Command) /\ Len(Tail(chan[w])) = Len(chan[w]) - 1
         /\ \A k \in 1 .. Len(Tail(chan[w])) : Tail(chan[w])[k] = chan[w][k + 1]
         /\ chan[w][1].kind \in {"Pause", "Resume", "Abort", "Start"}
         /\ chan[w][1].kind = "Start" => chan[w][1] \in StartCommand
<1>1. chan[w] \in Seq(Command)
  BY DEF TypeInv, TypeOK
<1>2. /\ Len(chan[w]) \in Nat \ {0} /\ Head(chan[w]) = chan[w][1] /\ chan[w][1] \in Command
      /\ Tail(chan[w]) \in Seq(Command) /\ Len(Tail(chan[w])) = Len(chan[w]) - 1
      /\ \A k \in 1 .. Len(Tail(chan[w])) : Tail(chan[w])[k] = chan[w][k + 1]
  BY <1>1
<1>3. /\ chan[w][1].kind \in {"Pause", "Resume", "Abort", "Start"}
      /\ chan[w][1].kind = "Start" => chan[w][1] \in StartCommand
  BY <1>2 DEF Command, StartCommand
<1> QED
  BY <1>1, <1>2, <1>3

\* A new run is an engine.
LEMMA RunIsEngine ==
  ASSUME TypeInv, NEW cmd \in StartCommand
  PROVE  Run(cmd) \in Engine /\ Sound(Run(cmd)) /\ Run(cmd) # NoRun
<1>1. cmd.item \in Ids /\ cmd.file \in Files /\ cmd.url \in Resources
  BY DEF StartCommand
<1>2. 0 \in 0 .. Size /\ 0 \in Resources /\ 0 \in 0 .. MaxRetries + 1
  BY Numbers
<1>3. Run(cmd) \in Engine
  BY <1>1, <1>2 DEF Run, Engine, Raced, None
<1>4. Sound(Run(cmd)) /\ Run(cmd) # NoRun
  BY DEF Run, Sound, None, NoRun
<1> QED
  BY <1>3, <1>4

-----------------------------------------------------------------------------
(* The steps of a worker have that effect.                                 *)

LEMMA SameServer ==
  ASSUME TypeInv, UNCHANGED <<offs, fate>>
  PROVE  ServerEffect
BY Numbers DEF TypeInv, TypeOK, ServerEffect

LEMMA TakeCommandEffect ==
  ASSUME TypeInv, NEW w \in Workers, TakeCommand(w)
  PROVE  Effect(w)
<1>1. /\ ~Running(w) /\ eng[w] = NoRun /\ chan[w] # << >>
      /\ chan' = [chan EXCEPT ![w] = Tail(@)]
      /\ eng' = [eng EXCEPT ![w] = IF chan[w][1].kind = "Start" THEN Run(chan[w][1]) ELSE NoRun]
      /\ poll' = After(w) /\ UNCHANGED <<queue, user, disk, offs, done>>
      /\ SetFate(IF chan[w][1].kind = "Abort" THEN failed[w] ELSE None, "dropped")
  BY Channel DEF TakeCommand, Running, Pop
<1>2. st' = [st EXCEPT ![w] =
               IF chan[w][1].kind = "Abort" THEN "Idle"
               ELSE IF chan[w][1].kind = "Pause" /\ st[w] = "Uploading" THEN "Paused"
               ELSE IF chan[w][1].kind = "Resume" /\ st[w] = "Paused" THEN "Uploading"
               ELSE st[w]]
  BY <1>1, Channel DEF TakeCommand
<1>3. /\ DOMAIN eng = Workers /\ DOMAIN st = Workers /\ DOMAIN chan = Workers
      /\ st[w] \in Ended \cup {"Uploading", "Paused"} /\ done \subseteq Ids
  BY DEF TypeInv, TypeOK
<1>4. /\ eng'[w] = IF chan[w][1].kind = "Start" THEN Run(chan[w][1]) ELSE NoRun
      /\ chan'[w] = Tail(chan[w])
      /\ st'[w] = IF chan[w][1].kind = "Abort" THEN "Idle"
                  ELSE IF chan[w][1].kind = "Pause" /\ st[w] = "Uploading" THEN "Paused"
                  ELSE IF chan[w][1].kind = "Resume" /\ st[w] = "Paused" THEN "Uploading"
                  ELSE st[w]
  BY <1>1, <1>2, <1>3
<1>5. Alone(w)
  BY <1>1, <1>2, <1>3, <1>4 DEF Alone, After
<1>6. EngineEffect(w)
  BY <1>1, <1>4 DEF EngineEffect, Took, Begins
<1>10. /\ fate' \in [DOMAIN offs -> {"open", "error", "dropped", "aborted", "done"}]
       /\ \A r \in DOMAIN offs : fate'[r] \in {fate[r], "dropped"}
  <2>1. /\ fate \in [DOMAIN offs -> {"open", "error", "dropped", "aborted", "done"}]
        /\ failed[w] \in Resources
    BY DEF TypeInv, TypeOK
  <2>2. CASE fate' = fate
    BY <2>1, <2>2
  <2>3. CASE failed[w] # None /\ fate' = [fate EXCEPT ![failed[w]] = "dropped"]
    <3>1. failed[w] \in DOMAIN offs
      BY <2>1, <2>3, Numbers DEF None
    <3> QED
      BY <2>1, <2>3, <3>1
  <2> QED
    BY <1>1, <2>2, <2>3 DEF SetFate
<1>7. ServerEffect
  BY <1>1, <1>10, Numbers DEF ServerEffect, TypeInv, TypeOK
<1>8. DiskEffect(w)
  BY <1>1, <1>10 DEF DiskEffect
<1>9. StatusEffect(w)
  BY <1>1, <1>3, <1>4 DEF StatusEffect, Took, GoesOn, Begins, Ended
<1> QED
  BY <1>5, <1>6, <1>7, <1>8, <1>9 DEF Effect

\* A run that ends with an error leaves its entry or drops it.
LEMMA FailEffect ==
  ASSUME TypeInv, NEW w \in Workers, Running(w), Fail(w),
         offs' \in Seq(0 .. Size), Len(offs') = Len(offs),
         \A r \in DOMAIN offs : offs[r] <= offs'[r],
         disk' = disk \/ Forget(eng[w].file), UNCHANGED <<queue, user, done>>
  PROVE  Effect(w)
<1>1. /\ st' = [st EXCEPT ![w] = "Error"] /\ eng' = [eng EXCEPT ![w] = NoRun]
      /\ poll' \in Workers \cup {0} /\ chan' = chan
      /\ fate' = IF eng[w].res = None THEN fate ELSE [fate EXCEPT ![eng[w].res] = "error"]
  BY DEF Fail, Return, SetFate
<1>2. /\ DOMAIN eng = Workers /\ DOMAIN st = Workers /\ DOMAIN chan = Workers
      /\ chan = [v \in Workers |-> chan[v]]
      /\ done \subseteq Ids /\ fate \in [DOMAIN offs -> {"open", "error", "dropped", "aborted", "done"}]
  BY DEF TypeInv, TypeOK
<1>3. /\ eng'[w] = NoRun /\ st'[w] = "Error" /\ chan'[w] = chan[w]
  BY <1>1, <1>2
<1>4. DOMAIN offs' = DOMAIN offs /\ eng[w].res \in {None} \cup DOMAIN offs
  BY Numbers, EngineFields DEF Running, None
<1>5. Alone(w)
  <2>1. chan' = [chan EXCEPT ![w] = chan'[w]]
    BY <1>1, <1>2
  <2> QED
    BY <1>1, <1>2, <1>3, <2>1 DEF Alone
<1>6. EngineEffect(w)
  BY <1>3 DEF EngineEffect
<1>7. /\ fate' \in [DOMAIN offs' -> {"open", "error", "dropped", "aborted", "done"}]
      /\ \A r \in DOMAIN offs : fate'[r] \in {fate[r], "error"}
  BY <1>1, <1>2, <1>4
<1>8. ServerEffect
  BY <1>7 DEF ServerEffect
<1>9. DiskEffect(w)
  BY <1>7 DEF DiskEffect, Forgets, Forget
<1>10. StatusEffect(w)
  <2>1. eng'[w].pc = "idle"
    BY <1>3 DEF NoRun
  <2>2. ~GoesOn(w)
    <3>1. ASSUME eng'[w] \in Engine' PROVE FALSE
      <4>1. eng'[w].pc \in Raced \cup {"loop", "patch"}
        BY <3>1 DEF Engine
      <4> QED
        BY <2>1, <4>1 DEF Raced
    <3> QED
      BY <3>1 DEF GoesOn
  <2>3. ~Begins(w)
    BY <2>1 DEF Begins, Run
  <2> QED
    BY <1>2, <1>3, <2>2, <2>3 DEF StatusEffect, Ended
<1> QED
  BY <1>5, <1>6, <1>8, <1>9, <1>10 DEF Effect

\* A run that goes on.
LEMMA GoesOnEffect ==
  ASSUME TypeInv, NEW w \in Workers, GoesOn(w),
         eng' = [eng EXCEPT ![w] = eng'[w]], st' = [st EXCEPT ![w] = st'[w]],
         chan' = [chan EXCEPT ![w] = chan'[w]], poll' \in Workers \cup {0},
         st'[w] \in {st[w], "Uploading", "Paused"},
         Took(w) \/ chan'[w] = chan[w],
         ServerEffect, DiskEffect(w), UNCHANGED <<queue, user, done>>
  PROVE  Effect(w)
<1>1. Alone(w)
  BY DEF Alone
<1>2. EngineEffect(w)
  BY DEF EngineEffect, GoesOn
<1>3. StatusEffect(w)
  <2>1. st[w] \in Ended \cup {"Uploading", "Paused"} /\ done \subseteq Ids
    BY DEF TypeInv, TypeOK
  <2> QED
    BY <2>1 DEF StatusEffect, GoesOn
<1> QED
  BY <1>1, <1>2, <1>3 DEF Effect

\* The chunk loop is entered with a resource and its offset.
LEMMA EnterLoopEffect ==
  ASSUME TypeInv, NEW w \in Workers, Running(w), NEW r \in DOMAIN offs', NEW k \in 0 .. Size,
         EnterLoop(w, r, k), poll' = w, UNCHANGED chan, ServerEffect,
         k <= offs'[r],
         r = eng[w].url \/ (Len(offs') = Len(offs) + 1 /\ r = Len(offs')),
         fate'[r] = "open", \A s \in DOMAIN offs : fate'[s] \in {fate[s], "open"},
         UNCHANGED <<queue, user, done>>
  PROVE  Effect(w)
<1>1. /\ eng' = [eng EXCEPT ![w].pc = "loop", ![w].res = r, ![w].offset = k]
      /\ st' = [st EXCEPT ![w] = IF eng[w].paused THEN "Paused" ELSE "Uploading"]
      /\ disk' = [disk EXCEPT ![eng[w].file] = r]
  BY DEF EnterLoop, Persist
<1>2. /\ DOMAIN eng = Workers /\ DOMAIN st = Workers /\ chan = [v \in Workers |-> chan[v]]
  BY DEF TypeInv, TypeOK
<1>3. eng'[w] = [eng[w] EXCEPT !.pc = "loop", !.res = r, !.offset = k]
  BY <1>1, <1>2
<1>4. eng[w] \in Engine /\ eng[w] \in Engine' /\ Sound(eng[w])
  <2>1. Len(offs) <= Len(offs')
    BY Numbers DEF ServerEffect
  <2>2. offs \in Seq(0 .. Size)
    BY DEF TypeInv, TypeOK
  <2>3. Engine \subseteq Engine'
    BY <2>1, <2>2, Grow DEF ServerEffect
  <2> QED
    BY <2>3, EngineFields DEF Running
<1>5. r \in Resources' /\ r # None
  BY DEF ServerEffect, Resources, None
<1>6. /\ eng'[w] \in Engine' /\ eng'[w].pc = "loop" /\ eng'[w].res = r /\ eng'[w].offset = k
      /\ eng'[w].item = eng[w].item /\ eng'[w].file = eng[w].file /\ eng'[w].url = eng[w].url
  <2>1. eng'[w] = [pc |-> "loop", item |-> eng[w].item, file |-> eng[w].file,
                   url |-> eng[w].url, res |-> r, offset |-> k,
                   paused |-> eng[w].paused, attempt |-> eng[w].attempt]
    BY <1>3, <1>4 DEF Engine
  <2>2. /\ eng[w].item \in Ids /\ eng[w].file \in Files /\ eng[w].url \in Resources'
        /\ eng[w].paused \in BOOLEAN /\ eng[w].attempt \in 0 .. MaxRetries + 1
    BY <1>4 DEF Engine
  <2>3. eng'[w] \in Engine'
    BY <1>5, <2>1, <2>2 DEF Engine
  <2> QED
    BY <2>1, <2>3
<1>7. Sound(eng[w])'
  BY <1>5, <1>6 DEF Sound
<1>8. GoesOn(w)
  BY <1>6, <1>7 DEF GoesOn
<1>9. DiskEffect(w)
  BY <1>1, <1>5, <1>6, <1>8 DEF DiskEffect, Saves
<1>10. eng' = [eng EXCEPT ![w] = eng'[w]] /\ st' = [st EXCEPT ![w] = st'[w]]
  BY <1>1, <1>2
<1>11. chan' = [chan EXCEPT ![w] = chan'[w]] /\ st'[w] \in {"Uploading", "Paused"}
  BY <1>1, <1>2
<1> QED
  BY <1>8, <1>9, <1>10, <1>11, GoesOnEffect

LEMMA CreateEffect ==
  ASSUME TypeInv, NEW w \in Workers, Create(w)
  PROVE  Effect(w)
<1>1. Running(w) /\ poll = 0
  BY NoRunIdle DEF Create, Running
<1>2. CASE Fail(w) /\ UNCHANGED <<disk, offs>>
  <2>1. offs \in Seq(0 .. Size) /\ UNCHANGED <<queue, user, done>>
        /\ \A r \in DOMAIN offs : offs[r] <= offs'[r]
    BY <1>2, Numbers DEF TypeInv, TypeOK, Create
  <2> QED
    BY <1>1, <1>2, <2>1, FailEffect
<1>3. ASSUME NEW k \in 0 .. Size, offs' = Append(offs, k), fate' = Append(fate, "open"),
             EnterLoop(w, Len(offs) + 1, k), poll' = w, UNCHANGED chan
      PROVE  Effect(w)
  <2> DEFINE Fates == {"open", "error", "dropped", "aborted", "done"}
  <2>1. /\ offs \in Seq(0 .. Size) /\ fate \in [1 .. Len(offs) -> Fates] /\ Len(offs) \in Nat
    BY Numbers DEF TypeInv, TypeOK
  <2>2. fate \in Seq(Fates) /\ Len(fate) = Len(offs)
    BY <2>1
  <2> HIDE DEF Fates
  <2>3. /\ offs' \in Seq(0 .. Size) /\ Len(offs') = Len(offs) + 1
        /\ offs'[Len(offs) + 1] = k /\ \A r \in 1 .. Len(offs) : offs'[r] = offs[r]
    BY <1>3, <2>1
  <2>4. /\ fate' \in Seq(Fates) /\ Len(fate') = Len(offs) + 1
        /\ fate'[Len(offs) + 1] = "open" /\ \A r \in 1 .. Len(offs) : fate'[r] = fate[r]
    BY <1>3, <2>2, <2>1 DEF Fates
  <2>5. DOMAIN offs = 1 .. Len(offs) /\ DOMAIN offs' = 1 .. Len(offs) + 1
    BY <2>1, <2>3
  <2>6. fate' \in [DOMAIN offs' -> Fates]
    BY <2>4, <2>5
  <2>7. \A r \in DOMAIN offs : offs[r] <= offs'[r]
    BY <2>3, <2>5, Numbers
  <2>8. ServerEffect
    BY <2>3, <2>6, <2>7 DEF ServerEffect, Fates
  <2>9. Len(offs) + 1 \in DOMAIN offs' /\ UNCHANGED <<queue, user, done>>
    BY <2>1, <2>5 DEF Create
  <2>10. Len(offs) + 1 = Len(offs') /\ k <= offs'[Len(offs) + 1]
    BY <2>3
  <2> QED
    BY <1>1, <1>3, <2>4, <2>5, <2>8, <2>9, <2>10, EnterLoopEffect
<1> QED
  BY <1>2, <1>3 DEF Create

LEMMA ProbeEffect ==
  ASSUME TypeInv, NEW w \in Workers, Probe(w)
  PROVE  Effect(w)
<1>1. /\ Running(w) /\ poll = 0 /\ UNCHANGED <<queue, user, done, offs>>
      /\ eng[w].pc = "pre" /\ eng[w].url # None
  BY NoRunIdle DEF Probe, Running
<1>2. eng[w].url \in DOMAIN offs /\ eng[w].res = None
  BY <1>1, EngineFields, Numbers DEF Running, Sound, None
<1>3. offs' \in Seq(0 .. Size) /\ \A r \in DOMAIN offs : offs[r] <= offs'[r]
  BY <1>1, Numbers DEF TypeInv, TypeOK
<1>4. CASE Fail(w) /\ (UNCHANGED disk \/ Forget(eng[w].file))
  BY <1>1, <1>3, <1>4, FailEffect
<1>5. ASSUME EnterLoop(w, eng[w].url, offs[eng[w].url]), SetFate(eng[w].url, "open"),
             poll' = w, UNCHANGED chan
      PROVE  Effect(w)
  <2>1. fate \in [DOMAIN offs -> {"open", "error", "dropped", "aborted", "done"}]
    BY DEF TypeInv, TypeOK
  <2>2. fate' = [fate EXCEPT ![eng[w].url] = "open"]
    BY <1>1, <1>5 DEF SetFate
  <2>3. ServerEffect
    BY <1>1, <1>2, <1>3, <2>1, <2>2 DEF ServerEffect
  <2>4. /\ eng[w].url \in DOMAIN offs' /\ offs[eng[w].url] \in 0 .. Size
        /\ offs[eng[w].url] <= offs'[eng[w].url]
        /\ fate'[eng[w].url] = "open" /\ \A s \in DOMAIN offs : fate'[s] \in {fate[s], "open"}
    BY <1>1, <1>2, <2>1, <2>2, Numbers
  <2> QED
    BY <1>1, <1>5, <2>3, <2>4, EnterLoopEffect
<1> QED
  BY <1>4, <1>5 DEF Probe

\* Abort, or another Start, at an await that races the channel.
LEMMA StopEffect ==
  ASSUME TypeInv, NEW w \in Workers, Running(w), chan[w] # << >>, Pop(w), Stopped(w),
         chan[w][1].kind \in {"Abort", "Start"},
         eng' = [eng EXCEPT ![w] = IF chan[w][1].kind = "Start" THEN Run(chan[w][1]) ELSE NoRun],
         poll' \in Workers \cup {0}, UNCHANGED <<queue, user, offs, done>>
  PROVE  Effect(w)
<1> DEFINE r == IF eng[w].res # None THEN eng[w].res ELSE eng[w].url
<1>1. /\ st' = [st EXCEPT ![w] = "Idle"] /\ chan' = [chan EXCEPT ![w] = Tail(@)]
      /\ fate' = IF r = None THEN fate ELSE [fate EXCEPT ![r] = "aborted"]
      /\ IF eng[w].pc = "pre" /\ eng[w].url = None THEN UNCHANGED disk ELSE Forget(eng[w].file)
  BY DEF Stopped, SetFate, Pop, Target
<1>2. /\ DOMAIN eng = Workers /\ DOMAIN st = Workers /\ DOMAIN chan = Workers
      /\ done \subseteq Ids /\ fate \in [DOMAIN offs -> {"open", "error", "dropped", "aborted", "done"}]
  BY DEF TypeInv, TypeOK
<1>3. /\ eng'[w] = IF chan[w][1].kind = "Start" THEN Run(chan[w][1]) ELSE NoRun
      /\ st'[w] = "Idle" /\ chan'[w] = Tail(chan[w])
  BY <1>1, <1>2
<1>4. Alone(w)
  BY <1>1, <1>2, <1>3 DEF Alone
<1>5. EngineEffect(w)
  BY <1>3 DEF EngineEffect, Took, Begins
<1>6. r \in {None} \cup DOMAIN offs /\ r \in {eng[w].res, eng[w].url}
  BY Numbers, EngineFields DEF Running, None
<1>7. r # None => Forgets(w)
  BY <1>1, EngineFields DEF Forgets, Forget, Running, Sound
<1>8. disk' = disk \/ Forgets(w)
  BY <1>1 DEF Forgets, Forget
<1>9. /\ fate' \in [DOMAIN offs' -> {"open", "error", "dropped", "aborted", "done"}]
      /\ \A s \in DOMAIN offs : fate'[s] = fate[s] \/ (s = r /\ r # None)
  <2>1. CASE r = None
    BY <1>1, <1>2, <2>1
  <2>2. CASE r # None
    <3>1. r \in DOMAIN offs /\ fate' = [fate EXCEPT ![r] = "aborted"]
      BY <1>1, <1>6, <2>2
    <3> HIDE DEF r
    <3> QED
      BY <1>2, <2>2, <3>1
  <2> QED
    BY <2>1, <2>2
<1>10. ServerEffect
  <2>1. /\ offs' \in Seq(0 .. Size) /\ Len(offs') = Len(offs)
        /\ \A s \in DOMAIN offs : offs[s] <= offs'[s]
    BY Numbers DEF TypeInv, TypeOK
  <2> QED
    BY <1>9, <2>1 DEF ServerEffect
<1>11. DiskEffect(w)
  BY <1>6, <1>7, <1>8, <1>9 DEF DiskEffect
<1>12. StatusEffect(w)
  <2>1. chan[w][1].kind = "Start" => Begins(w)
    BY <1>3 DEF Begins, Took
  <2>2. ASSUME chan[w][1].kind # "Start", eng'[w] \in Engine'
        PROVE  FALSE
    <3>1. eng'[w].pc = "idle"
      BY <1>3, <2>2 DEF NoRun
    <3>2. eng'[w].pc \in Raced \cup {"loop", "patch"}
      BY <2>2 DEF Engine
    <3> QED
      BY <3>1, <3>2 DEF Raced
  <2>3. ~GoesOn(w) \/ Begins(w)
    BY <2>1, <2>2 DEF GoesOn
  <2> QED
    BY <1>2, <1>3, <2>3 DEF StatusEffect, Took, Ended
<1> QED
  BY <1>4, <1>5, <1>10, <1>11, <1>12 DEF Effect

\* Where a command leads, an engine can be.
LEMMA OnwardSound ==
  ASSUME TypeInv, NEW w \in Workers, Running(w), eng[w].pc \in Raced \cup {"loop"},
         eng[w].pc = "loop" => eng[w].offset < Size, NEW kind \in {"Pause", "Resume"}
  PROVE  LET to == Onward(eng[w].pc, kind)
         IN  /\ to \in {"pre", "loop", "paused", "patch", "recover"}
             /\ to = "pre" <=> eng[w].pc = "pre"
             /\ to \notin {"pre", "loop"} => eng[w].offset < Size
             /\ to = "recover" => eng[w].attempt <= MaxRetries
BY EngineFields DEF Running, Onward, Raced, Sound

LEMMA ReactEffect ==
  ASSUME TypeInv, NEW w \in Workers, Running(w), chan[w] # << >>, React(w),
         eng[w].pc \in Raced \cup {"loop"}, eng[w].pc = "loop" => eng[w].offset < Size,
         UNCHANGED <<queue, user, offs, done>>
  PROVE  Effect(w)
<1> DEFINE kind == chan[w][1].kind
           to == Onward(eng[w].pc, kind)
<1>1. Head(chan[w]) = chan[w][1] /\ Pop(w)
  BY Channel DEF React
<1>2. CASE /\ kind \in {"Abort", "Start"} /\ Stopped(w) /\ poll' = After(w)
           /\ eng' = [eng EXCEPT ![w] = IF kind = "Start" THEN Run(chan[w][1]) ELSE NoRun]
  BY <1>1, <1>2, StopEffect DEF After
<1>3. CASE /\ kind \in {"Pause", "Resume"}
           /\ eng' = [eng EXCEPT ![w].pc = to, ![w].paused = kind = "Pause",
                             ![w].attempt = IF eng[w].pc = "loop" THEN 0 ELSE @]
           /\ st' = IF eng[w].pc = "pre" THEN st
                    ELSE [st EXCEPT ![w] = IF kind = "Pause" THEN "Paused" ELSE "Uploading"]
           /\ poll' = IF to = "loop" THEN w ELSE IF to = "patch" THEN 0 ELSE After(w)
           /\ UNCHANGED <<disk, fate>>
  <2>1. /\ eng = [v \in Workers |-> eng[v]] /\ st = [v \in Workers |-> st[v]]
        /\ DOMAIN chan = Workers
    BY DEF TypeInv, TypeOK
  <2>2. /\ to \in {"pre", "loop", "paused", "patch", "recover"}
        /\ to = "pre" <=> eng[w].pc = "pre"
        /\ to \notin {"pre", "loop"} => eng[w].offset < Size
        /\ to = "recover" => eng[w].attempt <= MaxRetries
    BY <1>3, OnwardSound
  <2> HIDE DEF to
  <2>3. eng'[w] = [eng[w] EXCEPT !.pc = to, !.paused = kind = "Pause",
                     !.attempt = IF eng[w].pc = "loop" THEN 0 ELSE @]
    BY <1>3, <2>1
  <2>4. eng[w] \in Engine /\ Sound(eng[w]) /\ Engine' = Engine
    BY EngineFields DEF Running, Engine, Resources
  <2>5. /\ eng'[w] \in Engine /\ eng'[w].pc = to
        /\ eng'[w].item = eng[w].item /\ eng'[w].file = eng[w].file
        /\ eng'[w].url = eng[w].url /\ eng'[w].res = eng[w].res
        /\ eng'[w].offset = eng[w].offset /\ eng'[w].attempt \in {0, eng[w].attempt}
    <3> DEFINE flag == kind = "Pause"
               att == IF eng[w].pc = "loop" THEN 0 ELSE eng[w].attempt
    <3>1. flag \in BOOLEAN /\ to \in Raced \cup {"loop", "patch"}
      BY <2>2 DEF Raced
    <3>2. att \in 0 .. MaxRetries + 1 /\ att \in {0, eng[w].attempt}
      BY EngineFields, Numbers DEF Running
    <3>3. eng'[w] = [eng[w] EXCEPT !.pc = to, !.paused = flag, !.attempt = att]
      BY <2>3
    <3> HIDE DEF flag, att
    <3>4. eng'[w] = [pc |-> to, item |-> eng[w].item, file |-> eng[w].file,
                     url |-> eng[w].url, res |-> eng[w].res, offset |-> eng[w].offset,
                     paused |-> flag, attempt |-> att]
      BY <2>4, <3>3 DEF Engine
    <3>5. eng'[w] \in Engine
      BY <3>1, <3>2, <3>4, EngineFields DEF Engine, Running
    <3> QED
      BY <3>2, <3>4, <3>5
  <2>6. Sound(eng[w])'
    BY <2>2, <2>4, <2>5, Numbers DEF Sound
  <2>7. GoesOn(w)
    BY <2>4, <2>5, <2>6 DEF GoesOn
  <2>8. eng' = [eng EXCEPT ![w] = eng'[w]] /\ chan' = [chan EXCEPT ![w] = chan'[w]]
    BY <1>1, <1>3, <2>1 DEF Pop
  <2>9. st' = [st EXCEPT ![w] = st'[w]] /\ st'[w] \in {st[w], "Uploading", "Paused"}
    BY <1>3, <2>1
  <2>10. Took(w) /\ poll' \in Workers \cup {0}
    BY <1>1, <1>3, <2>1 DEF Pop, Took, After
  <2>11. ServerEffect /\ DiskEffect(w)
    BY <1>3, SameServer DEF DiskEffect
  <2> QED
    BY <2>7, <2>8, <2>9, <2>10, <2>11, GoesOnEffect
<1> QED
  BY <1>1, <1>2, <1>3 DEF React

LEMMA InterruptEffect ==
  ASSUME TypeInv, NEW w \in Workers, Interrupt(w)
  PROVE  Effect(w)
<1>1. Running(w)
  BY NoRunIdle DEF Interrupt, Running, Raced
<1> QED
  BY <1>1, ReactEffect DEF Interrupt, Raced


\* The rest of a round of the chunk loop: the resource and the offset are
\* what the server has, and at most the place and the attempt change.
LEMMA StaysSound ==
  ASSUME TypeInv, NEW w \in Workers, Running(w), ServerEffect,
         NEW pc \in Raced \cup {"loop", "patch"}, NEW offset \in 0 .. Size,
         NEW attempt \in 0 .. MaxRetries + 1,
         eng' = [eng EXCEPT ![w] = eng'[w]],
         eng'[w] = [eng[w] EXCEPT !.pc = pc, !.offset = offset, !.attempt = attempt],
         eng[w].pc # "pre", pc # "pre", offset <= offs'[eng[w].res],
         pc # "loop" => offset < Size,
         pc \in {"recover", "headBackoff"} => attempt <= MaxRetries
  PROVE  GoesOn(w) /\ eng'[w].res = eng[w].res /\ eng[w].res \in DOMAIN offs
<1>1. eng[w] \in Engine /\ eng[w] \in Engine' /\ Sound(eng[w])
  <2>1. Len(offs) <= Len(offs')
    BY Numbers DEF ServerEffect
  <2>2. offs \in Seq(0 .. Size)
    BY DEF TypeInv, TypeOK
  <2>3. Engine \subseteq Engine'
    BY <2>1, <2>2, Grow DEF ServerEffect
  <2> QED
    BY <2>3, EngineFields DEF Running
<1>2. /\ eng'[w] \in Engine' /\ eng'[w].pc = pc /\ eng'[w].offset = offset
      /\ eng'[w].attempt = attempt /\ eng'[w].res = eng[w].res
      /\ eng'[w].item = eng[w].item /\ eng'[w].file = eng[w].file /\ eng'[w].url = eng[w].url
  BY <1>1 DEF Engine
<1>3. Sound(eng[w])'
  BY <1>1, <1>2 DEF Sound
<1>4. eng[w].res \in DOMAIN offs
  BY <1>1, EngineFields, Numbers DEF Running, Sound, None
<1> QED
  BY <1>2, <1>3, <1>4 DEF GoesOn

LEMMA AdvancedEffect ==
  ASSUME TypeInv, NEW w \in Workers, Running(w), eng[w].pc \in {"patch", "recover"},
         NEW offset \in 0 .. Size, offset <= offs'[eng[w].res], Advanced(w, offset),
         offs' \in Seq(0 .. Size), Len(offs') = Len(offs),
         \A r \in DOMAIN offs : offs[r] <= offs'[r],
         UNCHANGED <<queue, user, done>>
  PROVE  Effect(w)
<1>1. /\ eng' = [eng EXCEPT ![w].pc = "loop", ![w].offset = offset]
      /\ disk' = [disk EXCEPT ![eng[w].file] = eng[w].res]
      /\ poll' = w /\ UNCHANGED <<st, chan>>
      /\ fate' = IF eng[w].res = None THEN fate ELSE [fate EXCEPT ![eng[w].res] = "open"]
  BY DEF Advanced, Persist, SetFate
<1>2. /\ eng = [v \in Workers |-> eng[v]] /\ st = [v \in Workers |-> st[v]]
      /\ chan = [v \in Workers |-> chan[v]]
      /\ fate \in [DOMAIN offs -> {"open", "error", "dropped", "aborted", "done"}]
  BY DEF TypeInv, TypeOK
<1>3. eng'[w] = [eng[w] EXCEPT !.pc = "loop", !.offset = offset, !.attempt = eng[w].attempt]
  <2>1. eng'[w] = [eng[w] EXCEPT !.pc = "loop", !.offset = offset]
    BY <1>1, <1>2
  <2>2. eng[w] \in Engine
    BY EngineFields DEF Running
  <2> QED
    BY <2>1, <2>2 DEF Engine
<1>4. /\ eng' = [eng EXCEPT ![w] = eng'[w]] /\ st' = [st EXCEPT ![w] = st'[w]]
      /\ chan' = [chan EXCEPT ![w] = chan'[w]]
  BY <1>1, <1>2
<1>5. eng[w].res \in DOMAIN offs /\ eng[w].res # None /\ eng[w].attempt \in 0 .. MaxRetries + 1
  BY EngineFields, Numbers DEF Running, Sound, None
<1>6. DOMAIN offs' = DOMAIN offs
  BY Numbers
<1>7. /\ fate' \in [DOMAIN offs' -> {"open", "error", "dropped", "aborted", "done"}]
      /\ \A r \in DOMAIN offs : fate'[r] \in {fate[r], "open"}
      /\ fate'[eng[w].res] = "open"
  BY <1>1, <1>2, <1>5, <1>6
<1>8. ServerEffect
  BY <1>7 DEF ServerEffect
<1>9. GoesOn(w) /\ eng'[w].res = eng[w].res
  <2>1. "loop" \in Raced \cup {"loop", "patch"} /\ eng[w].pc # "pre"
    OBVIOUS
  <2> QED
    BY <1>3, <1>4, <1>5, <1>8, <2>1, StaysSound
<1>10. DiskEffect(w)
  BY <1>1, <1>5, <1>7, <1>9 DEF DiskEffect, Saves
<1> QED
  BY <1>1, <1>4, <1>8, <1>9, <1>10, GoesOnEffect

LEMMA WaitEffect ==
  ASSUME TypeInv, NEW w \in Workers, Running(w), eng[w].pc \notin {"pre", "loop"},
         NEW pc \in {"recover", "backoff", "headBackoff", "patch"},
         NEW attempt \in 0 .. MaxRetries + 1, Wait(w, pc, attempt),
         pc \in {"recover", "headBackoff"} => attempt <= MaxRetries,
         offs' \in Seq(0 .. Size), Len(offs') = Len(offs),
         \A r \in DOMAIN offs : offs[r] <= offs'[r],
         UNCHANGED <<queue, user, done>>
  PROVE  Effect(w)
<1>1. /\ eng' = [eng EXCEPT ![w].pc = pc, ![w].attempt = attempt]
      /\ poll' \in {0, w} /\ UNCHANGED <<st, chan, fate, disk>>
  BY DEF Wait
<1>2. /\ eng = [v \in Workers |-> eng[v]] /\ st = [v \in Workers |-> st[v]]
      /\ chan = [v \in Workers |-> chan[v]]
      /\ fate \in [DOMAIN offs -> {"open", "error", "dropped", "aborted", "done"}]
  BY DEF TypeInv, TypeOK
<1>3. /\ eng[w] \in Engine /\ Sound(eng[w]) /\ eng[w].offset \in 0 .. Size
      /\ eng[w].offset < Size
  BY EngineFields DEF Running, Sound
<1>4. eng'[w] = [eng[w] EXCEPT !.pc = pc, !.offset = eng[w].offset, !.attempt = attempt]
  <2>1. eng'[w] = [eng[w] EXCEPT !.pc = pc, !.attempt = attempt]
    BY <1>1, <1>2
  <2> QED
    BY <2>1, <1>3 DEF Engine
<1>5. /\ eng' = [eng EXCEPT ![w] = eng'[w]] /\ st' = [st EXCEPT ![w] = st'[w]]
      /\ chan' = [chan EXCEPT ![w] = chan'[w]]
  BY <1>1, <1>2
<1>6. DOMAIN offs' = DOMAIN offs
  BY Numbers
<1>7. ServerEffect
  BY <1>1, <1>2, <1>6 DEF ServerEffect
<1>8. eng[w].res \in DOMAIN offs
  BY <1>3, EngineFields, Numbers DEF Running, Sound, None
<1>9. eng[w].offset <= offs[eng[w].res] /\ offs[eng[w].res] <= offs'[eng[w].res]
  BY <1>3, <1>8 DEF Sound
<1>10. eng[w].offset <= offs'[eng[w].res]
  <2>1. offs[eng[w].res] \in 0 .. Size
    BY <1>8, Numbers
  <2>2. offs'[eng[w].res] \in 0 .. Size
    BY <1>6, <1>8, Elements
  <2> QED
    BY <1>3, <1>9, <2>1, <2>2, Through
<1>11. GoesOn(w)
  <2>1. pc \in Raced \cup {"loop", "patch"} /\ pc # "pre" /\ eng[w].pc # "pre"
    BY DEF Raced
  <2> QED
    BY <1>3, <1>4, <1>5, <1>7, <1>10, <2>1, StaysSound
<1>12. DiskEffect(w)
  BY <1>1 DEF DiskEffect
<1> QED
  BY <1>1, <1>5, <1>7, <1>11, <1>12, GoesOnEffect

\* What a PATCH does on the server.
LEMMA StoresEffect ==
  ASSUME TypeInv, NEW w \in Workers, Running(w), eng[w].pc = "patch",
         Stores(eng[w]) \/ UNCHANGED offs
  PROVE  /\ offs' \in Seq(0 .. Size) /\ Len(offs') = Len(offs)
         /\ \A r \in DOMAIN offs : offs[r] <= offs'[r]
         /\ Stores(eng[w]) => /\ eng[w].offset + 1 \in 0 .. Size
                              /\ eng[w].offset + 1 <= offs'[eng[w].res]
<1>1. offs \in Seq(0 .. Size) /\ Size \in Nat
  BY Numbers DEF TypeInv, TypeOK
<1>2. eng[w].res \in DOMAIN offs /\ eng[w].offset \in 0 .. Size /\ eng[w].offset < Size
  BY EngineFields, Numbers DEF Running, Sound, None
<1>3. CASE Stores(eng[w])
  <2>1. offs[eng[w].res] = eng[w].offset /\ offs' = [offs EXCEPT ![eng[w].res] = eng[w].offset + 1]
    BY <1>3 DEF Stores
  <2>2. eng[w].offset + 1 \in 0 .. Size
    BY <1>1, <1>2
  <2>3. offs' \in Seq(0 .. Size) /\ Len(offs') = Len(offs)
    BY <1>1, <1>2, <2>1, <2>2
  <2>4. \A r \in DOMAIN offs : offs'[r] = IF r = eng[w].res THEN eng[w].offset + 1 ELSE offs[r]
    BY <1>1, <1>2, <2>1
  <2>5. \A r \in DOMAIN offs : offs[r] <= offs'[r]
    <3>1. \A r \in DOMAIN offs : offs[r] \in 0 .. Size
      BY Numbers
    <3> QED
      BY <1>1, <1>2, <2>1, <2>4, <3>1
  <2>6. offs'[eng[w].res] = eng[w].offset + 1
    BY <1>2, <2>4
  <2> QED
    BY <1>1, <2>2, <2>3, <2>5, <2>6
<1>4. CASE UNCHANGED offs /\ ~Stores(eng[w])
  BY <1>1, <1>4, Numbers
<1> QED
  BY <1>3, <1>4

LEMMA PatchEffect ==
  ASSUME TypeInv, NEW w \in Workers, Patch(w)
  PROVE  Effect(w)
<1>1. Running(w) /\ eng[w].pc = "patch" /\ UNCHANGED <<queue, user, done>>
  BY NoRunIdle DEF Patch, Running
<1>2. eng[w].attempt \in 0 .. MaxRetries + 1 /\ MaxRetries \in Nat
  BY <1>1, EngineFields, Numbers DEF Running
<1>3. CASE Stores(eng[w]) /\ Advanced(w, eng[w].offset + 1)
  BY <1>1, <1>3, StoresEffect, AdvancedEffect
<1>4. ASSUME Stores(eng[w]) \/ UNCHANGED offs,
             eng[w].attempt < MaxRetries, Wait(w, "recover", eng[w].attempt)
      PROVE  Effect(w)
  <2>1. eng[w].attempt <= MaxRetries
    BY <1>2, <1>4
  <2> QED
    BY <1>1, <1>2, <1>4, <2>1, StoresEffect, WaitEffect
<1>5. ASSUME Stores(eng[w]) \/ UNCHANGED offs, Fail(w), UNCHANGED disk
      PROVE  Effect(w)
  BY <1>1, <1>5, StoresEffect, FailEffect
<1> QED
  BY <1>3, <1>4, <1>5 DEF Patch

LEMMA RecoverEffect ==
  ASSUME TypeInv, NEW w \in Workers, Recover(w)
  PROVE  Effect(w)
<1>1. Running(w) /\ eng[w].pc = "recover" /\ UNCHANGED <<queue, user, offs, done>>
  BY NoRunIdle DEF Recover, Running
<1>2. /\ eng[w].attempt \in 0 .. MaxRetries /\ MaxRetries \in Nat
      /\ eng[w].res \in DOMAIN offs
  BY <1>1, EngineFields, Numbers DEF Running, Sound, None
<1>3. /\ offs' \in Seq(0 .. Size) /\ Len(offs') = Len(offs)
      /\ \A r \in DOMAIN offs : offs[r] <= offs'[r] /\ offs[r] \in 0 .. Size
  BY <1>1, Numbers DEF TypeInv, TypeOK
<1>4. CASE Advanced(w, offs[eng[w].res])
  <2>1. offs[eng[w].res] \in 0 .. Size /\ offs[eng[w].res] <= offs'[eng[w].res]
    BY <1>2, <1>3
  <2> QED
    BY <1>1, <1>3, <1>4, <2>1, AdvancedEffect
<1>5. CASE Wait(w, "backoff", eng[w].attempt + 1)
  <2>1. eng[w].attempt + 1 \in 0 .. MaxRetries + 1
    BY <1>2
  <2> QED
    BY <1>1, <1>3, <1>5, <2>1, WaitEffect
<1>6. CASE eng[w].attempt < MaxRetries /\ Wait(w, "headBackoff", eng[w].attempt + 1)
  <2>1. eng[w].attempt + 1 \in 0 .. MaxRetries + 1 /\ eng[w].attempt + 1 <= MaxRetries
    BY <1>2, <1>6
  <2> QED
    BY <1>1, <1>3, <1>6, <2>1, WaitEffect
<1>7. CASE Fail(w) /\ UNCHANGED disk
  BY <1>1, <1>3, <1>7, FailEffect
<1> QED
  BY <1>4, <1>5, <1>6, <1>7 DEF Recover

LEMMA BackoffEndsEffect ==
  ASSUME TypeInv, NEW w \in Workers, BackoffEnds(w)
  PROVE  Effect(w)
<1>1. /\ Running(w) /\ eng[w].pc \in {"backoff", "headBackoff"}
      /\ UNCHANGED <<queue, user, offs, done>>
  BY NoRunIdle DEF BackoffEnds, Running
<1>2. /\ eng[w].attempt \in 0 .. MaxRetries + 1
      /\ eng[w].pc = "headBackoff" => eng[w].attempt <= MaxRetries
  BY <1>1, EngineFields DEF Running, Sound
<1>3. /\ offs' \in Seq(0 .. Size) /\ Len(offs') = Len(offs)
      /\ \A r \in DOMAIN offs : offs[r] <= offs'[r]
  BY <1>1, Numbers DEF TypeInv, TypeOK
<1>4. CASE eng[w].pc = "backoff"
  <2>1. Wait(w, "patch", eng[w].attempt)
    BY <1>4 DEF BackoffEnds
  <2> QED
    BY <1>1, <1>2, <1>3, <2>1, WaitEffect
<1>5. CASE eng[w].pc = "headBackoff"
  <2>1. Wait(w, "recover", eng[w].attempt)
    BY <1>5 DEF BackoffEnds
  <2> QED
    BY <1>1, <1>2, <1>3, <1>5, <2>1, WaitEffect
<1> QED
  BY <1>1, <1>4, <1>5

LEMMA LoopTopEffect ==
  ASSUME TypeInv, NEW w \in Workers, LoopTop(w)
  PROVE  Effect(w)
<1>1. /\ Running(w) /\ eng[w].pc = "loop" /\ UNCHANGED <<queue, user, offs>>
  BY NoRunIdle DEF LoopTop, Running
<1>2. /\ eng[w] \in Engine /\ Sound(eng[w]) /\ eng[w].res \in DOMAIN offs /\ eng[w].res # None
      /\ eng[w].offset \in 0 .. Size /\ eng[w].offset <= offs[eng[w].res]
      /\ eng[w].item \in Ids
  BY <1>1, EngineFields, Numbers DEF Running, Sound, None
<1>3. /\ eng = [v \in Workers |-> eng[v]] /\ st = [v \in Workers |-> st[v]]
      /\ chan = [v \in Workers |-> chan[v]] /\ done \subseteq Ids
      /\ fate \in [DOMAIN offs -> {"open", "error", "dropped", "aborted", "done"}]
  BY DEF TypeInv, TypeOK
<1>4. ASSUME eng[w].offset = Size, Return(w, "Complete"), Forget(eng[w].file),
             SetFate(eng[w].res, "done"),
             done' = IF offs[eng[w].res] = Size THEN done \cup {eng[w].item} ELSE done
      PROVE  Effect(w)
  <2>1. done' = done \cup {eng[w].item}
    <3>1. offs[eng[w].res] \in 0 .. Size
      BY <1>2, Numbers
    <3> QED
      BY <1>2, <1>4, <3>1, Numbers
  <2>2. /\ st' = [st EXCEPT ![w] = "Complete"] /\ eng' = [eng EXCEPT ![w] = NoRun]
        /\ poll' \in Workers \cup {0} /\ chan' = chan
        /\ fate' = [fate EXCEPT ![eng[w].res] = "done"]
    BY <1>2, <1>4 DEF Return, SetFate
  <2>3. eng'[w] = NoRun /\ st'[w] = "Complete" /\ chan'[w] = chan[w]
    BY <1>3, <2>2
  <2>4. Alone(w)
    <3>1. chan' = [chan EXCEPT ![w] = chan'[w]]
      BY <1>3, <2>2
    <3>2. st' = [st EXCEPT ![w] = st'[w]] /\ eng' = [eng EXCEPT ![w] = eng'[w]]
      BY <2>2, <2>3
    <3> QED
      BY <1>1, <2>2, <3>1, <3>2 DEF Alone
  <2>5. EngineEffect(w)
    BY <1>1, <2>3 DEF EngineEffect
  <2>6. /\ fate' \in [DOMAIN offs' -> {"open", "error", "dropped", "aborted", "done"}]
        /\ \A r \in DOMAIN offs : fate'[r] = fate[r] \/ r = eng[w].res
    BY <1>1, <1>2, <1>3, <2>2
  <2>7. ServerEffect
    BY <1>1, <2>6, Numbers DEF ServerEffect, TypeInv, TypeOK
  <2>8. DiskEffect(w)
    BY <1>1, <1>4, <2>6 DEF DiskEffect, Forgets, Forget
  <2>9. ~GoesOn(w) /\ ~Begins(w)
    <3>1. eng'[w].pc = "idle"
      BY <2>3 DEF NoRun
    <3>2. ASSUME eng'[w] \in Engine' PROVE FALSE
      <4>1. eng'[w].pc \in Raced \cup {"loop", "patch"}
        BY <3>2 DEF Engine
      <4> QED
        BY <3>1, <4>1 DEF Raced
    <3>3. ASSUME eng'[w] = Run(chan[w][1]) PROVE FALSE
      BY <3>1, <3>3 DEF Run
    <3> QED
      BY <3>2, <3>3 DEF GoesOn, Begins
  <2>10. StatusEffect(w)
    BY <1>1, <1>2, <1>3, <2>1, <2>3, <2>9 DEF StatusEffect, Ended
  <2> QED
    BY <2>4, <2>5, <2>7, <2>8, <2>10 DEF Effect
<1>5. CASE eng[w].offset < Size /\ chan[w] # << >> /\ React(w) /\ UNCHANGED done
  BY <1>1, <1>5, ReactEffect
<1>6. ASSUME eng[w].offset < Size,
             eng' = [eng EXCEPT ![w].pc = IF eng[w].paused THEN "paused" ELSE "patch",
                                ![w].attempt = 0],
             poll' = 0, UNCHANGED <<chan, st, disk, fate, done>>
      PROVE  Effect(w)
  <2> DEFINE pc == IF eng[w].paused THEN "paused" ELSE "patch"
  <2>1. pc \in {"paused", "patch"}
    OBVIOUS
  <2>2. eng'[w] = [eng[w] EXCEPT !.pc = pc, !.attempt = 0]
    BY <1>3, <1>6
  <2> HIDE DEF pc
  <2>3. eng'[w] = [eng[w] EXCEPT !.pc = pc, !.offset = eng[w].offset, !.attempt = 0]
    BY <1>2, <2>2 DEF Engine
  <2>4. /\ eng' = [eng EXCEPT ![w] = eng'[w]] /\ st' = [st EXCEPT ![w] = st'[w]]
        /\ chan' = [chan EXCEPT ![w] = chan'[w]] /\ st'[w] = st[w] /\ chan'[w] = chan[w]
    BY <1>3, <1>6
  <2>5. ServerEffect
    BY <1>1, <1>6, SameServer
  <2>6. GoesOn(w)
    <3>1. /\ pc \in Raced \cup {"loop", "patch"} /\ pc # "pre"
          /\ pc \notin {"recover", "headBackoff"}
          /\ 0 \in 0 .. MaxRetries + 1 /\ eng[w].offset <= offs'[eng[w].res]
      BY <1>1, <1>2, <2>1, Numbers DEF Raced
    <3> QED
      BY <1>1, <1>2, <1>6, <2>3, <2>4, <2>5, <3>1, StaysSound
  <2>7. DiskEffect(w)
    BY <1>6 DEF DiskEffect
  <2> QED
    BY <1>1, <1>6, <2>4, <2>5, <2>6, <2>7, GoesOnEffect
<1> QED
  BY <1>4, <1>5, <1>6 DEF LoopTop

LEMMA WorkEffect ==
  ASSUME TypeInv, NEW w \in Workers, Work(w)
  PROVE  Effect(w)
BY TakeCommandEffect, CreateEffect, ProbeEffect, InterruptEffect, LoopTopEffect, PatchEffect,
   RecoverEffect, BackoffEndsEffect DEF Work

-----------------------------------------------------------------------------
(* From the summary: the types, and the resources' files.                  *)

\* What Alone says of each worker.
LEMMA Elsewhere ==
  ASSUME TypeInv, NEW w \in Workers, Effect(w)
  PROVE  /\ DOMAIN eng' = Workers /\ DOMAIN st' = Workers /\ DOMAIN chan' = Workers
         /\ \A v \in Workers \ {w} : eng'[v] = eng[v] /\ st'[v] = st[v] /\ chan'[v] = chan[v]
         /\ UNCHANGED <<items, slots, nextId, asked, ops>>
<1>1. DOMAIN eng = Workers /\ DOMAIN st = Workers /\ DOMAIN chan = Workers
  BY DEF TypeInv, TypeOK
<1> QED
  BY <1>1 DEF Effect, Alone, queue, user

\* Resources are never lost.
LEMMA ServerGrows ==
  ASSUME TypeInv, ServerEffect
  PROVE  /\ DOMAIN offs \subseteq DOMAIN offs' /\ Resources \subseteq Resources'
         /\ Item \subseteq Item' /\ Command \subseteq Command' /\ Engine \subseteq Engine'
         /\ Resources' = {0} \cup DOMAIN offs' /\ DOMAIN offs' = 1 .. Len(offs')
         /\ \A r \in DOMAIN offs' : offs'[r] \in 0 .. Size
<1>1. Len(offs) <= Len(offs') /\ offs \in Seq(0 .. Size) /\ offs' \in Seq(0 .. Size)
  BY Numbers DEF ServerEffect, TypeInv, TypeOK
<1>2. /\ DOMAIN offs' = 1 .. Len(offs') /\ Len(offs') \in Nat
      /\ \A r \in DOMAIN offs' : offs'[r] \in 0 .. Size
  BY <1>1, Elements
<1> QED
  BY <1>1, <1>2, Numbers, Grow DEF Resources

LEMMA WorkTypes ==
  ASSUME TypeInv, NEW w \in Workers, Effect(w), failed' \in [Workers -> Resources]
  PROVE  TypeInv'
<1> USE DEF Effect
<1>1. /\ DOMAIN eng' = Workers /\ DOMAIN st' = Workers /\ DOMAIN chan' = Workers
      /\ \A v \in Workers \ {w} : eng'[v] = eng[v] /\ st'[v] = st[v] /\ chan'[v] = chan[v]
      /\ items' = items /\ slots' = slots /\ nextId' = nextId /\ asked' = asked /\ ops' = ops
  BY Elsewhere
<1>2. /\ DOMAIN offs \subseteq DOMAIN offs' /\ Resources \subseteq Resources'
      /\ Item \subseteq Item' /\ Command \subseteq Command' /\ Engine \subseteq Engine'
      /\ Resources' = {0} \cup DOMAIN offs'
  BY ServerGrows
<1>3. items' \in [DOMAIN items' -> Item']
  BY <1>1, <1>2 DEF TypeInv, TypeOK
<1>4. chan' \in [Workers -> Seq(Command')]
  <2>1. chan'[w] \in Seq(Command)
    <3>1. CASE Took(w)
      BY <3>1, Channel DEF Took
    <3>2. CASE chan'[w] = chan[w]
      BY <3>2 DEF TypeInv, TypeOK
    <3> QED
      BY <3>1, <3>2 DEF EngineEffect
  <2>2. \A v \in Workers : chan'[v] \in Seq(Command)
    BY <1>1, <2>1 DEF TypeInv, TypeOK
  <2>3. \A q \in Seq(Command) : q \in Seq(Command')
    BY <1>2
  <2>4. chan' = [v \in Workers |-> chan'[v]]
    BY <1>1 DEF Alone
  <2> QED
    BY <2>2, <2>3, <2>4
<1>5. eng'[w] \in Engine' \cup {NoRun} /\ (eng'[w] # NoRun => Sound(eng[w])')
  <2>1. CASE eng'[w] = NoRun
    BY <2>1
  <2>2. CASE Begins(w)
    <3>1. chan[w][1] \in StartCommand
      BY <2>2, Channel DEF Begins, Took
    <3>2. Run(chan[w][1]) \in Engine
      BY <3>1, RunIsEngine
    <3>3. Sound(eng[w])'
      BY <2>2 DEF Begins, Sound, Run, None
    <3> QED
      BY <2>2, <3>2, <3>3, <1>2 DEF Begins
  <2>3. CASE GoesOn(w)
    BY <2>3 DEF GoesOn
  <2> QED
    BY <2>1, <2>2, <2>3 DEF EngineEffect
<1>6. ASSUME NEW v \in Workers \ {w}, eng[v] # NoRun
      PROVE  Sound(eng[v])'
  <2>1. /\ Sound(eng[v]) /\ eng[v].res \in Resources /\ eng[v].offset \in 0 .. Size
    BY <1>6, EngineFields
  <2>2. CASE eng[v].pc = "pre"
    BY <1>1, <2>1, <2>2 DEF Sound
  <2>3. CASE eng[v].pc # "pre"
    <3>1. eng[v].res \in DOMAIN offs
      BY <2>1, <2>3, Numbers DEF Sound, None
    <3>2. offs[eng[v].res] \in 0 .. Size /\ offs'[eng[v].res] \in 0 .. Size
      BY <3>1, <1>2, Numbers, ServerGrows
    <3>3. eng[v].offset <= offs[eng[v].res] /\ offs[eng[v].res] <= offs'[eng[v].res]
      BY <2>1, <2>3, <3>1 DEF Sound, ServerEffect
    <3>4. eng[v].offset <= offs'[eng[v].res]
      BY <2>1, <3>2, <3>3, Through
    <3> QED
      BY <1>1, <2>1, <2>3, <3>4 DEF Sound
  <2> QED
    BY <2>2, <2>3
<1>7. eng' \in [Workers -> Engine' \cup {NoRun}]
  <2>1. \A v \in Workers : eng'[v] \in Engine' \cup {NoRun}
    BY <1>1, <1>2, <1>5 DEF TypeInv, TypeOK
  <2>2. eng' = [v \in Workers |-> eng'[v]]
    BY <1>1 DEF Alone
  <2> QED
    BY <2>1, <2>2
<1>8. st' \in [Workers -> Ended \cup {"Uploading", "Paused"}]
  <2>1. \A v \in Workers : st'[v] \in Ended \cup {"Uploading", "Paused"}
    BY <1>1 DEF TypeInv, TypeOK, StatusEffect
  <2>2. st' = [v \in Workers |-> st'[v]]
    BY <1>1 DEF Alone
  <2> QED
    BY <2>1, <2>2
<1>9. disk' \in [Files -> Resources']
  <2>1. disk \in [Files -> Resources']
    BY <1>2 DEF TypeInv, TypeOK
  <2>2. Running(w) => eng[w].file \in Files
    BY EngineFields DEF Running
  <2>3. CASE disk' = disk
    BY <2>1, <2>3
  <2>4. CASE Forgets(w)
    BY <1>2, <2>1, <2>2, <2>4 DEF Forgets, None
  <2>5. CASE Saves(w)
    <3>1. eng'[w].res \in Resources'
      BY <2>5 DEF Saves, GoesOn, Engine
    <3> QED
      BY <2>1, <2>2, <2>5, <3>1 DEF Saves, GoesOn
  <2> QED
    BY <2>3, <2>4, <2>5 DEF DiskEffect
<1>10. TypeOK'
  <2>1. /\ DOMAIN items' \subseteq Ids /\ slots' \in [Workers -> Ids \cup {None}]
        /\ asked' \subseteq Ids /\ nextId' \in 1 .. MaxItems + 1 /\ ops' \in 0 .. MaxOps
    BY <1>1 DEF TypeInv, TypeOK
  <2>2. /\ poll' \in Workers \cup {0} /\ offs' \in Seq(0 .. Size) /\ done' \subseteq Ids
        /\ fate' \in [DOMAIN offs' -> {"open", "error", "dropped", "aborted", "done"}]
    BY DEF Alone, ServerEffect, StatusEffect
  <2>3. failed' \in [Workers -> Resources']
    BY <1>2
  <2> QED
    BY <1>3, <1>4, <1>7, <1>8, <1>9, <2>1, <2>2, <2>3 DEF TypeOK
<1>11. \A v \in Workers : eng'[v] # NoRun => Sound(eng[v])'
  BY <1>1, <1>5, <1>6
<1>12. (\A i \in DOMAIN items' : i < nextId') /\ \A v \in Workers : slots'[v] < nextId'
  BY <1>1 DEF TypeInv
<1> QED
  BY <1>10, <1>11, <1>12 DEF TypeInv

-----------------------------------------------------------------------------
(* From the summary: the files the resources belong to.                    *)

\* A resource that a worker creates belongs to the file it uploads.
Later(owner, w) ==
  [r \in DOMAIN offs' |-> IF r \in DOMAIN offs THEN owner[r] ELSE eng[w].file]

LEMMA LaterKnows ==
  ASSUME TypeInv, ServerEffect, NEW w \in Workers, NEW owner,
         NEW r \in Resources, NEW f, KnownAs(owner, r, f)
  PROVE  KnownAs(Later(owner, w), r, f)
BY ServerGrows, Numbers DEF KnownAs, Later, None

\* What the engine knows after the step.
LEMMA EngineKnows ==
  ASSUME TypeInv, NEW w \in Workers, Effect(w), NEW owner, OwnedBy(owner), eng'[w] # NoRun
  PROVE  /\ KnownAs(Later(owner, w), eng'[w].url, eng'[w].file)
         /\ KnownAs(Later(owner, w), eng'[w].res, eng'[w].file)
         /\ GoesOn(w) => eng'[w].file = eng[w].file
<1>1. ServerEffect /\ EngineEffect(w)
  BY DEF Effect
<1>2. CASE Begins(w) /\ ~GoesOn(w)
  <2>1. chan[w][1] \in StartCommand /\ 1 \in DOMAIN chan[w] /\ chan[w][1].kind = "Start"
    BY <1>2, Channel DEF Begins, Took
  <2>2. chan[w][1].url \in Resources /\ KnownAs(owner, chan[w][1].url, chan[w][1].file)
    BY <2>1 DEF OwnedBy, StartCommand
  <2>3. KnownAs(Later(owner, w), chan[w][1].url, chan[w][1].file)
    BY <1>1, <2>2, LaterKnows
  <2>4. /\ eng'[w].url = chan[w][1].url /\ eng'[w].file = chan[w][1].file
        /\ eng'[w].res = None
    BY <1>2 DEF Begins, Run
  <2> QED
    BY <1>2, <2>3, <2>4 DEF KnownAs
<1>3. CASE GoesOn(w)
  <2>1. /\ eng[w] # NoRun /\ eng[w].url \in Resources /\ eng[w].res \in Resources
        /\ eng'[w].url = eng[w].url /\ eng'[w].file = eng[w].file
    BY <1>3, EngineFields DEF GoesOn, Running
  <2>2. KnownAs(owner, eng[w].url, eng[w].file) /\ KnownAs(owner, eng[w].res, eng[w].file)
    BY <2>1 DEF OwnedBy
  <2>3. /\ KnownAs(Later(owner, w), eng[w].url, eng[w].file)
        /\ KnownAs(Later(owner, w), eng[w].res, eng[w].file)
    BY <1>1, <2>1, <2>2, LaterKnows
  <2>4. CASE Len(offs') = Len(offs) + 1 /\ eng'[w].res = Len(offs')
    <3>1. eng'[w].res \in DOMAIN offs' /\ eng'[w].res \notin DOMAIN offs
      BY <1>1, <2>4, Numbers, ServerGrows
    <3> QED
      BY <2>1, <2>3, <3>1 DEF KnownAs, Later
  <2>5. CASE eng'[w].res \in {eng[w].res, eng[w].url}
    BY <2>1, <2>3, <2>5
  <2> QED
    BY <1>3, <2>4, <2>5 DEF GoesOn
<1> QED
  BY <1>1, <1>2, <1>3 DEF EngineEffect

LEMMA WorkOwned ==
  ASSUME TypeInv, NEW w \in Workers, Effect(w), NEW owner, OwnedBy(owner)
  PROVE  Owned'
<1>0. PICK later : later = Later(owner, w)
  OBVIOUS
<1>1. /\ \A v \in Workers \ {w} : eng'[v] = eng[v] /\ st'[v] = st[v] /\ chan'[v] = chan[v]
      /\ items' = items /\ ServerEffect /\ EngineEffect(w) /\ DiskEffect(w)
  BY Elsewhere DEF Effect
<1>2. \A r \in Resources : \A f : KnownAs(owner, r, f) => KnownAs(later, r, f)
  BY <1>0, <1>1, LaterKnows
<1>3. eng'[w] # NoRun => /\ KnownAs(later, eng'[w].url, eng'[w].file)
                         /\ KnownAs(later, eng'[w].res, eng'[w].file)
                         /\ GoesOn(w) => eng'[w].file = eng[w].file
  BY <1>0, EngineKnows
<1>4. \A f \in Files : KnownAs(later, disk'[f], f)
  <2>1. /\ disk \in [Files -> Resources] /\ \A f \in Files : KnownAs(later, disk[f], f)
    BY <1>2 DEF OwnedBy, TypeInv, TypeOK
  <2>2. CASE disk' = disk
    BY <2>1, <2>2
  <2>3. CASE Forgets(w)
    BY <2>1, <2>3 DEF Forgets, KnownAs
  <2>4. CASE Saves(w)
    <3>1. eng'[w] # NoRun
      BY <2>4 DEF Saves, GoesOn, Engine, NoRun
    <3>2. KnownAs(later, eng'[w].res, eng[w].file)
      BY <1>3, <2>4, <3>1 DEF Saves
    <3> QED
      BY <2>1, <2>4, <3>2 DEF Saves
  <2> QED
    BY <1>1, <2>2, <2>3, <2>4 DEF DiskEffect
<1>5. \A i \in DOMAIN items' : KnownAs(later, items'[i].url, items'[i].file)
  <2>1. \A i \in DOMAIN items : items[i].url \in Resources
    BY DEF TypeInv, TypeOK, Item
  <2> QED
    BY <1>1, <1>2, <2>1 DEF OwnedBy
<1>6. ASSUME NEW v \in Workers, NEW k \in DOMAIN chan'[v], chan'[v][k].kind = "Start"
      PROVE  KnownAs(later, chan'[v][k].url, chan'[v][k].file)
  <2>1. ASSUME NEW j \in DOMAIN chan[v], chan[v][j].kind = "Start"
        PROVE  KnownAs(later, chan[v][j].url, chan[v][j].file)
    <3>1. chan[v][j] \in Command
      BY <2>1, Elements DEF TypeInv, TypeOK
    <3>2. chan[v][j].url \in Resources
      BY <2>1, <3>1 DEF Command, StartCommand
    <3> QED
      BY <1>2, <2>1, <3>2 DEF OwnedBy
  <2>2. CASE chan'[v] = chan[v]
    BY <1>6, <2>1, <2>2
  <2>3. CASE v = w /\ Took(w)
    <3>1. /\ chan[w] # << >> /\ chan'[w] = Tail(chan[w]) /\ chan[w] \in Seq(Command)
          /\ Len(Tail(chan[w])) = Len(chan[w]) - 1 /\ Len(chan[w]) \in Nat
          /\ Tail(chan[w]) \in Seq(Command)
          /\ \A j \in 1 .. Len(Tail(chan[w])) : Tail(chan[w])[j] = chan[w][j + 1]
      BY <2>3, Channel DEF Took
    <3>2. DOMAIN chan[w] = 1 .. Len(chan[w]) /\ DOMAIN Tail(chan[w]) = 1 .. Len(chan[w]) - 1
      BY <3>1, Elements
    <3>3. k \in 1 .. Len(chan[w]) - 1 /\ k + 1 \in DOMAIN chan[w]
      BY <2>3, <3>1, <3>2
    <3>4. chan'[v][k] = chan[v][k + 1]
      BY <2>3, <3>1, <3>3
    <3> QED
      BY <1>6, <2>1, <2>3, <3>3, <3>4
  <2> QED
    BY <1>1, <2>2, <2>3 DEF EngineEffect
<1>7. ASSUME NEW v \in Workers, eng'[v] # NoRun
      PROVE  KnownAs(later, eng'[v].url, eng'[v].file) /\ KnownAs(later, eng'[v].res, eng'[v].file)
  <2>1. CASE v = w
    BY <1>3, <1>7, <2>1
  <2>2. CASE v # w
    BY <1>1, <1>2, <1>7, <2>2, EngineFields DEF OwnedBy
  <2> QED
    BY <2>1, <2>2
<1>8. OwnedBy(later)'
  BY <1>4, <1>5, <1>6, <1>7 DEF OwnedBy, KnownAs
<1> QED
  BY <1>8 DEF Owned

LEMMA WorkResumable ==
  ASSUME TypeInv, NEW w \in Workers, Effect(w), NEW owner, OwnedBy(owner), StoredIsResumable
  PROVE  StoredIsResumable'
<1>1. ServerEffect /\ DiskEffect(w) /\ disk \in [Files -> Resources]
  BY DEF Effect, TypeInv, TypeOK
<1>2. SUFFICES ASSUME NEW f \in Files, disk'[f] # None
               PROVE  fate'[disk'[f]] \in {"open", "error", "dropped"}
  BY DEF StoredIsResumable
<1>3. CASE disk'[f] = disk[f]
  <2>1. disk[f] \in DOMAIN offs /\ owner[disk[f]] = f /\ fate[disk[f]] \in {"open", "error", "dropped"}
    BY <1>1, <1>2, <1>3, Numbers DEF OwnedBy, KnownAs, StoredIsResumable, None
  <2>2. CASE Forgets(w) /\ disk[f] \in {eng[w].res, eng[w].url}
    <3>1. owner[disk[f]] = eng[w].file
      BY <1>2, <1>3, <2>2 DEF Forgets, Running, OwnedBy, KnownAs
    <3>2. disk'[f] = None
      BY <1>1, <2>1, <2>2, <3>1 DEF Forgets
    <3> QED
      BY <1>2, <3>2
  <2>3. CASE fate'[disk[f]] \in {fate[disk[f]], "open", "error", "dropped"}
    BY <1>3, <2>1, <2>3
  <2> QED
    BY <1>1, <2>1, <2>2, <2>3 DEF DiskEffect
<1>4. CASE disk'[f] # disk[f]
  <2>1. ~Forgets(w)
    BY <1>1, <1>2, <1>4 DEF Forgets
  <2>2. Saves(w)
    BY <1>1, <1>4, <2>1 DEF DiskEffect
  <2>3. disk'[f] = eng'[w].res
    BY <1>1, <1>4, <2>2 DEF Saves
  <2> QED
    BY <2>2, <2>3 DEF Saves
<1> QED
  BY <1>3, <1>4

-----------------------------------------------------------------------------
(* The summary of a step of the scheduler or of the user: the entries are  *)
(* kept or dropped, an item keeps its upload, starts a new one or takes    *)
(* the stored one, and at most one command is sent to each worker.         *)

Comes(i) ==
  \/ items'[i].url \in {None, disk[items'[i].file]}
  \/ i \in DOMAIN items /\ items'[i].url = items[i].url /\ items'[i].file = items[i].file

Sends(v, c) ==
  /\ chan'[v] = Append(chan[v], c)
  /\ c.kind = "Start" => \E i \in DOMAIN items : c = Start(i)

QueueEffect ==
  /\ UNCHANGED <<poll, offs, fate>>
  /\ disk' \in [Files -> Resources] /\ \A f \in Files : disk'[f] \in {disk[f], None}
  /\ items' \in [DOMAIN items' -> Item]
  /\ \A i \in DOMAIN items' : i \in Ids /\ i < nextId' /\ Comes(i)
  /\ eng' \in [Workers -> Engine \cup {NoRun}] /\ \A v \in Workers : eng'[v] \in {eng[v], NoRun}
  /\ chan' = [v \in Workers |-> chan'[v]]
  /\ \A v \in Workers : chan'[v] \in {chan[v], << >>} \/ \E c \in Command : Sends(v, c)
  /\ st' \in [Workers -> Ended \cup {"Uploading", "Paused"}]
  /\ slots' \in [Workers -> Ids \cup {None}] /\ \A v \in Workers : slots'[v] < nextId'
  /\ done' \subseteq Ids /\ asked' \subseteq Ids
  /\ nextId' \in 1 .. MaxItems + 1 /\ ops' \in 0 .. MaxOps

\* The sets of values only depend on the resources.
LEMMA SameValues ==
  ASSUME UNCHANGED offs
  PROVE  Resources' = Resources /\ Item' = Item /\ Command' = Command /\ Engine' = Engine
<1>1. Resources' = Resources
  BY DEF Resources
<1> QED
  BY <1>1 DEF Item, Command, StartCommand, Engine

\* A command is put behind the others.
LEMMA Appended ==
  ASSUME NEW S, NEW q \in Seq(S), NEW c \in S
  PROVE  /\ Append(q, c) \in Seq(S) /\ DOMAIN Append(q, c) = 1 .. Len(q) + 1
         /\ DOMAIN q = 1 .. Len(q) /\ Len(q) \in Nat
         /\ Append(q, c)[Len(q) + 1] = c
         /\ \A k \in 1 .. Len(q) : Append(q, c)[k] = q[k]
OBVIOUS

LEMMA QueueTypes ==
  ASSUME TypeInv, QueueEffect, failed' \in [Workers -> Resources]
  PROVE  TypeInv'
<1>1. Resources' = Resources /\ Item' = Item /\ Command' = Command /\ Engine' = Engine
  BY SameValues DEF QueueEffect
<1>2. chan' \in [Workers -> Seq(Command)]
  <2>1. ASSUME NEW v \in Workers PROVE chan'[v] \in Seq(Command)
    <3>1. chan[v] \in Seq(Command)
      BY DEF TypeInv, TypeOK
    <3>2. CASE chan'[v] = chan[v]
      BY <3>1, <3>2
    <3>4. CASE chan'[v] = << >>
      BY <3>4
    <3>3. CASE \E c \in Command : Sends(v, c)
      BY <3>1, <3>3, Appended DEF Sends
    <3> QED
      BY <3>2, <3>3, <3>4 DEF QueueEffect
  <2> QED
    BY <2>1 DEF QueueEffect
<1>3. ASSUME NEW v \in Workers, eng'[v] # NoRun
      PROVE  Sound(eng[v])'
  <2>1. eng'[v] = eng[v] /\ offs' = offs
    BY <1>3 DEF QueueEffect
  <2>2. Sound(eng[v])
    BY <1>3, <2>1, EngineFields
  <2> QED
    BY <2>1, <2>2 DEF Sound
<1>4. TypeOK'
  BY <1>1, <1>2 DEF TypeInv, TypeOK, QueueEffect
<1> QED
  BY <1>3, <1>4 DEF TypeInv, QueueEffect

LEMMA QueueOwned ==
  ASSUME TypeInv, QueueEffect, NEW owner, OwnedBy(owner)
  PROVE  OwnedBy(owner)'
<1>1. \A f \in Files : KnownAs(owner, disk[f], f) /\ KnownAs(owner, disk'[f], f)
  BY DEF OwnedBy, QueueEffect, KnownAs
<1>2. \A i \in DOMAIN items : KnownAs(owner, items[i].url, items[i].file)
  BY DEF OwnedBy
<1>3. ASSUME NEW i \in DOMAIN items'
      PROVE  KnownAs(owner, items'[i].url, items'[i].file)
  <2>1. items'[i].file \in Files /\ Comes(i)
    BY <1>3 DEF QueueEffect, Item
  <2> QED
    BY <1>1, <1>2, <2>1 DEF Comes, KnownAs
<1>4. ASSUME NEW v \in Workers, NEW k \in DOMAIN chan'[v], chan'[v][k].kind = "Start"
      PROVE  KnownAs(owner, chan'[v][k].url, chan'[v][k].file)
  <2>1. chan[v] \in Seq(Command)
    BY DEF TypeInv, TypeOK
  <2>2. CASE chan'[v] = chan[v]
    BY <1>4, <2>2 DEF OwnedBy
  <2>3. CASE chan'[v] = << >>
    BY <1>4, <2>3
  <2>4. ASSUME NEW c \in Command, Sends(v, c)
        PROVE  KnownAs(owner, chan'[v][k].url, chan'[v][k].file)
    <3>1. /\ chan'[v] = Append(chan[v], c) /\ DOMAIN chan'[v] = 1 .. Len(chan[v]) + 1
          /\ DOMAIN chan[v] = 1 .. Len(chan[v]) /\ Len(chan[v]) \in Nat
          /\ chan'[v][Len(chan[v]) + 1] = c
          /\ \A j \in 1 .. Len(chan[v]) : chan'[v][j] = chan[v][j]
      BY <2>1, <2>4, Appended DEF Sends
    <3>2. CASE k \in DOMAIN chan[v]
      BY <1>4, <3>1, <3>2 DEF OwnedBy
    <3>3. CASE k = Len(chan[v]) + 1
      <4>1. PICK i \in DOMAIN items : c = Start(i)
        BY <1>4, <2>4, <3>1, <3>3 DEF Sends
      <4> QED
        BY <1>2, <3>1, <3>3, <4>1 DEF Start
    <3> QED
      BY <1>4, <3>1, <3>2, <3>3
  <2> QED
    BY <2>2, <2>3, <2>4 DEF QueueEffect
<1>5. ASSUME NEW v \in Workers, eng'[v] # NoRun
      PROVE  KnownAs(owner, eng'[v].url, eng'[v].file) /\ KnownAs(owner, eng'[v].res, eng'[v].file)
  BY <1>5 DEF OwnedBy, QueueEffect
<1> QED
  BY <1>1, <1>3, <1>4, <1>5 DEF OwnedBy, KnownAs

LEMMA QueueResumable ==
  ASSUME QueueEffect, StoredIsResumable
  PROVE  StoredIsResumable'
BY DEF QueueEffect, StoredIsResumable

-----------------------------------------------------------------------------
(* The steps of the scheduler and of the user have that effect.            *)

\* What stays as it is has its type.
LEMMA Given ==
  ASSUME TypeInv
  PROVE  /\ DOMAIN items \subseteq Ids /\ items = [i \in DOMAIN items |-> items[i]]
         /\ \A i \in DOMAIN items :
              /\ items[i] \in Item /\ items[i].file \in Files /\ items[i].url \in Resources
              /\ items[i].status \in Terminal \cup {"Queued", "Uploading", "Paused"}
              /\ i < nextId /\ i # None
         /\ slots \in [Workers -> Ids \cup {None}] /\ \A v \in Workers : slots[v] < nextId
         /\ chan = [v \in Workers |-> chan[v]] /\ \A v \in Workers : chan[v] \in Seq(Command)
         /\ st \in [Workers -> Ended \cup {"Uploading", "Paused"}]
         /\ eng \in [Workers -> Engine \cup {NoRun}]
         /\ disk \in [Files -> Resources] /\ None \in Resources
         /\ done \subseteq Ids /\ asked \subseteq Ids
         /\ nextId \in 1 .. MaxItems + 1 /\ ops \in 0 .. MaxOps
<1>1. items \in [DOMAIN items -> Item] /\ chan \in [Workers -> Seq(Command)]
  BY DEF TypeInv, TypeOK
<1>2. \A i \in DOMAIN items :
         /\ items[i] \in Item /\ items[i].file \in Files /\ items[i].url \in Resources
         /\ items[i].status \in Terminal \cup {"Queued", "Uploading", "Paused"}
  BY <1>1 DEF Item
<1>3. \A i \in Ids : i # None
  BY DEF Ids, None
<1>4. None \in Resources
  BY Numbers DEF None
<1> QED
  BY <1>1, <1>2, <1>3, <1>4 DEF TypeInv, TypeOK

\* An item with another status is still an item.
LEMMA NewStatus ==
  ASSUME NEW item \in Item, NEW status \in Terminal \cup {"Queued", "Uploading", "Paused"}
  PROVE  LET new == [item EXCEPT !.status = status]
         IN  /\ new \in Item /\ new.file = item.file /\ new.url = item.url
             /\ new.status = status
BY DEF Item

LEMMA AddEffect ==
  ASSUME TypeInv, NEW f \in Files, Add(f)
  PROVE  QueueEffect
<1>1. PICK url \in {None} \cup (IF Active(f) THEN {} ELSE {disk[f]}) :
        items' = [i \in DOMAIN items \cup {nextId} |->
                    IF i = nextId THEN [file |-> f, url |-> url, status |-> "Queued"]
                    ELSE items[i]]
  BY DEF Add
<1>2. /\ nextId <= MaxItems /\ nextId' = nextId + 1
      /\ UNCHANGED <<slots, chan, st, eng, poll, disk, offs, fate, done, asked, ops>>
  BY DEF Add
<1>3. /\ nextId \in Ids /\ nextId' \in 1 .. MaxItems + 1 /\ nextId < nextId'
      /\ \A n \in Int : n < nextId => n < nextId'
  BY <1>2, Given, Numbers DEF Ids
<1>4. url \in {None, disk[f]} /\ url \in Resources
  BY Given
<1>5. [file |-> f, url |-> url, status |-> "Queued"] \in Item
  BY <1>4 DEF Item
<1>6. \A i \in DOMAIN items' : items'[i] \in Item
  BY <1>1, <1>5, Given
<1>7. items' \in [DOMAIN items' -> Item]
  BY <1>1, <1>6
<1>8. ASSUME NEW i \in DOMAIN items'
      PROVE  i \in Ids /\ i < nextId' /\ Comes(i)
  <2>1. CASE i = nextId
    <3>1. items'[i].file = f /\ items'[i].url = url
      BY <1>1, <2>1
    <3> QED
      BY <1>3, <1>4, <2>1, <3>1 DEF Comes
  <2>2. CASE i # nextId
    <3>1. i \in DOMAIN items /\ items'[i] = items[i]
      BY <1>1, <1>8, <2>2
    <3>2. i \in Int /\ i < nextId /\ i \in Ids
      BY <3>1, Given DEF Ids
    <3> QED
      BY <1>3, <3>1, <3>2 DEF Comes
  <2> QED
    BY <2>1, <2>2
<1>9. \A v \in Workers : slots'[v] < nextId'
  BY <1>2, <1>3, Given, Numbers DEF Ids, None
<1> QED
  BY <1>2, <1>3, <1>7, <1>8, <1>9, Given DEF QueueEffect

\* The calls that leave the ids alone.
LEMMA CallEffect ==
  ASSUME TypeInv, UNCHANGED <<poll, offs, fate, nextId>>,
         disk' \in [Files -> Resources], \A f \in Files : disk'[f] \in {disk[f], None},
         items' \in [DOMAIN items' -> Item], DOMAIN items' \subseteq DOMAIN items,
         \A i \in DOMAIN items' : /\ items'[i].url \in {items[i].url, None}
                                  /\ items'[i].file = items[i].file,
         eng' \in [Workers -> Engine \cup {NoRun}],
         \A v \in Workers : eng'[v] \in {eng[v], NoRun},
         chan' = [v \in Workers |-> chan'[v]],
         \A v \in Workers : \/ chan'[v] \in {chan[v], << >>}
                            \/ \E c \in Command : Sends(v, c),
         st' \in [Workers -> Ended \cup {"Uploading", "Paused"}],
         slots' \in [Workers -> Ids \cup {None}], \A v \in Workers : slots'[v] < nextId,
         done' \subseteq Ids, asked' \subseteq Ids, ops' \in 0 .. MaxOps
  PROVE  QueueEffect
<1>1. \A i \in DOMAIN items' : i \in Ids /\ i < nextId' /\ Comes(i)
  BY Given DEF Comes
<1> QED
  BY <1>1, Given DEF QueueEffect

LEMMA CalledOps ==
  ASSUME TypeInv, Called
  PROVE  ops' \in 0 .. MaxOps /\ poll = 0
BY Given, ConstantsAssumption DEF Called

\* A command without a file.
LEMMA PlainSent ==
  ASSUME NEW v, NEW kind \in {"Pause", "Resume", "Abort"},
         chan'[v] = Append(chan[v], Plain(kind))
  PROVE  /\ Plain(kind) \in Command /\ Plain(kind).kind = kind
         /\ Sends(v, Plain(kind))
BY DEF Plain, Command, Sends

LEMMA TellEffect ==
  ASSUME TypeInv, NEW S, NEW kind \in {"Pause", "Resume"}, Tell(S, kind)
  PROVE  QueueEffect
<1>1. /\ chan' = [v \in Workers |-> IF v \in S THEN Append(chan[v], Plain(kind)) ELSE chan[v]]
      /\ UNCHANGED <<items, slots, nextId, st, eng, poll, disk, offs, fate, done, asked>>
      /\ ops' \in 0 .. MaxOps
  BY CalledOps DEF Tell, queue
<1>2. chan' = [v \in Workers |-> chan'[v]]
  BY <1>1
<1>3. \A v \in Workers : chan'[v] \in {chan[v], << >>} \/ \E c \in Command : Sends(v, c)
  BY <1>1, PlainSent
<1> QED
  BY <1>1, <1>2, <1>3, Given, CallEffect

LEMMA AbortEffect ==
  ASSUME TypeInv, NEW S \in SUBSET Workers, NEW ids \in SUBSET DOMAIN items, Abort(S, ids)
  PROVE  QueueEffect
<1>1. /\ chan' = [v \in Workers |-> IF v \in S THEN Append(chan[v], Plain("Abort")) ELSE chan[v]]
      /\ items' = [i \in DOMAIN items |->
                     IF i \in ids THEN [items[i] EXCEPT !.status = "Aborted"] ELSE items[i]]
      /\ disk' = [f \in Files |-> IF \E i \in ids : items[i].file = f THEN None ELSE disk[f]]
      /\ asked' = (asked \cup ids \cup {slots[w] : w \in S}) \ {None}
      /\ UNCHANGED <<slots, nextId, st, eng, poll, offs, fate, done>>
      /\ ops' \in 0 .. MaxOps
  BY CalledOps DEF Abort
<1>2. chan' = [v \in Workers |-> chan'[v]]
  BY <1>1
<1>3. \A v \in Workers : chan'[v] \in {chan[v], << >>} \/ \E c \in Command : Sends(v, c)
  BY <1>1, PlainSent
<1>4. \A i \in DOMAIN items : /\ items'[i] \in Item /\ items'[i].url = items[i].url
                              /\ items'[i].file = items[i].file
  BY <1>1, Given, NewStatus DEF Terminal
<1>5. items' \in [DOMAIN items' -> Item] /\ DOMAIN items' = DOMAIN items
  BY <1>1, <1>4
<1>6. asked' \subseteq Ids
  BY <1>1, Given
<1>7. disk' \in [Files -> Resources] /\ \A f \in Files : disk'[f] \in {disk[f], None}
  BY <1>1, Given
<1> QED
  BY <1>1, <1>2, <1>3, <1>4, <1>5, <1>6, <1>7, Given, CallEffect

LEMMA RemoveItemEffect ==
  ASSUME TypeInv, NEW i \in DOMAIN items, RemoveItem(i)
  PROVE  QueueEffect
<1>1. /\ chan' = [v \in Workers |->
                    IF slots[v] = i THEN Append(chan[v], Plain("Abort")) ELSE chan[v]]
      /\ disk' = [disk EXCEPT ![items[i].file] = None]
      /\ items' = [j \in DOMAIN items \ {i} |-> items[j]]
      /\ asked' = asked \cup {i}
      /\ UNCHANGED <<slots, nextId, st, eng, poll, offs, fate, done>>
      /\ ops' \in 0 .. MaxOps
  BY CalledOps DEF RemoveItem, Forget, KeepItems
<1>2. chan' = [v \in Workers |-> chan'[v]]
  BY <1>1
<1>3. \A v \in Workers : chan'[v] \in {chan[v], << >>} \/ \E c \in Command : Sends(v, c)
  BY <1>1, PlainSent
<1>4. /\ items' \in [DOMAIN items' -> Item] /\ DOMAIN items' \subseteq DOMAIN items
      /\ \A j \in DOMAIN items' : items'[j] = items[j]
  BY <1>1, Given
<1>5. disk' \in [Files -> Resources] /\ \A f \in Files : disk'[f] \in {disk[f], None}
  BY <1>1, Given
<1>6. asked' \subseteq Ids
  BY <1>1, Given
<1> QED
  BY <1>1, <1>2, <1>3, <1>4, <1>5, <1>6, Given, CallEffect

LEMMA ClearEffect ==
  ASSUME TypeInv, NEW statuses, Clear(statuses)
  PROVE  QueueEffect
<1> DEFINE Dropped == {i \in DOMAIN items : items[i].status \in statuses}
<1>1. /\ items' = [j \in DOMAIN items \ Dropped |-> items[j]]
      /\ disk' = [f \in Files |->
                    IF statuses = Terminal /\ \E i \in Dropped : items[i].file = f
                      THEN None ELSE disk[f]]
      /\ UNCHANGED <<slots, nextId, chan, st, eng, poll, offs, fate, done, asked>>
      /\ ops' \in 0 .. MaxOps
  BY CalledOps DEF Clear, KeepItems
<1> HIDE DEF Dropped
<1>2. /\ items' \in [DOMAIN items' -> Item] /\ DOMAIN items' \subseteq DOMAIN items
      /\ \A j \in DOMAIN items' : items'[j] = items[j]
  BY <1>1, Given
<1>3. disk' \in [Files -> Resources] /\ \A f \in Files : disk'[f] \in {disk[f], None}
  BY <1>1, Given
<1> QED
  BY <1>1, <1>2, <1>3, Given, CallEffect

LEMMA RetryItemEffect ==
  ASSUME TypeInv, NEW i \in DOMAIN items, RetryItem(i)
  PROVE  QueueEffect
<1>1. /\ items' = [items EXCEPT ![i].status = "Queued", ![i].url = None]
      /\ asked' = asked \ {i} /\ done' = done \ {i}
      /\ UNCHANGED <<slots, nextId, chan, st, eng, poll, disk, offs, fate>>
      /\ ops' \in 0 .. MaxOps
  BY CalledOps DEF RetryItem
<1>2. /\ DOMAIN items' = DOMAIN items
      /\ items'[i] = [items[i] EXCEPT !.status = "Queued", !.url = None]
      /\ \A j \in DOMAIN items \ {i} : items'[j] = items[j]
  BY <1>1, Given
<1>3. items'[i] \in Item /\ items'[i].file = items[i].file /\ items'[i].url = None
  BY <1>2, Given DEF Item
<1>4. items' \in [DOMAIN items' -> Item]
  <2>1. \A j \in DOMAIN items' : items'[j] \in Item
    BY <1>2, <1>3, Given
  <2>2. items' = [j \in DOMAIN items' |-> items'[j]]
    BY <1>1, Given
  <2> QED
    BY <2>1, <2>2
<1>5. \A j \in DOMAIN items' : /\ items'[j].url \in {items[j].url, None}
                               /\ items'[j].file = items[j].file
  BY <1>2, <1>3
<1> QED
  BY <1>1, <1>2, <1>4, <1>5, Given, CallEffect

LEMMA ReloadEffect ==
  ASSUME TypeInv, Reload
  PROVE  QueueEffect
<1>1. /\ items' = << >> /\ slots' = [w \in Workers |-> None]
      /\ chan' = [w \in Workers |-> << >>] /\ st' = [w \in Workers |-> "Idle"]
      /\ eng' = [w \in Workers |-> NoRun]
      /\ UNCHANGED <<poll, disk, offs, fate, done, asked, nextId>>
      /\ ops' \in 0 .. MaxOps
  BY CalledOps DEF Reload
<1>2. DOMAIN items' = {} /\ items' \in [DOMAIN items' -> Item]
  BY <1>1
<1>3. \A v \in Workers : slots'[v] < nextId
  BY <1>1, Given, Numbers DEF None
<1> QED
  BY <1>1, <1>2, <1>3, Given, CallEffect DEF Ended

-----------------------------------------------------------------------------
(* The scheduler's step.                                                   *)

\* The place of an element in a finite set of numbers is its own.
LEMMA RankIsPlace ==
  ASSUME NEW N \in Nat, NEW S \in SUBSET (1 .. N), NEW m \in S, NEW n \in S,
         Rank(S, m) = Rank(S, n)
  PROVE  m = n
<1>1. \A k \in S : {j \in S : j <= k} \in SUBSET S
  OBVIOUS
<1>2. IsFiniteSet(S)
  <2>1. IsFiniteSet(1 .. N)
    BY FS_Interval
  <2> QED
    BY <2>1, FS_Subset
<1>3. IsFiniteSet({j \in S : j <= m}) /\ IsFiniteSet({j \in S : j <= n})
  BY <1>1, <1>2, FS_Subset
<1>4. CASE m <= n
  <2>1. {j \in S : j <= m} \in SUBSET {j \in S : j <= n}
    <3>1. \A j \in S : j <= m => j <= n
      BY <1>4
    <3> QED
      BY <3>1
  <2>2. {j \in S : j <= n} = {j \in S : j <= m}
    BY <1>3, <2>1, FS_Subset DEF Rank
  <2> QED
    BY <1>4, <2>2
<1>5. CASE n <= m
  <2>1. {j \in S : j <= n} \in SUBSET {j \in S : j <= m}
    <3>1. \A j \in S : j <= n => j <= m
      BY <1>5
    <3> QED
      BY <3>1
  <2>2. {j \in S : j <= m} = {j \in S : j <= n}
    BY <1>3, <2>1, FS_Subset DEF Rank
  <2> QED
    BY <1>5, <2>2
<1> QED
  BY <1>4, <1>5

\* What an item becomes.
LEMMA MirroredItem ==
  ASSUME TypeInv, NEW i \in DOMAIN items
  PROVE  /\ Mirrored[i] \in Item /\ Mirrored[i].file = items[i].file
         /\ Mirrored[i].url = items[i].url
         /\ (\A w \in Workers : slots[w] # i) => Mirrored[i] = items[i]
         /\ (\E w \in Workers : slots[w] = i) =>
              \E w \in Workers : /\ slots[w] = i
                                 /\ Mirrored[i].status = Mirror(items[i].status, st[w])
         /\ (\E w \in Workers : slots[w] = i) => Mirrored[i].status # "Queued"
<1>1. CASE \A w \in Workers : slots[w] # i
  <2>1. Mirrored[i] = items[i]
    BY <1>1 DEF Mirrored
  <2> QED
    BY <1>1, <2>1, Given
<1>2. CASE \E w \in Workers : slots[w] = i
  <2>1. PICK w \in Workers : w = CHOOSE v \in Workers : slots[v] = i
    BY <1>2
  <2>2. slots[w] = i
    BY <1>2, <2>1
  <2>3. Mirrored[i] = [items[i] EXCEPT !.status = Mirror(items[i].status, st[w])]
    BY <1>2, <2>1 DEF Mirrored
  <2>4. /\ items[i].status \in Terminal \cup {"Queued", "Uploading", "Paused"}
        /\ st[w] \in Ended \cup {"Uploading", "Paused"} /\ items[i] \in Item
    BY Given
  <2>5. /\ Mirror(items[i].status, st[w]) \in Terminal \cup {"Queued", "Uploading", "Paused"}
        /\ Mirror(items[i].status, st[w]) # "Queued"
    BY <2>4 DEF Mirror, Terminal, Ended
  <2>6. /\ Mirrored[i] \in Item /\ Mirrored[i].file = items[i].file
        /\ Mirrored[i].url = items[i].url
        /\ Mirrored[i].status = Mirror(items[i].status, st[w])
    BY <2>3, <2>4, <2>5, NewStatus
  <2> QED
    BY <1>2, <2>2, <2>5, <2>6
<1> QED
  BY <1>1, <1>2

\* The item a slot is given.
LEMMA NextForItem ==
  ASSUME TypeInv, NEW w \in Workers, NextFor(w) # None
  PROVE  /\ NextFor(w) \in DOMAIN items /\ Starts(w, NextFor(w))
         /\ w \in Free /\ NextFor(w) \in Waiting
         /\ \A v \in Workers : slots[v] # NextFor(w)
<1>1. \E i \in DOMAIN items : Starts(w, i)
  BY DEF NextFor
<1>2. NextFor(w) \in DOMAIN items /\ Starts(w, NextFor(w))
  <2>1. NextFor(w) = CHOOSE i \in DOMAIN items : Starts(w, i)
    BY <1>1 DEF NextFor
  <2> HIDE DEF NextFor, Starts
  <2> QED
    BY <1>1, <2>1
<1>3. w \in Free /\ NextFor(w) \in Waiting
  BY <1>2 DEF Starts
<1>4. Mirrored[NextFor(w)].status = "Queued"
  BY <1>3 DEF Waiting
<1> QED
  BY <1>2, <1>3, <1>4, MirroredItem

\* No two slots are given the same item.
LEMMA NextForOnce ==
  ASSUME TypeInv, NEW v \in Workers, NEW w \in Workers, NextFor(v) # None,
         NextFor(v) = NextFor(w)
  PROVE  v = w
<1>1. /\ Rank(Free, v) = Rank(Free, w) /\ v \in Free /\ w \in Free
  BY NextForItem DEF Starts
<1>2. Free \in SUBSET (1 .. WorkerCount) /\ WorkerCount \in Nat
  BY Numbers DEF Free, Workers
<1> QED
  BY <1>1, <1>2, RankIsPlace

LEMMA TickEffect ==
  ASSUME TypeInv, Tick
  PROVE  QueueEffect
<1>1. /\ slots' = [w \in Workers |->
                     IF NextFor(w) # None THEN NextFor(w)
                     ELSE IF Freed(w) THEN None ELSE slots[w]]
      /\ items' = [i \in DOMAIN items |->
                     IF \E w \in Workers : NextFor(w) = i
                       THEN [items[i] EXCEPT !.status = "Uploading"] ELSE Mirrored[i]]
      /\ st' = [w \in Workers |-> IF NextFor(w) # None THEN "Uploading" ELSE st[w]]
      /\ chan' = [w \in Workers |->
                    IF NextFor(w) # None THEN Append(chan[w], Start(NextFor(w))) ELSE chan[w]]
      /\ UNCHANGED <<eng, poll, disk, offs, fate, done, asked, nextId, ops>>
  BY DEF Tick, Stamp
<1>2. \A w \in Workers : NextFor(w) # None => NextFor(w) \in DOMAIN items
  BY NextForItem
<1>3. \A i \in DOMAIN items : /\ items'[i] \in Item /\ items'[i].url = items[i].url
                              /\ items'[i].file = items[i].file
  <2>1. \A i \in DOMAIN items : /\ Mirrored[i] \in Item /\ Mirrored[i].url = items[i].url
                                /\ Mirrored[i].file = items[i].file
    BY MirroredItem
  <2>2. \A i \in DOMAIN items :
          /\ [items[i] EXCEPT !.status = "Uploading"] \in Item
          /\ [items[i] EXCEPT !.status = "Uploading"].url = items[i].url
          /\ [items[i] EXCEPT !.status = "Uploading"].file = items[i].file
    BY Given, NewStatus
  <2> QED
    BY <1>1, <2>1, <2>2
<1>4. items' \in [DOMAIN items' -> Item] /\ DOMAIN items' = DOMAIN items
  BY <1>1, <1>3
<1>5. slots' \in [Workers -> Ids \cup {None}] /\ \A v \in Workers : slots'[v] < nextId
  <2>1. None < nextId
    BY Given, Numbers DEF None
  <2>2. \A w \in Workers : slots'[w] \in Ids \cup {None} /\ slots'[w] < nextId
    BY <1>1, <1>2, <2>1, Given
  <2> QED
    BY <1>1, <2>2
<1>6. chan' = [v \in Workers |-> chan'[v]]
  BY <1>1
<1>7. ASSUME NEW v \in Workers
      PROVE  chan'[v] \in {chan[v], << >>} \/ \E c \in Command : Sends(v, c)
  <2>1. CASE NextFor(v) = None
    BY <1>1, <2>1
  <2>2. CASE NextFor(v) # None
    <3> DEFINE i == NextFor(v)
    <3>1. i \in DOMAIN items /\ i \in Ids /\ items[i].file \in Files /\ items[i].url \in Resources
      BY <1>2, <2>2, Given
    <3>2. chan'[v] = Append(chan[v], Start(i))
      BY <1>1, <2>2
    <3> HIDE DEF i
    <3>3. Start(i) \in Command
      BY <3>1 DEF Start, Command, StartCommand
    <3>4. Sends(v, Start(i))
      BY <3>1, <3>2 DEF Sends
    <3> QED
      BY <3>3, <3>4
  <2> QED
    BY <2>1, <2>2
<1>8. st' \in [Workers -> Ended \cup {"Uploading", "Paused"}]
  BY <1>1, Given
<1> QED
  BY <1>1, <1>3, <1>4, <1>5, <1>6, <1>7, <1>8, Given, CallEffect

-----------------------------------------------------------------------------
(* The types and what is stored, whatever the order of the steps.          *)

Stored == TypeInv /\ Owned /\ StoredIsResumable

LEMMA NextEffect ==
  ASSUME TypeInv, [Next]_vars
  PROVE  QueueEffect \/ \E w \in Workers : Effect(w)
<1>1. ASSUME NEW w \in Workers, Work(w)
      PROVE  Effect(w)
  BY <1>1, WorkEffect
<1>2. CASE Tick
  BY <1>2, TickEffect
<1>3. CASE User
  <2>1. ASSUME NEW f \in Files, Add(f) PROVE QueueEffect
    BY <2>1, AddEffect
  <2>2. CASE PauseOrResume
    BY <2>2, TellEffect DEF PauseOrResume
  <2>3. Queued \in SUBSET DOMAIN items
    BY DEF Queued
  <2>4. CASE AbortItem
    <3>1. ASSUME NEW w \in Workers, Abort({w}, {}) PROVE QueueEffect
      BY <3>1, AbortEffect
    <3>2. ASSUME NEW i \in Queued, Abort({}, {i}) PROVE QueueEffect
      BY <2>3, <3>2, AbortEffect
    <3> QED
      BY <2>4, <3>1, <3>2 DEF AbortItem
  <2>5. CASE AbortAll
    BY <2>3, <2>5, AbortEffect DEF AbortAll
  <2>6. CASE Reload
    BY <2>6, ReloadEffect
  <2>7. ASSUME NEW i \in DOMAIN items, RemoveItem(i) \/ RetryItem(i) PROVE QueueEffect
    BY <2>7, RemoveItemEffect, RetryItemEffect
  <2>8. CASE Clear({"Complete"}) \/ Clear(Terminal)
    BY <2>8, ClearEffect
  <2> QED
    BY <1>3, <2>1, <2>2, <2>4, <2>5, <2>6, <2>7, <2>8 DEF User
<1>4. CASE UNCHANGED vars
  BY <1>4, Given, CallEffect DEF vars
<1> QED
  BY <1>1, <1>2, <1>3, <1>4 DEF Next

LEMMA StoredInit ==
  ASSUME Init
  PROVE  Stored
<1> USE DEF Init
<1>1. /\ Len(offs) = 0 /\ DOMAIN offs = {} /\ offs \in Seq(0 .. Size) /\ 0 \in Resources
      /\ DOMAIN items = {}
  BY DEF Resources
<1>2. TypeOK
  <2>1. /\ nextId \in 1 .. MaxItems + 1 /\ ops \in 0 .. MaxOps
    BY ConstantsAssumption
  <2>2. /\ DOMAIN items \subseteq Ids /\ items \in [DOMAIN items -> Item]
        /\ fate \in [DOMAIN offs -> {"open", "error", "dropped", "aborted", "done"}]
    BY <1>1
  <2>3. /\ slots \in [Workers -> Ids \cup {None}] /\ disk \in [Files -> Resources]
        /\ st \in [Workers -> Ended \cup {"Uploading", "Paused"}]
        /\ eng \in [Workers -> Engine \cup {NoRun}] /\ chan \in [Workers -> Seq(Command)]
    BY <1>1 DEF None, Ended
  <2>4. failed \in [Workers -> Resources]
    BY <1>1 DEF None
  <2> QED
    BY <1>1, <2>1, <2>2, <2>3, <2>4 DEF TypeOK
<1>3. TypeInv
  BY <1>1, <1>2, ConstantsAssumption DEF TypeInv, None
<1>4. ASSUME NEW owner PROVE OwnedBy(owner)
  BY <1>1 DEF OwnedBy, KnownAs, None
<1>5. StoredIsResumable
  BY DEF StoredIsResumable
<1> QED
  BY <1>3, <1>4, <1>5 DEF Stored, Owned

\* What is kept of a failed run is a resource or nothing.
LEMMA FailedTypes ==
  ASSUME TypeInv, [Next]_vars
  PROVE  failed' \in [Workers -> Resources]
<1>1. failed \in [Workers -> Resources] /\ None \in Resources
  BY Numbers DEF TypeInv, TypeOK, None
<1>2. ASSUME NEW w \in Workers, NEW status, Return(w, status), Running(w)
      PROVE  failed' \in [Workers -> Resources]
  <2>1. Target(eng[w]) \in Resources
    BY <1>2, EngineFields DEF Target, Running
  <2> QED
    BY <1>1, <1>2, <2>1 DEF Return
<1>3. ASSUME NEW w \in Workers, Work(w) PROVE failed' \in [Workers -> Resources]
  <2>1. CASE TakeCommand(w)
    BY <1>1, <2>1 DEF TakeCommand
  <2>2. CASE eng[w].pc # "idle" /\ \E status : Return(w, status)
    BY <1>2, <2>2, NoRunIdle DEF Running
  <2>3. CASE UNCHANGED failed
    BY <1>1, <2>3
  <2>4. CASE Create(w)
    BY <2>2, <2>3, <2>4 DEF Create, EnterLoop, Fail
  <2>5. CASE Probe(w)
    BY <2>2, <2>3, <2>5 DEF Probe, EnterLoop, Fail
  <2>6. CASE Interrupt(w)
    BY <2>3, <2>6 DEF Interrupt, React
  <2>7. CASE LoopTop(w)
    BY <2>2, <2>3, <2>7 DEF LoopTop, React
  <2>8. CASE Patch(w)
    BY <2>2, <2>3, <2>8 DEF Patch, Advanced, Wait, Fail
  <2>9. CASE Recover(w)
    BY <2>2, <2>3, <2>9 DEF Recover, Advanced, Wait, Fail
  <2>10. CASE BackoffEnds(w)
    BY <2>3, <2>10 DEF BackoffEnds, Wait
  <2> QED
    BY <1>3, <2>1, <2>4, <2>5, <2>6, <2>7, <2>8, <2>9, <2>10 DEF Work
<1>4. CASE Tick
  BY <1>1, <1>4 DEF Tick
<1>5. CASE Reload
  BY <1>1, <1>5 DEF Reload
<1>6. CASE User /\ ~Reload
  BY <1>1, <1>6 DEF User, Add, PauseOrResume, Tell, AbortItem, AbortAll, Abort, RemoveItem,
                    RetryItem, Clear
<1>7. CASE UNCHANGED vars
  BY <1>1, <1>7 DEF vars
<1> QED
  BY <1>3, <1>4, <1>5, <1>6, <1>7 DEF Next

LEMMA StoredNext ==
  ASSUME Stored, [Next]_vars
  PROVE  Stored'
<1> USE DEF Stored
<1>0. failed' \in [Workers -> Resources]
  BY FailedTypes
<1>1. PICK owner : OwnedBy(owner)
  BY DEF Owned
<1>2. CASE QueueEffect
  <2>1. OwnedBy(owner)'
    BY <1>1, <1>2, QueueOwned
  <2> QED
    BY <1>0, <1>2, <2>1, QueueTypes, QueueResumable DEF Owned
<1>3. ASSUME NEW w \in Workers, Effect(w) PROVE Stored'
  BY <1>0, <1>1, <1>3, WorkTypes, WorkOwned, WorkResumable
<1> QED
  BY <1>2, <1>3, NextEffect

\* Every resource belongs to one file, for the queue, the workers and localStorage
\* alike, and no entry of localStorage leads to an upload that has ended.
THEOREM StoredAlways == Spec => []Stored
BY StoredInit, StoredNext, PTL DEF Spec

\* The types hold always: an id, a resource or an offset is never out of range.
THEOREM TypeCorrect == Spec => []TypeOK
<1>1. Stored => TypeOK
  BY DEF Stored, TypeInv
<1> QED
  BY <1>1, StoredAlways, PTL

\* What localStorage holds for a file is never an upload that was completed or
\* that the user aborted, whatever the user, the scheduler and the workers do and
\* whenever a worker sees its commands (the removals in run_upload, add).
THEOREM ResumableAlways == Spec => []StoredIsResumable
<1>1. Stored => StoredIsResumable
  BY DEF Stored
<1> QED
  BY <1>1, StoredAlways, PTL

-----------------------------------------------------------------------------
(* Slots, engines and what the items show.  A tick finds no command in the *)
(* channel of a worker that is not running: PromptWorkers.                 *)

\* A worker's own step.
LEMMA WorkServes ==
  ASSUME TypeInv, NEW w \in Workers, Effect(w), Serves(w)
  PROVE  Serves(w)'
<1>1. /\ UNCHANGED <<slots, asked>> /\ EngineEffect(w) /\ StatusEffect(w)
  BY Elsewhere DEF Effect
<1>2. chan[w] \in Seq(Command) /\ DOMAIN chan[w] = 1 .. Len(chan[w]) /\ Len(chan[w]) \in Nat
  BY Given, Elements
<1>3. CASE Took(w)
  <2>1. /\ chan[w] # << >> /\ chan'[w] = Tail(chan[w]) /\ 1 \in DOMAIN chan[w]
        /\ DOMAIN chan'[w] = 1 .. Len(chan[w]) - 1
        /\ \A k \in DOMAIN chan'[w] : k + 1 \in DOMAIN chan[w] /\ chan'[w][k] = chan[w][k + 1]
    <3>1. /\ chan[w] # << >> /\ chan'[w] = Tail(chan[w]) /\ Len(chan[w]) \in Nat \ {0}
          /\ Tail(chan[w]) \in Seq(Command) /\ Len(Tail(chan[w])) = Len(chan[w]) - 1
          /\ \A k \in 1 .. Len(Tail(chan[w])) : Tail(chan[w])[k] = chan[w][k + 1]
      BY <1>3, Channel DEF Took
    <3>2. DOMAIN Tail(chan[w]) = 1 .. Len(Tail(chan[w]))
      BY <3>1, Elements
    <3> QED
      BY <1>2, <3>1, <3>2
  <2>2. NoStart(chan'[w])
    <3>1. \A k \in DOMAIN chan'[w] : k + 1 > 1
      BY <2>1
    <3> QED
      BY <2>1, <3>1 DEF NoStart, Serves
  <2>3. slots[w] # None =>
          /\ \A k \in DOMAIN chan'[w] : chan'[w][k].kind = "Abort" => slots[w] \in asked
          /\ chan[w][1].kind = "Abort" => slots[w] \in asked
    BY <2>1 DEF Serves
  <2>4. chan[w][1].kind = "Start" => /\ ~Running(w) /\ st[w] = "Uploading"
                                     /\ chan[w][1].item = slots[w]
    BY <2>1 DEF Serves, Running, NoStart
  <2>5. eng'[w] # NoRun => /\ st'[w] \in {"Uploading", "Paused"} /\ eng'[w].item = slots[w]
    <3>1. CASE Begins(w)
      <4>1. chan[w][1].kind = "Start" /\ eng'[w].item = chan[w][1].item
        BY <3>1 DEF Begins, Run
      <4> QED
        BY <1>1, <2>4, <3>1, <4>1 DEF StatusEffect
    <3>2. CASE GoesOn(w) /\ ~Begins(w)
      BY <1>1, <3>2 DEF GoesOn, StatusEffect, Serves, Running
    <3> QED
      BY <1>1, <3>1, <3>2 DEF EngineEffect
  <2>6. slots[w] # None => /\ st'[w] = "Idle" => slots[w] \in asked
                           /\ st'[w] = "Complete" => slots[w] \in done'
    BY <1>1, <2>3, <2>4 DEF StatusEffect, Serves, Running
  <2> QED
    BY <1>1, <2>2, <2>3, <2>5, <2>6 DEF Serves, NoStart
<1>4. CASE ~Took(w)
  <2>1. Running(w) /\ chan'[w] = chan[w] /\ (eng'[w] = NoRun \/ (GoesOn(w) /\ ~Begins(w)))
    BY <1>1, <1>4 DEF EngineEffect, Begins
  <2>2. NoStart(chan[w]) /\ st[w] \in {"Uploading", "Paused"} /\ eng[w].item = slots[w]
    BY <2>1 DEF Serves, Running
  <2>3. eng'[w] # NoRun => /\ st'[w] \in {"Uploading", "Paused"} /\ eng'[w].item = slots[w]
    BY <1>1, <2>1, <2>2 DEF GoesOn, StatusEffect
  <2>4. st'[w] # "Idle" /\ (st'[w] = "Complete" => slots[w] \in done')
    BY <1>1, <1>4, <2>2 DEF StatusEffect
  <2> QED
    BY <1>1, <2>1, <2>2, <2>3, <2>4 DEF Serves, NoStart
<1> QED
  BY <1>3, <1>4

LEMMA WorkServing ==
  ASSUME TypeInv, NEW w \in Workers, Effect(w), Serving
  PROVE  Serving'
<1>1. /\ \A v \in Workers \ {w} : eng'[v] = eng[v] /\ st'[v] = st[v] /\ chan'[v] = chan[v]
      /\ items' = items /\ slots' = slots /\ asked' = asked /\ done \subseteq done'
  BY Elsewhere DEF Effect, StatusEffect
<1>2. Serves(w)'
  BY WorkServes DEF Serving
<1>3. ASSUME NEW v \in Workers \ {w} PROVE Serves(v)'
  BY <1>1 DEF Serving, Serves, NoStart
<1>4. OneSlot' /\ StatusIsTrue'
  BY <1>1 DEF Serving, OneSlot, StatusIsTrue
<1> QED
  BY <1>2, <1>3, <1>4 DEF Serving

\* A call of the user sends at most one command, which is no Start.
LEMMA CallServes ==
  ASSUME TypeInv, NEW w \in Workers, Serves(w),
         eng'[w] = eng[w], st'[w] = st[w], slots'[w] = slots[w],
         NEW kind \in {"Pause", "Resume", "Abort"},
         chan'[w] = chan[w] \/ chan'[w] = Append(chan[w], Plain(kind)),
         slots[w] # None => /\ slots[w] \in asked => slots[w] \in asked'
                            /\ slots[w] \in done => slots[w] \in done',
         kind = "Abort" /\ chan'[w] # chan[w] /\ slots[w] # None => slots[w] \in asked'
  PROVE  Serves(w)'
<1>1. CASE chan'[w] = chan[w]
  BY <1>1 DEF Serves, NoStart
<1>2. CASE chan'[w] = Append(chan[w], Plain(kind)) /\ chan'[w] # chan[w]
  <2>1. /\ Plain(kind) \in Command /\ Plain(kind).kind = kind /\ chan[w] \in Seq(Command)
    BY Given, PlainSent, <1>2
  <2>2. /\ DOMAIN chan'[w] = 1 .. Len(chan[w]) + 1
        /\ DOMAIN chan[w] = 1 .. Len(chan[w]) /\ Len(chan[w]) \in Nat
        /\ chan'[w][Len(chan[w]) + 1] = Plain(kind)
        /\ \A j \in 1 .. Len(chan[w]) : chan'[w][j] = chan[w][j]
    BY <1>2, <2>1, Appended
  <2>3. ASSUME NEW k \in DOMAIN chan'[w]
        PROVE  \/ k \in DOMAIN chan[w] /\ chan'[w][k] = chan[w][k]
               \/ chan'[w][k].kind = kind
    BY <2>1, <2>2
  <2> QED
    BY <1>2, <2>3 DEF Serves, NoStart
<1> QED
  BY <1>1, <1>2

LEMMA AddServing ==
  ASSUME TypeInv, Serving, NEW f \in Files, Add(f)
  PROVE  Serving'
<1>1. PICK url : items' = [i \in DOMAIN items \cup {nextId} |->
                    IF i = nextId THEN [file |-> f, url |-> url, status |-> "Queued"]
                    ELSE items[i]]
  BY DEF Add
<1>2. UNCHANGED <<slots, chan, st, eng, done, asked>>
  BY DEF Add
<1>3. (\A w \in Workers : Serves(w)') /\ OneSlot'
  BY <1>2 DEF Serving, Serves, NoStart, OneSlot
<1>4. StatusIsTrue'
  BY <1>1, <1>2 DEF Serving, StatusIsTrue
<1> QED
  BY <1>3, <1>4 DEF Serving

LEMMA TellServing ==
  ASSUME TypeInv, Serving, NEW S, NEW kind \in {"Pause", "Resume"}, Tell(S, kind)
  PROVE  Serving'
<1>1. /\ chan' = [v \in Workers |-> IF v \in S THEN Append(chan[v], Plain(kind)) ELSE chan[v]]
      /\ UNCHANGED <<items, slots, st, eng, done, asked>>
  BY DEF Tell, queue
<1>2. \A w \in Workers : Serves(w)'
  BY <1>1, CallServes DEF Serving
<1>3. OneSlot' /\ StatusIsTrue'
  BY <1>1 DEF Serving, OneSlot, StatusIsTrue
<1> QED
  BY <1>2, <1>3 DEF Serving

LEMMA AbortServing ==
  ASSUME TypeInv, Serving, NEW S \in SUBSET Workers, NEW ids \in SUBSET DOMAIN items,
         Abort(S, ids)
  PROVE  Serving'
<1>1. /\ chan' = [v \in Workers |-> IF v \in S THEN Append(chan[v], Plain("Abort")) ELSE chan[v]]
      /\ items' = [i \in DOMAIN items |->
                     IF i \in ids THEN [items[i] EXCEPT !.status = "Aborted"] ELSE items[i]]
      /\ asked' = (asked \cup ids \cup {slots[w] : w \in S}) \ {None}
      /\ UNCHANGED <<slots, st, eng, done>>
  BY DEF Abort
<1>2. \A w \in Workers : Serves(w)'
  BY <1>1, CallServes DEF Serving
<1>3. ASSUME NEW i \in DOMAIN items'
      PROVE  /\ items'[i].status = "Complete" => i \in done'
             /\ items'[i].status = "Aborted" => i \in asked'
  <2>1. i \in DOMAIN items /\ i # None
    BY <1>1, Given
  <2>2. CASE i \in ids
    <3>1. items'[i].status = "Aborted"
      <4>1. items'[i] = [items[i] EXCEPT !.status = "Aborted"] /\ items[i] \in Item
        BY <1>1, <2>1, <2>2, Given
      <4> QED
        BY <4>1 DEF Item
    <3> QED
      BY <1>1, <2>1, <2>2, <3>1
  <2>3. CASE i \notin ids
    <3>1. items'[i] = items[i]
      BY <1>1, <2>1, <2>3
    <3> QED
      BY <1>1, <2>1, <3>1 DEF Serving, StatusIsTrue
  <2> QED
    BY <2>2, <2>3
<1>4. OneSlot'
  BY <1>1 DEF Serving, OneSlot
<1> QED
  BY <1>2, <1>3, <1>4 DEF Serving, StatusIsTrue

LEMMA RemoveItemServing ==
  ASSUME TypeInv, Serving, NEW i \in DOMAIN items, RemoveItem(i)
  PROVE  Serving'
<1>1. /\ chan' = [v \in Workers |->
                    IF slots[v] = i THEN Append(chan[v], Plain("Abort")) ELSE chan[v]]
      /\ items' = [j \in DOMAIN items \ {i} |-> items[j]]
      /\ asked' = asked \cup {i}
      /\ UNCHANGED <<slots, st, eng, done>>
  BY DEF RemoveItem, KeepItems
<1>2. \A w \in Workers : Serves(w)'
  BY <1>1, CallServes DEF Serving
<1>3. OneSlot' /\ StatusIsTrue'
  BY <1>1 DEF Serving, OneSlot, StatusIsTrue
<1> QED
  BY <1>2, <1>3 DEF Serving

LEMMA ClearServing ==
  ASSUME TypeInv, Serving, NEW statuses, Clear(statuses)
  PROVE  Serving'
<1>1. PICK S : items' = [j \in DOMAIN items \ S |-> items[j]]
  BY DEF Clear, KeepItems
<1>2. UNCHANGED <<slots, chan, st, eng, done, asked>>
  BY DEF Clear
<1>3. (\A w \in Workers : Serves(w)') /\ OneSlot'
  BY <1>2 DEF Serving, Serves, NoStart, OneSlot
<1>4. StatusIsTrue'
  BY <1>1, <1>2 DEF Serving, StatusIsTrue
<1> QED
  BY <1>3, <1>4 DEF Serving

LEMMA RetryItemServing ==
  ASSUME TypeInv, Serving, NEW i \in DOMAIN items, RetryItem(i)
  PROVE  Serving'
<1>1. /\ items' = [items EXCEPT ![i].status = "Queued", ![i].url = None]
      /\ asked' = asked \ {i} /\ done' = done \ {i}
      /\ UNCHANGED <<slots, chan, st, eng>> /\ \A w \in Workers : slots[w] # i
  BY DEF RetryItem
<1>2. \A w \in Workers : Serves(w)'
  BY <1>1, CallServes DEF Serving
<1>3. /\ items'[i] = [items[i] EXCEPT !.status = "Queued", !.url = None]
      /\ DOMAIN items' = DOMAIN items
  BY <1>1, Given
<1>4. items'[i].status = "Queued"
  BY <1>3, Given DEF Item
<1>5. OneSlot' /\ StatusIsTrue'
  BY <1>1, <1>3, <1>4 DEF Serving, OneSlot, StatusIsTrue
<1> QED
  BY <1>2, <1>5 DEF Serving

\* A worker with nothing to do serves an empty slot.
LEMMA IdleServes ==
  ASSUME NEW w, slots'[w] = None, chan'[w] = << >>, eng'[w] = NoRun
  PROVE  Serves(w)'
<1>1. DOMAIN chan'[w] = {}
  OBVIOUS
<1> QED
  BY <1>1 DEF Serves, NoStart

LEMMA ReloadServing ==
  ASSUME TypeInv, Reload
  PROVE  Serving'
<1>1. /\ items' = << >> /\ slots' = [w \in Workers |-> None]
      /\ chan' = [w \in Workers |-> << >>] /\ eng' = [w \in Workers |-> NoRun]
  BY DEF Reload
<1>2. \A w \in Workers : Serves(w)'
  BY <1>1, IdleServes
<1>3. OneSlot' /\ StatusIsTrue'
  BY <1>1 DEF OneSlot, StatusIsTrue
<1> QED
  BY <1>2, <1>3 DEF Serving

LEMMA UserServing ==
  ASSUME TypeInv, Serving, User
  PROVE  Serving'
<1>1. ASSUME NEW f \in Files, Add(f) PROVE Serving'
  BY <1>1, AddServing
<1>2. CASE PauseOrResume
  BY <1>2, TellServing DEF PauseOrResume
<1>3. Queued \in SUBSET DOMAIN items
  BY DEF Queued
<1>4. CASE AbortItem
  <2>1. ASSUME NEW w \in Workers, Abort({w}, {}) PROVE Serving'
    BY <2>1, AbortServing
  <2>2. ASSUME NEW i \in Queued, Abort({}, {i}) PROVE Serving'
    BY <1>3, <2>2, AbortServing
  <2> QED
    BY <1>4, <2>1, <2>2 DEF AbortItem
<1>5. CASE AbortAll
  BY <1>3, <1>5, AbortServing DEF AbortAll
<1>6. CASE Reload
  BY <1>6, ReloadServing
<1>7. ASSUME NEW i \in DOMAIN items, RemoveItem(i) \/ RetryItem(i) PROVE Serving'
  BY <1>7, RemoveItemServing, RetryItemServing
<1>8. CASE Clear({"Complete"}) \/ Clear(Terminal)
  BY <1>8, ClearServing
<1> QED
  BY <1>1, <1>2, <1>4, <1>5, <1>6, <1>7, <1>8 DEF User

\* A worker whose slot is free has nothing to do.
LEMMA FreeIsIdle ==
  ASSUME TypeInv, Serving, Tick, PromptWorkers = TRUE, NEW w \in Free
  PROVE  w \in Workers /\ eng[w] = NoRun /\ chan[w] = << >>
<1>1. w \in Workers /\ (slots[w] = None \/ st[w] \in Ended)
  BY DEF Free, Freed
<1>2. ASSUME eng[w] # NoRun PROVE FALSE
  <2>1. /\ st[w] \in {"Uploading", "Paused"} /\ eng[w].item = slots[w] /\ eng[w].item \in Ids
    BY <1>1, <1>2, EngineFields DEF Serving, Serves
  <2> QED
    BY <1>1, <2>1 DEF Ended, Ids, None
<1> QED
  BY <1>1, <1>2 DEF Tick

LEMMA TickServing ==
  ASSUME TypeInv, Serving, Tick, PromptWorkers = TRUE
  PROVE  Serving'
<1>1. /\ slots' = [w \in Workers |->
                     IF NextFor(w) # None THEN NextFor(w)
                     ELSE IF Freed(w) THEN None ELSE slots[w]]
      /\ items' = [i \in DOMAIN items |->
                     IF \E w \in Workers : NextFor(w) = i
                       THEN [items[i] EXCEPT !.status = "Uploading"] ELSE Mirrored[i]]
      /\ st' = [w \in Workers |-> IF NextFor(w) # None THEN "Uploading" ELSE st[w]]
      /\ chan' = [w \in Workers |->
                    IF NextFor(w) # None THEN Append(chan[w], Start(NextFor(w))) ELSE chan[w]]
      /\ UNCHANGED <<eng, done, asked>>
  BY DEF Tick, Stamp
<1>2. ASSUME NEW w \in Workers PROVE Serves(w)'
  <2>1. CASE NextFor(w) # None
    <3> DEFINE i == NextFor(w)
    <3>1. w \in Free
      BY <2>1, NextForItem
    <3>2. eng[w] = NoRun /\ chan[w] = << >>
      BY <3>1, FreeIsIdle
    <3>3. /\ slots'[w] = i /\ st'[w] = "Uploading" /\ eng'[w] = NoRun
          /\ chan'[w] = Append(<< >>, Start(i))
      BY <1>1, <2>1, <3>2
    <3> HIDE DEF i
    <3>4. DOMAIN chan'[w] = {1} /\ chan'[w][1] = Start(i)
      BY <3>3
    <3>5. Start(i).kind = "Start" /\ Start(i).item = i
      BY DEF Start
    <3> QED
      BY <3>3, <3>4, <3>5 DEF Serves
  <2>2. CASE NextFor(w) = None /\ Freed(w)
    <3>1. w \in Free
      BY <2>2 DEF Free
    <3>2. eng[w] = NoRun /\ chan[w] = << >>
      BY <3>1, FreeIsIdle
    <3>3. slots'[w] = None /\ eng'[w] = NoRun /\ chan'[w] = << >>
      BY <1>1, <2>2, <3>2
    <3> QED
      BY <3>3, IdleServes
  <2>3. CASE NextFor(w) = None /\ ~Freed(w)
    <3>1. slots'[w] = slots[w] /\ st'[w] = st[w] /\ eng'[w] = eng[w] /\ chan'[w] = chan[w]
      BY <1>1, <2>3
    <3>2. Serves(w) /\ asked' = asked /\ done' = done
      BY <1>1 DEF Serving
    <3> QED
      BY <3>1, <3>2, CallServes
  <2> QED
    BY <2>1, <2>2, <2>3
<1>3. OneSlot'
  <2>1. SUFFICES ASSUME NEW v \in Workers, NEW w \in Workers,
                        slots'[v] = slots'[w], slots'[v] # None
                 PROVE  v = w
    BY DEF OneSlot
  <2>2. CASE NextFor(v) # None /\ NextFor(w) # None
    BY <1>1, <2>1, <2>2, NextForOnce
  <2>3. CASE NextFor(v) # None /\ NextFor(w) = None
    BY <1>1, <2>1, <2>3, NextForItem
  <2>4. CASE NextFor(v) = None /\ NextFor(w) # None
    BY <1>1, <2>1, <2>4, NextForItem
  <2>5. CASE NextFor(v) = None /\ NextFor(w) = None
    BY <1>1, <2>1, <2>5 DEF Serving, OneSlot
  <2> QED
    BY <2>2, <2>3, <2>4, <2>5
<1>4. StatusIsTrue'
  <2>1. SUFFICES ASSUME NEW i \in DOMAIN items
                 PROVE  /\ items'[i].status = "Complete" => i \in done
                        /\ items'[i].status = "Aborted" => i \in asked
    BY <1>1 DEF StatusIsTrue
  <2>2. CASE \E w \in Workers : NextFor(w) = i
    <3>1. items'[i].status = "Uploading"
      BY <1>1, <2>2, Given, NewStatus
    <3> QED
      BY <3>1
  <2>3. CASE ~\E w \in Workers : NextFor(w) = i
    <3>1. items'[i] = Mirrored[i]
      BY <1>1, <2>3
    <3>2. CASE \A w \in Workers : slots[w] # i
      <4>1. items'[i] = items[i]
        BY <3>1, <3>2, MirroredItem
      <4> QED
        BY <4>1 DEF Serving, StatusIsTrue
    <3>3. CASE \E w \in Workers : slots[w] = i
      <4>1. PICK w \in Workers : slots[w] = i /\ Mirrored[i].status = Mirror(items[i].status, st[w])
        BY <3>3, MirroredItem
      <4>2. /\ st[w] = "Complete" => i \in done
            /\ st[w] = "Idle" => i \in asked
            /\ items[i].status = "Complete" => i \in done
            /\ items[i].status = "Aborted" => i \in asked
            /\ st[w] \in Ended \cup {"Uploading", "Paused"}
        BY <4>1, Given DEF Serving, Serves, StatusIsTrue
      <4> QED
        BY <3>1, <4>1, <4>2 DEF Mirror, Ended
    <3> QED
      BY <3>2, <3>3
  <2> QED
    BY <2>2, <2>3
<1> QED
  BY <1>2, <1>3, <1>4 DEF Serving

LEMMA ServingInit ==
  ASSUME Init
  PROVE  Serving
<1>1. ASSUME NEW w \in Workers PROVE Serves(w)
  <2>1. slots[w] = None /\ chan[w] = << >> /\ DOMAIN chan[w] = {} /\ eng[w] = NoRun
    BY DEF Init
  <2> QED
    BY <2>1 DEF Serves, NoStart
<1>2. OneSlot /\ StatusIsTrue
  BY DEF Init, OneSlot, StatusIsTrue
<1> QED
  BY <1>1, <1>2 DEF Serving

LEMMA ServingNext ==
  ASSUME TypeInv, Serving, [Next]_vars, PromptWorkers = TRUE
  PROVE  Serving'
<1>1. CASE User
  BY <1>1, UserServing
<1>2. CASE Tick
  BY <1>2, TickServing
<1>3. ASSUME NEW w \in Workers, Work(w) PROVE Serving'
  BY <1>3, WorkEffect, WorkServing
<1>4. CASE UNCHANGED vars
  BY <1>4 DEF vars, Serving, Serves, NoStart, OneSlot, StatusIsTrue
<1> QED
  BY <1>1, <1>2, <1>3, <1>4 DEF Next

\* A Start is the first command of a worker that does not run, a running worker
\* runs its slot's item, and what a worker shows is true of that item.
THEOREM ServingAlways ==
  ASSUME PromptWorkers = TRUE
  PROVE  Spec => []Serving
<1>1. TypeInv /\ Serving /\ [Next]_vars => Serving'
  BY ServingNext
<1>2. Stored => TypeInv
  BY DEF Stored
<1>3. Init => Serving
  BY ServingInit
<1> QED
  BY <1>1, <1>2, <1>3, StoredAlways, PTL DEF Spec

\* A worker uploads the item of its slot and no other, and no two slots hold the
\* same item (slot_assignments against run_upload), for any number of workers.
THEOREM SlotsAlways ==
  ASSUME PromptWorkers = TRUE
  PROVE  Spec => []EngineServesSlot
<1>1. Serving => EngineServesSlot
  BY DEF Serving, Serves, OneSlot, EngineServesSlot
<1> QED
  BY <1>1, ServingAlways, PTL

\* An item shown as Complete is whole on the server and one shown as Aborted was
\* given up by the user: no status of a worker's previous file and no late Abort
\* reaches the file it was given next (start(), reconcile_tick).
THEOREM StatusAlways ==
  ASSUME PromptWorkers = TRUE
  PROVE  Spec => []StatusIsTrue
<1>1. Serving => StatusIsTrue
  BY DEF Serving
<1> QED
  BY <1>1, ServingAlways, PTL
=============================================================================
