-------------------------- MODULE FinalUploadProofs --------------------------
(***************************************************************************)
(* Proofs about FinalUpload, for any number of requests and for any list   *)
(* of partial uploads, in any order and with repetitions.                  *)
(*                                                                         *)
(* The first part is about the operators: the sum over the parts and their *)
(* concatenation are recursive functions over the list, so what they yield *)
(* is shown by induction over its positions.  Induct replaces the          *)
(* library's induction rules, whose operator parameter the provers cannot  *)
(* instantiate.                                                            *)
(*                                                                         *)
(* The second part is the inductive invariant FInv.  Of the properties     *)
(* none is inductive by itself.  A completed final upload is whole because *)
(* a request that is about to concatenate has all the parts locked and     *)
(* unchanged since it read them (Plans); it completes once because reader, *)
(* creator and deleter exclude each other (CreationOK, OwnerAlone) and     *)
(* because a reader that went on to the plan has seen an incomplete record *)
(* which nobody has completed since (Sees).                                *)
(***************************************************************************)
EXTENDS FinalUpload, WellFoundedInduction, TLAPS

\* The length of the final upload, once every part is complete.
N == Len(Order)

\* The points of each kind of request.
Reading == {"recover", "plan", "lockParts", "replan", "inspect", "concat",
            "complete", "refresh"}
Route(k) ==
  CASE k = "create" -> {"plan", "lockParts", "replan", "apply", "create", "concat",
                        "record", "notify"}
    [] k = "read"   -> Reading \cup {"idle", "done", "lock", "load", "notify"}
    [] k = "patch"  -> {"lock", "load", "append", "commit"}
    [] OTHER        -> {"lock", "load", "delBlob", "delState"}

Active(r) == pc[r] \notin {"idle", "done"}

\* The records of the parts and of the final upload.
PartRecord == [offset : {0, 1}, length : {1, Deferred}]
FinalRecord == [offset : 0 .. N, length : {N, Deferred}]

\* What each request is and holds.
Local(r) ==
  /\ kind[r] \in Kinds /\ pc[r] \in Route(kind[r])
  /\ target[r] \in Uploads
  /\ kind[r] \in {"read", "create"} => target[r] = Final
  /\ kind[r] = "patch" => target[r] # Final
  /\ st[r] \in Record
  /\ plan[r] \in [Parts -> PartRecord]
  /\ todo[r] \in SUBSET Parts
  /\ pc[r] \in {"plan", "lockParts", "replan"} => todo[r] # {}
  /\ kind[r] # "create" /\ pc[r] \notin {"idle", "done", "lock"} => lock[target[r]] = r

AreFunctions ==
  /\ pc = [r \in Requests |-> pc[r]] /\ kind = [r \in Requests |-> kind[r]]
  /\ target = [r \in Requests |-> target[r]] /\ st = [r \in Requests |-> st[r]]
  /\ plan = [r \in Requests |-> plan[r]] /\ todo = [r \in Requests |-> todo[r]]

Locals == AreFunctions /\ \A r \in Requests : Local(r)

\* The stored parts.
PartOK(p) ==
  /\ state[p] \in PartRecord
  /\ bytes[p] \in {<< >>, <<p>>}
  /\ hasBlob[p] /\ state[p].offset = 1 => bytes[p] = <<p>>

StoresOK ==
  /\ hasState \in [Uploads -> BOOLEAN]
  /\ hasBlob \in [Uploads -> BOOLEAN]
  /\ state = [u \in Uploads |-> state[u]]
  /\ bytes = [u \in Uploads |-> bytes[u]]
  /\ lock \in [Uploads -> Requests \cup {NoOne}]
  /\ late \in BOOLEAN /\ created \in BOOLEAN
  /\ gated \in Nat /\ finished \in Nat /\ doomed \subseteq Uploads
  /\ \A p \in Parts : PartOK(p)
  /\ state[Final] \in FinalRecord
  /\ bytes[Final] \in {<< >>, Order}

\* The final upload.
LengthsKnown == \A p \in Parts : state[p].length = 1
FinalOK ==
  /\ bytes[Final] = Order => gated > 0
  /\ FinalComplete => bytes[Final] = Order
  /\ state[Final].length # Deferred => LengthsKnown

\* Who has reported the completion.
HooksOK ==
  Final \notin doomed =>
    /\ finished \in {0, 1}
    /\ finished = 1 => FinalComplete
    /\ \A r \in Requests : pc[r] = "notify" => finished = 0 /\ FinalComplete
    /\ \A q, r \in Requests : pc[q] = "notify" /\ pc[r] = "notify" => q = r

\* One creation, which is alone with the final upload until it is recorded.
CreationOK ==
  /\ ~created => ~hasState[Final] /\ Final \notin doomed
  /\ \A r \in Requests : kind[r] = "create" => created
  /\ \A q, r \in Requests : kind[q] = "create" /\ kind[r] = "create" => q = r
  /\ \A r \in Requests : kind[r] = "create" /\ pc[r] # "notify" =>
       ~hasState[Final] /\ Final \notin doomed
  /\ ~hasState[Final] /\ Final \notin doomed =>
       \A r \in Requests : Active(r) /\ kind[r] # "create" => target[r] # Final

\* What a request knows of the parts.
Secured(r, p) == lock[p] = r /\ hasState[p] /\ state[p] = plan[r][p]
Plans(r) ==
  /\ \A p \in Parts : plan[r][p].length # Deferred => state[p].length = 1
  /\ pc[r] = "lockParts" => \A p \in Parts \ todo[r] : lock[p] = r
  /\ pc[r] = "replan" => \A p \in Parts : lock[p] = r /\ (p \notin todo[r] => Secured(r, p))
  /\ pc[r] \in {"inspect", "apply", "create", "record", "concat", "complete"}
        /\ AllComplete(plan[r]) => \A p \in Parts : Secured(r, p)
  /\ kind[r] = "read" /\ pc[r] \in Reading \ {"recover"} /\ st[r].length # Deferred =>
       \A p \in Parts : (pc[r] = "plan" /\ p \in todo[r]) \/ plan[r][p].length = 1

\* What a request knows of the final upload.
Sees(r) ==
  /\ kind[r] = "read" /\ pc[r] \in Reading =>
       /\ hasState[Final] /\ st[r] \in FinalRecord
       /\ st[r].length # Deferred => LengthsKnown
       /\ pc[r] # "recover" => ~FinalComplete
       /\ pc[r] \notin {"concat", "complete", "refresh"} => st[r] = state[Final]
  /\ pc[r] \in {"create", "concat", "record"} /\ kind[r] = "create" =>
       st[r] = Planned(Blank, plan[r])
  /\ pc[r] \in {"create", "concat", "record", "complete"} /\ AllComplete(plan[r]) => gated > 0
  /\ pc[r] \in {"concat", "complete"} => AllComplete(plan[r])
  /\ pc[r] \in {"record", "complete"} /\ AllComplete(plan[r]) => bytes[Final] = Order
  /\ pc[r] = "refresh" /\ AllComplete(plan[r]) => bytes[Final] = Order
  /\ pc[r] = "commit" => hasBlob[target[r]] /\ bytes[target[r]] = <<target[r]>>
  /\ pc[r] = "delState" => target[r] \in doomed
  /\ pc[r] = "delBlob" /\ kind[r] = "sweep" /\ target[r] = Final =>
       bytes[Final] # Order \/ state[Final].length = Deferred

Shared == StoresOK /\ FinalOK /\ HooksOK /\ CreationOK
FInv == Locals /\ Shared /\ \A r \in Requests : Plans(r) /\ Sees(r)

-----------------------------------------------------------------------------
(* Induction, sums and concatenation.                                      *)

\* From the well-foundedness of < on the numbers.
LEMMA LeastNumber ==
  ASSUME NEW T \in SUBSET Nat, T # {}
  PROVE  \E x \in T : \A y \in T : x <= y
<1> DEFINE R == {ss \in Nat \X Nat : ss[1] < ss[2]}
<1>1. IsWellFoundedOn(R, Nat)
  BY NatLessThanWellFounded DEF OpToRel
<1> HIDE DEF R
<1>2. PICK x \in T : \A y \in T : ~ (<<y, x>> \in R)
  BY <1>1, WFMin
<1>3. \A y \in T : ~(y < x)
  BY <1>2 DEF R
<1> QED
  BY <1>3

\* Induction, for a set: its complement has no least element.
LEMMA Induct ==
  ASSUME NEW n \in Nat, NEW S \in SUBSET Nat, 0 \in S,
         \A i \in 0 .. n - 1 : i \in S => i + 1 \in S
  PROVE  \A i \in 0 .. n : i \in S
<1> DEFINE T == {i \in 0 .. n : i \notin S}
<1> SUFFICES ASSUME T # {} PROVE FALSE
  OBVIOUS
<1>1. T \in SUBSET Nat
  OBVIOUS
<1>2. PICK x \in T : \A y \in T : x <= y
  BY <1>1, LeastNumber
<1>3. x \in 1 .. n
  BY <1>2
<1>4. x - 1 \in 0 .. n - 1 /\ x - 1 \notin T
  BY <1>2, <1>3
<1> QED
  BY <1>2, <1>3, <1>4

Sums(f, n) == CHOOSE g : g = [i \in 0 .. n |-> IF i = 0 THEN 0 ELSE g[i - 1] + f[Order[i]]]

LEMMA TotalIs == \A f : Total(f) = Sums(f, Len(Order))[Len(Order)]
BY DEF Total, Sums

LEMMA SumsExist ==
  ASSUME NEW f, NEW n \in Nat
  PROVE  Sums(f, n) = [i \in 0 .. n |-> IF i = 0 THEN 0 ELSE Sums(f, n)[i - 1] + f[Order[i]]]
<1> DEFINE Is(g, m) == g = [i \in 0 .. m |-> IF i = 0 THEN 0 ELSE g[i - 1] + f[Order[i]]]
           S == {m \in Nat : \E g : Is(g, m)}
<1>1. 0 \in S
  <2>1. Is([i \in 0 .. 0 |-> 0], 0)
    OBVIOUS
  <2> QED
    BY <2>1
<1>2. ASSUME NEW m \in 0 .. n - 1, m \in S PROVE m + 1 \in S
  <2>1. PICK g : Is(g, m)
    BY <1>2
  <2> DEFINE h == [i \in 0 .. m + 1 |-> IF i = m + 1 THEN g[m] + f[Order[m + 1]] ELSE g[i]]
  <2>2. ASSUME NEW i \in 0 .. m + 1
        PROVE  h[i] = IF i = 0 THEN 0 ELSE h[i - 1] + f[Order[i]]
    <3>1. CASE i = m + 1
      BY <1>2, <3>1
    <3>2. CASE i # m + 1
      <4>1. i \in 0 .. m /\ (i # 0 => i - 1 \in 0 .. m)
        BY <1>2, <3>2
      <4>2. g[i] = IF i = 0 THEN 0 ELSE g[i - 1] + f[Order[i]]
        BY <2>1, <4>1
      <4> QED
        BY <1>2, <3>2, <4>1, <4>2
    <3> QED
      BY <3>1, <3>2
  <2>3. Is(h, m + 1)
    BY <2>2
  <2> HIDE DEF h
  <2>4. m + 1 \in Nat /\ \E x : Is(x, m + 1)
    BY <1>2, <2>3
  <2> QED
    BY <2>4
<1>3. S \in SUBSET Nat /\ n \in 0 .. n
  OBVIOUS
<1>4. n \in S
  <2> HIDE DEF S
  <2> QED
    BY <1>1, <1>2, <1>3, Induct
<1>5. PICK g : Is(g, n)
  BY <1>4
<1> QED
  BY <1>5 DEF Sums

LEMMA SumsStep ==
  ASSUME NEW f, NEW n \in Nat
  PROVE  /\ Sums(f, n)[0] = 0
         /\ \A i \in 1 .. n : Sums(f, n)[i] = Sums(f, n)[i - 1] + f[Order[i]]
<1> DEFINE g == Sums(f, n)
<1>1. g = [i \in 0 .. n |-> IF i = 0 THEN 0 ELSE g[i - 1] + f[Order[i]]]
  BY SumsExist
<1> HIDE DEF g
<1>2. g[0] = 0 /\ \A i \in 1 .. n : g[i] = g[i - 1] + f[Order[i]]
  BY <1>1
<1> QED
  BY <1>2 DEF g

LEMMA OrderType ==
  /\ Len(Order) \in Nat /\ Len(Order) > 0
  /\ Parts \subseteq Nat \ {Final}
  /\ \A i \in 1 .. Len(Order) : Order[i] \in Parts
  /\ \A p \in Parts : \E i \in 1 .. Len(Order) : p = Order[i]
BY ConstantsAssumption DEF Parts, ToSet

\* The sum of the lengths of parts of one byte.
LEMMA TotalFull ==
  ASSUME NEW f, \A p \in Parts : f[p] = 1
  PROVE  Total(f) = Len(Order)
<1> DEFINE n == Len(Order)
           g == Sums(f, n)
           S == {i \in Nat : g[i] = i}
<1>0. n \in Nat /\ \A i \in 1 .. n : f[Order[i]] = 1
  BY OrderType
<1>1. g[0] = 0 /\ \A i \in 1 .. n : g[i] = g[i - 1] + f[Order[i]]
  BY <1>0, SumsStep
<1> HIDE DEF g, n
<1>2. ASSUME NEW i \in 0 .. n - 1, i \in S PROVE i + 1 \in S
  <2>1. i + 1 \in 1 .. n /\ (i + 1) - 1 = i
    BY <1>0
  <2>2. g[i + 1] = i + 1
    BY <1>0, <1>1, <1>2, <2>1
  <2> QED
    BY <2>1, <2>2
<1>3. 0 \in S /\ S \in SUBSET Nat
  BY <1>1
<1>4. n \in S
  <2> HIDE DEF S
  <2> QED
    BY <1>0, <1>2, <1>3, Induct, n \in 0 .. n
<1> QED
  BY <1>4, TotalIs DEF g, n

\* The sum of their offsets: a part that has nothing yet is missing from it.
LEMMA TotalSome ==
  ASSUME NEW f, \A p \in Parts : f[p] \in {0, 1}
  PROVE  /\ Total(f) \in 0 .. Len(Order)
         /\ Total(f) = Len(Order) => \A p \in Parts : f[p] = 1
<1> DEFINE n == Len(Order)
           g == Sums(f, n)
           S == {i \in Nat : /\ g[i] \in 0 .. i
                             /\ g[i] = i => \A j \in 1 .. i : f[Order[j]] = 1}
<1>0. n \in Nat /\ \A i \in 1 .. n : f[Order[i]] \in {0, 1}
  BY OrderType
<1>1. g[0] = 0 /\ \A i \in 1 .. n : g[i] = g[i - 1] + f[Order[i]]
  BY <1>0, SumsStep
<1> HIDE DEF g, n
<1>2. ASSUME NEW i \in 0 .. n - 1, i \in S PROVE i + 1 \in S
  <2>1. i + 1 \in 1 .. n /\ f[Order[i + 1]] \in {0, 1} /\ (i + 1) - 1 = i
    BY <1>0
  <2>2. g[i + 1] = g[i] + f[Order[i + 1]]
    BY <1>1, <2>1
  <2>3. g[i] \in 0 .. i /\ (g[i] = i => \A j \in 1 .. i : f[Order[j]] = 1)
    BY <1>2
  <2>4. g[i + 1] \in 0 .. i + 1
    BY <2>1, <2>2, <2>3
  <2>5. g[i + 1] = i + 1 => g[i] = i /\ f[Order[i + 1]] = 1
    BY <2>1, <2>2, <2>3
  <2>6. \A j \in 1 .. i + 1 : j \in 1 .. i \/ j = i + 1
    OBVIOUS
  <2> QED
    BY <2>3, <2>4, <2>5, <2>6
<1>3. 0 \in S /\ S \in SUBSET Nat
  BY <1>1
<1>4. n \in S
  <2> HIDE DEF S
  <2> QED
    BY <1>0, <1>2, <1>3, Induct, n \in 0 .. n
<1>5. g[n] \in 0 .. n /\ (g[n] = n => \A j \in 1 .. n : f[Order[j]] = 1)
  BY <1>4
<1>6. Total(f) = g[n]
  BY TotalIs DEF g, n
<1> QED
  BY <1>5, <1>6, OrderType DEF n

\* Storage::concat of parts of one byte each.
Flats(seqs, n) ==
  CHOOSE g : g = [i \in 1 .. n |-> IF i = 1 THEN seqs[i] ELSE g[i - 1] \o seqs[i]]

LEMMA FlattenIs ==
  \A seqs : Len(seqs) # 0 => FlattenSeq(seqs) = Flats(seqs, Len(seqs))[Len(seqs)]
BY DEF FlattenSeq, Flats

LEMMA FlatsExist ==
  ASSUME NEW seqs, NEW n \in Nat
  PROVE  Flats(seqs, n) =
           [i \in 1 .. n |-> IF i = 1 THEN seqs[i] ELSE Flats(seqs, n)[i - 1] \o seqs[i]]
<1> DEFINE Is(g, m) == g = [i \in 1 .. m |-> IF i = 1 THEN seqs[i] ELSE g[i - 1] \o seqs[i]]
           S == {m \in Nat : \E g : Is(g, m)}
<1>1. 0 \in S
  <2>1. Is([i \in 1 .. 0 |-> 0], 0)
    OBVIOUS
  <2> QED
    BY <2>1
<1>2. ASSUME NEW m \in 0 .. n - 1, m \in S PROVE m + 1 \in S
  <2>1. PICK g : Is(g, m)
    BY <1>2
  <2> DEFINE e == IF m = 0 THEN seqs[1] ELSE g[m] \o seqs[m + 1]
             h == [i \in 1 .. m + 1 |-> IF i = m + 1 THEN e ELSE g[i]]
  <2>2. ASSUME NEW i \in 1 .. m + 1
        PROVE  h[i] = IF i = 1 THEN seqs[i] ELSE h[i - 1] \o seqs[i]
    <3>1. CASE i = m + 1
      BY <1>2, <3>1
    <3>2. CASE i # m + 1
      <4>1. i \in 1 .. m /\ (i # 1 => i - 1 \in 1 .. m)
        BY <1>2, <3>2
      <4>2. g[i] = IF i = 1 THEN seqs[i] ELSE g[i - 1] \o seqs[i]
        BY <2>1, <4>1
      <4> QED
        BY <1>2, <3>2, <4>1, <4>2
    <3> QED
      BY <3>1, <3>2
  <2>3. Is(h, m + 1)
    BY <2>2
  <2> HIDE DEF h, Is
  <2>4. m + 1 \in Nat
    BY <1>2
  <2>5. \E x : Is(x, m + 1)
    BY <2>3
  <2> QED
    BY <2>4, <2>5
<1>3. S \in SUBSET Nat /\ n \in 0 .. n
  <2> HIDE DEF Is
  <2> QED
    OBVIOUS
<1>4. n \in S
  <2> HIDE DEF S
  <2> QED
    BY <1>1, <1>2, <1>3, Induct
<1>5. PICK g : Is(g, n)
  BY <1>4
<1> QED
  BY <1>5 DEF Flats

LEMMA FlattenWhole ==
  ASSUME NEW b, \A p \in Parts : b[p] = <<p>>
  PROVE  FlattenSeq([i \in DOMAIN Order |-> b[Order[i]]]) = Order
<1> DEFINE n == Len(Order)
           seqs == [i \in DOMAIN Order |-> b[Order[i]]]
           g == Flats(seqs, n)
           S == {i \in Nat : i > 0 => g[i] \in Seq(Parts) /\ Len(g[i]) = i
                                      /\ \A j \in 1 .. i : g[i][j] = Order[j]}
<1>0. n \in Nat /\ n > 0 /\ DOMAIN Order = 1 .. n /\ Order \in Seq(Parts)
  BY OrderType, ConstantsAssumption DEF Parts, ToSet
<1>1. Len(seqs) = n /\ \A i \in 1 .. n : seqs[i] = <<Order[i]>> /\ Order[i] \in Parts
  <2>1. \A i \in 1 .. n : Order[i] \in Parts /\ seqs[i] = b[Order[i]]
    BY <1>0, OrderType
  <2>2. Len(seqs) = n
    BY <1>0
  <2> HIDE DEF seqs
  <2> QED
    BY <2>1, <2>2
<1> HIDE DEF seqs
<1>2. \A i \in 1 .. n : g[i] = IF i = 1 THEN seqs[i] ELSE g[i - 1] \o seqs[i]
  <2>1. g = [i \in 1 .. n |-> IF i = 1 THEN seqs[i] ELSE g[i - 1] \o seqs[i]]
    BY <1>0, FlatsExist
  <2> HIDE DEF g
  <2> QED
    BY <2>1
<1> HIDE DEF g, n
<1>3. ASSUME NEW i \in 0 .. n - 1, i \in S PROVE i + 1 \in S
  <2>1. i + 1 \in 1 .. n /\ (i + 1) - 1 = i /\ seqs[i + 1] = <<Order[i + 1]>>
        /\ Order[i + 1] \in Parts
    BY <1>0, <1>1
  <2>2. CASE i = 0
    <3>1. g[1] = <<Order[1]>> /\ Order[1] \in Parts
      BY <1>2, <2>1, <2>2
    <3>2. <<Order[1]>> \in Seq(Parts) /\ Len(<<Order[1]>>) = 1 /\ <<Order[1]>>[1] = Order[1]
      BY <3>1
    <3>3. \A j \in 1 .. 1 : j = 1
      OBVIOUS
    <3>4. i + 1 = 1
      BY <2>2
    <3>5. 1 \in S
      BY <3>1, <3>2, <3>3
    <3> QED
      BY <3>4, <3>5
  <2>3. CASE i > 0
    <3>1. g[i + 1] = g[i] \o <<Order[i + 1]>>
      <4>1. i + 1 # 1
        BY <2>3
      <4>2. g[i + 1] = g[(i + 1) - 1] \o seqs[i + 1]
        BY <1>2, <2>1, <4>1
      <4> QED
        BY <2>1, <4>2
    <3>2. g[i] \in Seq(Parts) /\ Len(g[i]) = i /\ \A j \in 1 .. i : g[i][j] = Order[j]
      BY <1>3, <2>3
    <3>3. g[i + 1] \in Seq(Parts) /\ Len(g[i + 1]) = i + 1
      BY <2>1, <3>1, <3>2
    <3>4. \A j \in 1 .. i + 1 : g[i + 1][j] = Order[j]
      BY <2>1, <3>1, <3>2
    <3> QED
      BY <3>3, <3>4
  <2> QED
    BY <2>2, <2>3
<1>4. 0 \in S /\ S \in SUBSET Nat
  OBVIOUS
<1>5. n \in S
  <2> HIDE DEF S
  <2> QED
    BY <1>0, <1>3, <1>4, Induct, n \in 0 .. n
<1>6. g[n] = Order
  <2>1. g[n] \in Seq(Parts) /\ Len(g[n]) = n /\ \A j \in 1 .. n : g[n][j] = Order[j]
    BY <1>0, <1>5
  <2> QED
    BY <1>0, <2>1 DEF n
<1>7. FlattenSeq(seqs) = g[n]
  BY <1>0, <1>1, FlattenIs DEF g, n
<1> QED
  BY <1>6, <1>7 DEF seqs

-----------------------------------------------------------------------------
(* Records and plans.                                                      *)

LEMMA RecordFacts ==
  /\ \A s \in PartRecord :
       /\ s.offset \in {0, 1} /\ s.length \in {1, Deferred} /\ s \in Record
       /\ Complete(s) <=> s.offset = 1 /\ s.length = 1
  /\ \A s \in FinalRecord :
       /\ s.offset \in 0 .. N /\ s.length \in {N, Deferred} /\ s \in Record
       /\ Complete(s) <=> s.offset = N /\ s.length = N
  /\ Blank \in PartRecord /\ Blank \in FinalRecord
  /\ N \in Nat /\ N > 0
BY OrderType DEF PartRecord, FinalRecord, Record, Complete, Blank, Deferred, N

LEMMA PlanFacts ==
  ASSUME NEW pl \in [Parts -> PartRecord]
  PROVE  /\ AllComplete(pl) <=> \A p \in Parts : pl[p].offset = 1 /\ pl[p].length = 1
         /\ LengthKnown(pl) <=> \A p \in Parts : pl[p].length = 1
         /\ LengthKnown(pl) => TotalLength(pl) = N
         /\ AllComplete(pl) => LengthKnown(pl) /\ ExpectedOffset(pl) = N
         /\ ExpectedOffset(pl) \in 0 .. N
         /\ LengthKnown(pl) /\ ~AllComplete(pl) => ExpectedOffset(pl) # N
<1>1. \A p \in Parts : /\ pl[p].offset \in {0, 1} /\ pl[p].length \in {1, Deferred}
                       /\ Complete(pl[p]) <=> pl[p].offset = 1 /\ pl[p].length = 1
  BY RecordFacts
<1>2. AllComplete(pl) <=> \A p \in Parts : pl[p].offset = 1 /\ pl[p].length = 1
  BY <1>1 DEF AllComplete
<1>3. LengthKnown(pl) <=> \A p \in Parts : pl[p].length = 1
  BY <1>1 DEF LengthKnown, Deferred
<1>4. LengthKnown(pl) => TotalLength(pl) = N
  <2> DEFINE f == [p \in Parts |-> pl[p].length]
  <2>1. LengthKnown(pl) => \A p \in Parts : f[p] = 1
    BY <1>3
  <2>2. LengthKnown(pl) => Total(f) = N
    <3> HIDE DEF f
    <3> QED
      BY <2>1, TotalFull DEF N
  <2> QED
    BY <2>2 DEF TotalLength
<1> DEFINE o == [p \in Parts |-> pl[p].offset]
<1>5. /\ Total(o) \in 0 .. N
      /\ Total(o) = N => \A p \in Parts : pl[p].offset = 1
  <2>1. \A p \in Parts : o[p] = pl[p].offset /\ o[p] \in {0, 1}
    BY <1>1
  <2> HIDE DEF o
  <2> QED
    BY <2>1, TotalSome DEF N
<1>6. AllComplete(pl) => LengthKnown(pl) /\ ExpectedOffset(pl) = N
  BY <1>2, <1>3, <1>4 DEF ExpectedOffset
<1>7. ~AllComplete(pl) => ExpectedOffset(pl) = Total(o)
  BY DEF ExpectedOffset
<1> HIDE DEF o
<1> QED
  BY <1>2, <1>3, <1>4, <1>5, <1>6, <1>7, RecordFacts

\* The record that a plan leads to is complete only if the plan is.
LEMMA PlannedFacts ==
  ASSUME NEW pl \in [Parts -> PartRecord], NEW s \in FinalRecord
  PROVE  /\ WithLength(s, pl) \in FinalRecord
         /\ WithLength(s, pl).offset = s.offset
         /\ WithLength(s, pl).length =
              IF LengthKnown(pl) THEN N ELSE s.length
         /\ Planned(s, pl) \in FinalRecord
         /\ Planned(s, pl).length = IF LengthKnown(pl) THEN N ELSE s.length
         /\ AllComplete(pl) => Complete(Planned(s, pl))
         /\ ~AllComplete(pl) /\ (s.length # Deferred => LengthKnown(pl)) =>
              ~Complete(Planned(s, pl))
<1>1. /\ s = [offset |-> s.offset, length |-> s.length]
      /\ s.offset \in 0 .. N /\ s.length \in {N, Deferred}
  BY DEF FinalRecord
<1> DEFINE w == WithLength(s, pl)
<1>2. /\ w = [offset |-> s.offset, length |-> IF LengthKnown(pl) THEN N ELSE s.length]
      /\ w \in FinalRecord
  BY <1>1, PlanFacts DEF WithLength, FinalRecord
<1>3. Planned(s, pl) = [offset |-> ExpectedOffset(pl), length |-> w.length]
  <2> HIDE DEF w
  <2>1. Planned(s, pl) = [w EXCEPT !.offset = ExpectedOffset(pl)]
    BY DEF Planned, w
  <2> QED
    BY <1>2, <2>1
<1>4. ExpectedOffset(pl) \in 0 .. N /\ w.length \in {N, Deferred}
  BY <1>1, <1>2, PlanFacts
<1>5. Planned(s, pl) \in FinalRecord
  BY <1>3, <1>4 DEF FinalRecord
<1>6. /\ Planned(s, pl).offset = ExpectedOffset(pl)
      /\ Planned(s, pl).length = IF LengthKnown(pl) THEN N ELSE s.length
      /\ w.offset = s.offset /\ w.length = IF LengthKnown(pl) THEN N ELSE s.length
  BY <1>2, <1>3
<1>7. Complete(Planned(s, pl)) <=> ExpectedOffset(pl) = N /\ Planned(s, pl).length = N
  BY <1>5, <1>6, RecordFacts
<1>8. Deferred # N
  BY RecordFacts DEF Deferred
<1> QED
  BY <1>2, <1>5, <1>6, <1>7, <1>8, PlanFacts, RecordFacts

-----------------------------------------------------------------------------
(* What a step of one request leaves alone.                                *)

\* The locals of the others.
Frame(r) ==
  /\ pc' = [pc EXCEPT ![r] = pc'[r]] /\ kind' = [kind EXCEPT ![r] = kind'[r]]
  /\ target' = [target EXCEPT ![r] = target'[r]] /\ st' = [st EXCEPT ![r] = st'[r]]
  /\ plan' = [plan EXCEPT ![r] = plan'[r]] /\ todo' = [todo EXCEPT ![r] = todo'[r]]

\* The locks of the others.
LockStep(r) ==
  /\ lock' \in [Uploads -> Requests \cup {NoOne}]
  /\ \A u \in Uploads : \/ lock'[u] = lock[u]
                        \/ lock[u] = NoOne /\ lock'[u] = r
                        \/ lock[u] = r /\ lock'[u] = NoOne

\* The parts that it has not locked; a known length stays.
PartStep(r) ==
  \A p \in Parts :
    \/ /\ hasState'[p] = hasState[p] /\ state'[p] = state[p]
       /\ hasBlob'[p] = hasBlob[p] /\ bytes'[p] = bytes[p]
    \/ lock[p] = r /\ (state[p].length = 1 => state'[p].length = 1)

\* The final upload, unless the request holds its lock or creates it.
Owns(r) ==
  /\ target[r] = Final /\ pc[r] \notin {"idle", "done", "lock"}
  /\ kind[r] = "create" => pc[r] # "notify"
SameFinal ==
  /\ hasState'[Final] = hasState[Final] /\ state'[Final] = state[Final]
  /\ bytes'[Final] = bytes[Final]
  /\ Final \in doomed' <=> Final \in doomed
FinalStep(r) == SameFinal \/ Owns(r)

Step(r) ==
  /\ Frame(r) /\ LockStep(r) /\ PartStep(r) /\ FinalStep(r)
  /\ gated' \in {gated, gated + 1} /\ doomed \subseteq doomed'

LEMMA PartsType ==
  /\ Final \notin Parts /\ Final \in Uploads /\ Parts \subseteq Uploads
  /\ Parts \subseteq Nat /\ NoOne \notin Requests
  /\ \A u \in Uploads : u # Final => u \in Parts
BY OrderType, ConstantsAssumption DEF Uploads

LEMMA FrameOthers ==
  ASSUME Locals, NEW r \in Requests, Frame(r), NEW q \in Requests, q # r
  PROVE  /\ pc'[q] = pc[q] /\ kind'[q] = kind[q] /\ target'[q] = target[q]
         /\ st'[q] = st[q] /\ plan'[q] = plan[q] /\ todo'[q] = todo[q]
BY DEF Frame, Locals, AreFunctions

\* Who else can be concerned with the final upload.
LEMMA OwnerAlone ==
  ASSUME FInv, NEW r \in Requests, Owns(r), NEW q \in Requests, q # r
  PROVE  /\ ~(kind[q] = "create" /\ pc[q] # "notify")
         /\ ~(kind[q] # "create" /\ target[q] = Final /\ pc[q] \notin {"idle", "done", "lock"})
<1>1. Local(r) /\ Local(q) /\ CreationOK
  BY DEF FInv, Locals, Shared
<1>2. CASE kind[r] = "create"
  BY <1>1, <1>2 DEF Owns, CreationOK, Active
<1>3. CASE kind[r] # "create"
  <2>1. lock[Final] = r /\ Active(r) /\ target[r] = Final
    BY <1>1, <1>3 DEF Owns, Local, Active
  <2>2. hasState[Final] \/ Final \in doomed
    BY <1>1, <1>3, <2>1 DEF CreationOK
  <2> QED
    BY <1>1, <2>1, <2>2 DEF CreationOK, Local
<1> QED
  BY <1>2, <1>3

LEMMA LengthsStay ==
  ASSUME FInv, NEW r \in Requests, PartStep(r)
  PROVE  /\ \A p \in Parts : state[p].length = 1 => state'[p].length = 1
         /\ LengthsKnown => LengthsKnown'
BY DEF PartStep, LengthsKnown

LEMMA OthersKeep ==
  ASSUME FInv, NEW r \in Requests, Step(r), NEW q \in Requests, q # r
  PROVE  Local(q)' /\ Plans(q)' /\ Sees(q)'
<1>0. Locals /\ Local(q) /\ Plans(q) /\ Sees(q) /\ StoresOK
  BY DEF FInv, Locals, Shared
<1>1. /\ pc'[q] = pc[q] /\ kind'[q] = kind[q] /\ target'[q] = target[q]
      /\ st'[q] = st[q] /\ plan'[q] = plan[q] /\ todo'[q] = todo[q]
  BY <1>0, FrameOthers DEF Step
<1>2. \A u \in Uploads : lock[u] = q => lock'[u] = q
  BY PartsType DEF Step, LockStep
<1>3. Local(q)'
  <2>1. kind[q] # "create" /\ pc[q] \notin {"idle", "done", "lock"} => lock'[target[q]] = q
    BY <1>0, <1>2 DEF Local
  <2> QED
    BY <1>0, <1>1, <2>1 DEF Local
<1>4. \A p \in Parts :
        lock[p] = q => /\ lock'[p] = q /\ hasState'[p] = hasState[p] /\ state'[p] = state[p]
                       /\ hasBlob'[p] = hasBlob[p] /\ bytes'[p] = bytes[p]
  BY <1>2, PartsType DEF Step, PartStep
<1>5. Plans(q)'
  <2>1. \A p \in Parts : Secured(q, p) => Secured(q, p)'
    BY <1>1, <1>4 DEF Secured
  <2>2. \A p \in Parts : plan[q][p].length # Deferred => state'[p].length = 1
    BY <1>0, LengthsStay DEF Plans, Step
  <2>3. AllComplete(plan[q])' <=> AllComplete(plan[q])
    BY <1>1 DEF AllComplete, Complete
  <2> QED
    BY <1>0, <1>1, <1>4, <2>1, <2>2, <2>3 DEF Plans, Reading
<1>6. Sees(q)'
  <2>0. /\ AllComplete(plan[q])' <=> AllComplete(plan[q])
        /\ Planned(Blank, plan[q])' = Planned(Blank, plan[q])
    BY <1>1 DEF AllComplete, Complete, Planned, WithLength, LengthKnown, TotalLength,
                ExpectedOffset, Total
  <2>1. gated > 0 => gated' > 0
    BY <1>0 DEF Step, StoresOK
  <2>2. pc[q] = "commit" => hasBlob'[target[q]] /\ bytes'[target[q]] = <<target[q]>>
    <3> SUFFICES ASSUME pc[q] = "commit"
                 PROVE  hasBlob'[target[q]] /\ bytes'[target[q]] = <<target[q]>>
      OBVIOUS
    <3>1. kind[q] = "patch"
      BY <1>0 DEF Local, Route, Kinds, Reading
    <3>2. target[q] \in Parts /\ lock[target[q]] = q
      BY <1>0, <3>1, PartsType DEF Local
    <3> QED
      BY <1>0, <1>4, <3>2 DEF Sees
  <2>3. pc[q] = "delState" => target[q] \in doomed'
    BY <1>0 DEF Sees, Step
  <2>4. CASE SameFinal
    <3>1. FinalComplete' <=> FinalComplete
      BY <2>4 DEF SameFinal, FinalComplete, Complete
    <3>2. LengthsKnown => LengthsKnown'
      BY LengthsStay DEF Step
    <3> QED
      BY <1>0, <1>1, <2>0, <2>1, <2>2, <2>3, <2>4, <3>1, <3>2 DEF Sees, SameFinal
  <2>5. CASE Owns(r)
    <3>1. /\ ~(kind[q] = "create" /\ pc[q] # "notify")
          /\ ~(kind[q] # "create" /\ target[q] = Final /\ pc[q] \notin {"idle", "done", "lock"})
      BY <2>5, OwnerAlone
    <3>2. /\ ~(kind[q] = "read" /\ pc[q] \in Reading)
          /\ pc[q] \notin {"create", "concat", "record", "complete", "refresh"}
          /\ ~(pc[q] = "delBlob" /\ kind[q] = "sweep" /\ target[q] = Final)
      BY <1>0, <3>1 DEF Local, Route, Kinds, Reading
    <3> QED
      BY <1>1, <2>2, <2>3, <3>2 DEF Sees
  <2> QED
    BY <2>4, <2>5 DEF Step, FinalStep
<1> QED
  BY <1>3, <1>5, <1>6

LEMMA StepKeeps ==
  ASSUME FInv, NEW r \in Requests, Step(r), Shared', Local(r)', Plans(r)', Sees(r)'
  PROVE  FInv'
<1>1. AreFunctions'
  BY DEF FInv, Locals, AreFunctions, Step, Frame
<1> QED
  BY <1>1, OthersKeep DEF FInv, Locals

\* Leaving a handler forgets everything.
LEMMA EndStep ==
  ASSUME FInv, NEW r \in Requests, End(r)
  PROVE  /\ Frame(r) /\ LockStep(r) /\ Local(r)' /\ Plans(r)' /\ Sees(r)'
         /\ pc'[r] = "done" /\ kind'[r] = "read" /\ target'[r] = Final
<1>0. Locals /\ StoresOK
  BY DEF FInv, Shared
<1>1. /\ pc'[r] = "done" /\ kind'[r] = "read" /\ target'[r] = Final
      /\ st'[r] = Blank /\ plan'[r] = NoPlan /\ todo'[r] = {}
  BY <1>0 DEF Locals, AreFunctions, End, Goto
<1>2. Frame(r)
  BY <1>0 DEF Locals, AreFunctions, Frame, End, Goto
<1>3. LockStep(r)
  BY <1>0 DEF StoresOK, LockStep, End
<1>4. \A p \in Parts : NoPlan[p] = Blank
  BY DEF NoPlan
<1>5. NoPlan \in [Parts -> PartRecord] /\ Blank.length = Deferred /\ Blank \in Record
  BY RecordFacts DEF NoPlan, Blank
<1>6. Local(r)'
  BY <1>1, <1>5, PartsType DEF Local, Kinds, Route
<1>7. Plans(r)'
  BY <1>1, <1>4, <1>5 DEF Plans, Reading
<1>8. Sees(r)'
  BY <1>1 DEF Sees, Reading
<1> QED
  BY <1>1, <1>2, <1>3, <1>6, <1>7, <1>8

\* The stores after a step that does not touch them.
LEMMA StoresKeep ==
  ASSUME FInv, UNCHANGED stores, NEW r \in Requests, LockStep(r), late' \in BOOLEAN,
         created' \in BOOLEAN, gated' \in Nat, finished' \in Nat, UNCHANGED doomed
  PROVE  StoresOK' /\ SameFinal /\ PartStep(r) /\ LengthsKnown' = LengthsKnown
         /\ FinalComplete' = FinalComplete
<1>1. StoresOK
  BY DEF FInv, Shared
<1>2. hasState' = hasState /\ state' = state /\ hasBlob' = hasBlob /\ bytes' = bytes
  BY DEF stores
<1>3. StoresOK'
  BY <1>1, <1>2 DEF StoresOK, PartOK, LockStep
<1>4. SameFinal /\ PartStep(r)
  BY <1>2 DEF SameFinal, PartStep
<1> QED
  BY <1>2, <1>3, <1>4 DEF LengthsKnown, FinalComplete, Complete

\* A step that is not about the final upload.
Mild(r) ==
  \/ /\ kind'[r] = kind[r] /\ target'[r] = target[r]
     /\ Active(r) /\ pc[r] # "notify" /\ pc'[r] # "notify"
  \/ pc'[r] = "done" /\ kind'[r] = "read"

LEMMA MildShared ==
  ASSUME FInv, NEW r \in Requests, Frame(r), PartStep(r), SameFinal, StoresOK', Mild(r),
         gated' \in {gated, gated + 1}, UNCHANGED <<created, finished>>
  PROVE  Shared'
<1>0. Locals /\ StoresOK /\ FinalOK /\ HooksOK /\ CreationOK
  BY DEF FInv, Shared
<1>1. LengthsKnown => LengthsKnown'
  BY LengthsStay
<1>2. FinalComplete' <=> FinalComplete
  BY DEF SameFinal, FinalComplete, Complete
<1>3. gated > 0 => gated' > 0
  BY <1>0 DEF StoresOK
<1>4. FinalOK'
  BY <1>0, <1>1, <1>2, <1>3 DEF FinalOK, SameFinal
<1>5. \A q \in Requests : q # r => pc'[q] = pc[q] /\ kind'[q] = kind[q] /\ target'[q] = target[q]
  BY <1>0, FrameOthers
<1>6. \A q \in Requests : pc'[q] = "notify" => pc[q] = "notify"
  BY <1>5 DEF Mild
<1>7. HooksOK'
  BY <1>0, <1>2, <1>6 DEF HooksOK, SameFinal
<1>8. \A q \in Requests : kind'[q] = "create" => kind[q] = "create"
  BY <1>5 DEF Mild
<1>9. \A q \in Requests : kind'[q] = "create" /\ pc'[q] # "notify" => pc[q] # "notify"
  BY <1>5 DEF Mild
<1>10. \A q \in Requests : (Active(q) /\ kind[q] # "create")' =>
          Active(q) /\ kind[q] # "create" /\ target'[q] = target[q]
  BY <1>5 DEF Mild, Active
<1>11. CreationOK'
  BY <1>0, <1>8, <1>9, <1>10 DEF CreationOK, SameFinal
<1> QED
  BY <1>4, <1>7, <1>11 DEF Shared

\* An action that touches neither the stores nor the history: what is left to
\* show is what the request itself knows.
LEMMA MildStep ==
  ASSUME FInv, NEW r \in Requests, Frame(r), LockStep(r), Mild(r),
         UNCHANGED <<stores, late, created, finished, doomed>>,
         gated' \in {gated, gated + 1},
         Local(r)', Plans(r)', Sees(r)'
  PROVE  FInv'
<1>1. StoresOK
  BY DEF FInv, Shared
<1>2. late' \in BOOLEAN /\ created' \in BOOLEAN /\ gated' \in Nat /\ finished' \in Nat
  BY <1>1 DEF StoresOK
<1>3. StoresOK' /\ SameFinal /\ PartStep(r)
  BY <1>2, StoresKeep
<1>4. Step(r)
  BY <1>3 DEF Step, FinalStep
<1>5. Shared'
  BY <1>3, MildShared
<1> QED
  BY <1>4, <1>5, StepKeeps

LEMMA EndMild ==
  ASSUME FInv, NEW r \in Requests, End(r), UNCHANGED <<stores, late, hist>>
  PROVE  FInv'
<1>1. /\ Frame(r) /\ LockStep(r) /\ Local(r)' /\ Plans(r)' /\ Sees(r)'
      /\ pc'[r] = "done" /\ kind'[r] = "read"
  BY EndStep
<1>2. UNCHANGED <<stores, late, created, finished, doomed>> /\ gated' \in {gated, gated + 1}
  BY DEF hist
<1> QED
  BY <1>1, <1>2, MildStep DEF Mild

LEMMA CancelKeeps ==
  ASSUME FInv, NEW r \in Requests, Cancel(r)
  PROVE  FInv'
BY EndMild DEF Cancel

\* The deadline passes, or nothing happens.
LEMMA TickKeeps ==
  ASSUME FInv, Tick \/ UNCHANGED vars
  PROVE  FInv'
<1>1. /\ UNCHANGED stores /\ UNCHANGED lock /\ UNCHANGED pc /\ UNCHANGED local
      /\ UNCHANGED hist /\ late' \in BOOLEAN
  BY DEF Tick, vars, FInv, Shared, StoresOK
<1>2. UNCHANGED <<hasState, state, hasBlob, bytes, lock, pc, kind, target, st, plan, todo,
                  created, gated, finished, doomed>>
  BY <1>1 DEF stores, local, hist
<1>3. Locals'
  BY <1>2 DEF FInv, Locals, AreFunctions, Local
<1>4. StoresOK'
  BY <1>1, <1>2 DEF FInv, Shared, StoresOK, PartOK
<1>5. (FinalComplete' <=> FinalComplete) /\ (LengthsKnown' <=> LengthsKnown)
  BY <1>2 DEF FinalComplete, LengthsKnown, Complete
<1>6. Shared'
  BY <1>2, <1>4, <1>5 DEF FInv, Shared, FinalOK, HooksOK, CreationOK, Active
<1>7. ASSUME NEW r \in Requests PROVE Plans(r)' /\ Sees(r)'
  <2>1. Plans(r) /\ Sees(r)
    BY DEF FInv
  <2>2. /\ AllComplete(plan[r])' <=> AllComplete(plan[r])
        /\ Planned(Blank, plan[r])' = Planned(Blank, plan[r])
        /\ \A p \in Parts : Secured(r, p)' <=> Secured(r, p)
    BY <1>2 DEF AllComplete, Complete, Planned, WithLength, LengthKnown, TotalLength,
                ExpectedOffset, Total, Secured
  <2> QED
    BY <1>2, <1>5, <2>1, <2>2 DEF Plans, Sees
<1> QED
  BY <1>3, <1>6, <1>7 DEF FInv

-----------------------------------------------------------------------------
(* The actions that touch no store.                                        *)

LEMMA BeginKeeps ==
  ASSUME FInv, NEW r \in Requests, Begin(r)
  PROVE  FInv'
<1>0. Locals /\ Local(r) /\ Plans(r) /\ StoresOK /\ FinalOK /\ HooksOK /\ CreationOK
  BY DEF FInv, Shared, Locals
<1>1. pc[r] = "idle" /\ kind[r] = "read" /\ target[r] = Final
  BY <1>0 DEF Begin, At, Local, Kinds, Route
<1>2. /\ UNCHANGED stores /\ UNCHANGED lock /\ UNCHANGED late /\ UNCHANGED st
      /\ UNCHANGED plan /\ UNCHANGED gated /\ UNCHANGED finished /\ UNCHANGED doomed
  BY DEF Begin
<1> DEFINE First == /\ ~created /\ created' = TRUE /\ kind'[r] = "create"
                    /\ pc'[r] = "plan" /\ target'[r] = Final /\ todo'[r] = Parts
           Other == /\ kind'[r] \in Kinds \ {"create"} /\ target'[r] \in Uploads
                    /\ hasState[target'[r]] /\ created' = created
                    /\ kind'[r] = "read" => target'[r] = Final
                    /\ kind'[r] = "patch" => target'[r] # Final
                    /\ pc'[r] = "lock" /\ todo'[r] = todo[r]
<1>3. Frame(r) /\ (First \/ Other)
  <2>1. CASE /\ ~created /\ created' = TRUE /\ kind' = [kind EXCEPT ![r] = "create"]
             /\ Visit(r, "plan") /\ UNCHANGED target
    BY <1>0, <1>1, <1>2, <2>1 DEF Locals, AreFunctions, Frame, Visit, Goto
  <2>2. ASSUME NEW k \in Kinds \ {"create"}, NEW u \in Uploads, hasState[u],
               k = "read" => u = Final, k = "patch" => u # Final,
               kind' = [kind EXCEPT ![r] = k], target' = [target EXCEPT ![r] = u],
               Goto(r, "lock"), UNCHANGED <<todo, created>>
        PROVE  Frame(r) /\ Other
    BY <1>0, <1>1, <1>2, <2>2 DEF Locals, AreFunctions, Frame, Goto
  <2> QED
    BY <2>1, <2>2 DEF Begin
<1>4. LockStep(r)
  BY <1>0, <1>2 DEF LockStep, StoresOK
<1>5. created' \in BOOLEAN
  <2>1. created' \in {TRUE, created}
    BY <1>3
  <2> QED
    BY <1>0, <2>1, Zenon DEF StoresOK
<1>6. StoresOK' /\ SameFinal /\ PartStep(r) /\ LengthsKnown' = LengthsKnown
      /\ FinalComplete' = FinalComplete
  BY <1>0, <1>2, <1>4, <1>5, StoresKeep DEF StoresOK
<1>7. Step(r)
  BY <1>2, <1>3, <1>4, <1>6 DEF Step, FinalStep
<1>8. \A q \in Requests : q # r => pc'[q] = pc[q] /\ kind'[q] = kind[q] /\ target'[q] = target[q]
  BY <1>0, <1>3, FrameOthers
<1>9. FinalOK'
  BY <1>0, <1>2, <1>6 DEF FinalOK, SameFinal
<1>10. \A q \in Requests : pc'[q] = "notify" => pc[q] = "notify"
  BY <1>3, <1>8
<1>11. HooksOK'
  BY <1>0, <1>2, <1>6, <1>10 DEF HooksOK, SameFinal
<1>12. CreationOK'
  <2>1. CASE First
    <3>1. \A q \in Requests : kind[q] # "create"
      BY <1>0, <2>1 DEF CreationOK
    <3>2. \A q \in Requests : kind'[q] = "create" => q = r
      BY <1>8, <3>1
    <3>3. ~hasState'[Final] /\ Final \notin doomed'
      BY <1>0, <1>6, <2>1 DEF CreationOK, SameFinal
    <3>4. \A q \in Requests : (Active(q) /\ kind[q] # "create")' => target'[q] # Final
      BY <1>0, <1>8, <2>1, <3>1, <3>3, <1>6 DEF CreationOK, Active, SameFinal
    <3> QED
      BY <2>1, <3>2, <3>3, <3>4 DEF CreationOK
  <2>2. CASE Other
    <3>1. \A q \in Requests : kind'[q] = "create" => kind[q] = "create" /\ pc'[q] = pc[q]
      BY <1>8, <2>2
    <3>2. ~hasState[Final] => target'[r] # Final
      BY <2>2
    <3> QED
      BY <1>0, <1>6, <1>8, <2>2, <3>1, <3>2 DEF CreationOK, Active, SameFinal
  <2> QED
    BY <1>3, <2>1, <2>2
<1>13. Shared'
  BY <1>6, <1>9, <1>11, <1>12 DEF Shared
<1>14. plan'[r] = plan[r] /\ st'[r] = st[r]
  BY <1>2
<1>15. Parts # {}
  BY OrderType
<1>16. Local(r)'
  BY <1>0, <1>3, <1>14, <1>15, PartsType DEF Local, Route, Kinds, Reading
<1>17. Plans(r)' /\ Sees(r)'
  <2>1. UNCHANGED state
    BY <1>2 DEF stores
  <2> QED
    BY <1>0, <1>3, <1>14, <2>1 DEF Plans, Sees, Reading, Kinds
<1> QED
  BY <1>7, <1>13, <1>16, <1>17, StepKeeps

LEMMA LockKeeps ==
  ASSUME FInv, NEW r \in Requests, Lock(r)
  PROVE  FInv'
<1>0. Locals /\ Local(r) /\ Plans(r) /\ StoresOK
  BY DEF FInv, Shared, Locals
<1>1. UNCHANGED <<stores, late, hist>>
  BY DEF Lock
<1>2. CASE End(r)
  BY <1>1, <1>2, EndMild
<1>3. CASE /\ lock[target[r]] = NoOne /\ lock' = [lock EXCEPT ![target[r]] = r]
           /\ Goto(r, "load") /\ UNCHANGED local
  <2>1. /\ pc[r] = "lock" /\ pc'[r] = "load" /\ target[r] \in Uploads
        /\ UNCHANGED <<kind, target, st, plan, todo>>
    BY <1>0, <1>3 DEF Lock, At, Goto, Local, Locals, AreFunctions, local
  <2>2. Frame(r) /\ LockStep(r)
    BY <1>0, <1>3, <2>1 DEF Frame, LockStep, Goto, Locals, AreFunctions, StoresOK
  <2>3. UNCHANGED <<stores, late, created, finished, doomed>> /\ gated' \in {gated, gated + 1}
    BY <1>1 DEF hist
  <2>4. Mild(r)
    BY <2>1 DEF Mild, Active
  <2>5. lock'[target'[r]] = r
    BY <1>0, <1>3, <2>1 DEF StoresOK
  <2>6. Local(r)'
    BY <1>0, <2>1, <2>5 DEF Local, Route, Kinds, Reading
  <2>7. Plans(r)' /\ Sees(r)'
    <3>1. UNCHANGED state
      BY <2>3 DEF stores
    <3> QED
      BY <1>0, <2>1, <3>1 DEF Plans, Sees, Reading
  <2> QED
    BY <2>2, <2>3, <2>4, <2>6, <2>7, MildStep
<1> QED
  BY <1>2, <1>3 DEF Lock

LEMMA NextPartType ==
  ASSUME NEW r \in Requests, todo[r] \in SUBSET Parts, todo[r] # {}
  PROVE  NextPart(r) \in todo[r]
<1>1. \E x \in todo[r] : \A y \in todo[r] : x <= y
  BY LeastNumber, PartsType
<1> QED
  BY <1>1 DEF NextPart, Min

LEMMA LoadPartKeeps ==
  ASSUME FInv, NEW r \in Requests, LoadPart(r)
  PROVE  FInv'
<1>0. Locals /\ Local(r) /\ Plans(r) /\ Sees(r) /\ StoresOK
  BY DEF FInv, Shared, Locals
<1>1. UNCHANGED <<stores, late, hist>> /\ pc[r] \in {"plan", "replan"}
  BY DEF LoadPart, At
<1> DEFINE p == NextPart(r)
           pl == [plan[r] EXCEPT ![p] = state[p]]
<1>2. p \in todo[r] /\ p \in Parts
  BY <1>0, <1>1, NextPartType DEF Local
<1>3. CASE End(r)
  BY <1>1, <1>3, EndMild
<1>4. CASE /\ Usable(r, p) /\ plan' = [plan EXCEPT ![r] = pl]
           /\ IF todo[r] = {p} THEN AfterPlan(r, pl) ELSE Visited(r, p) /\ UNCHANGED pc
           /\ UNCHANGED <<lock, kind, target, st>>
  <2>1. hasState[p] /\ state[p] \in PartRecord
    BY <1>0, <1>2, <1>4 DEF Usable, StoresOK, PartOK
  <2>2. /\ pl \in [Parts -> PartRecord] /\ plan'[r] = pl /\ pl[p] = state[p]
        /\ \A q \in Parts : q # p => pl[q] = plan[r][q]
    BY <1>0, <1>2, <1>4, <2>1 DEF Local, Locals, AreFunctions
  <2> DEFINE More == /\ todo[r] # {p} /\ pc'[r] = pc[r] /\ todo'[r] = todo[r] \ {p}
             Locks == /\ todo[r] = {p} /\ pc[r] = "plan" /\ AllComplete(pl)
                      /\ pc'[r] = "lockParts" /\ todo'[r] = Parts
             Ready == /\ todo[r] = {p} /\ ~(pc[r] = "plan" /\ AllComplete(pl))
                      /\ pc'[r] = (IF kind[r] = "create" THEN "apply" ELSE "inspect")
                      /\ todo'[r] = {}
  <2> HIDE DEF p, pl
  <2>3. Frame(r) /\ (More \/ Locks \/ Ready)
    <3>1. CASE todo[r] # {p}
      <4>1. Visited(r, p) /\ UNCHANGED pc
        BY <1>4, <3>1
      <4> QED
        BY <1>0, <1>4, <3>1, <4>1 DEF Locals, AreFunctions, Frame, Visited
    <3>2. CASE todo[r] = {p}
      <4>1. AfterPlan(r, pl)
        BY <1>4, <3>2
      <4> QED
        BY <1>0, <1>4, <3>2, <4>1 DEF Locals, AreFunctions, Frame, AfterPlan, Visit, Goto, At
    <3> QED
      BY <3>1, <3>2
  <2>4. LockStep(r)
    BY <1>0, <1>4 DEF LockStep, StoresOK
  <2>5. /\ UNCHANGED <<stores, late, created, finished, doomed>>
        /\ gated' \in {gated, gated + 1}
        /\ UNCHANGED <<hasState, state, hasBlob, bytes, lock, kind, target, st, doomed>>
    BY <1>1, <1>4 DEF hist, stores
  <2>6. Mild(r)
    BY <1>1, <2>3, <2>5 DEF Mild, Active
  <2>7. Local(r)'
    <3>1. todo'[r] \in SUBSET Parts /\ Parts # {}
      BY <1>0, <2>3, OrderType DEF Local
    <3>2. pc'[r] \in {"plan", "lockParts", "replan"} => todo'[r] # {}
      BY <1>0, <1>2, <2>3, <3>1
    <3>3. kind[r] \in {"create", "read"}
      BY <1>0, <1>1 DEF Local, Kinds, Route
    <3>4. pc'[r] \in Route(kind[r])
      BY <1>0, <1>1, <2>3, <3>3 DEF Local, Route, Reading
    <3> QED
      BY <1>0, <1>1, <2>2, <2>3, <2>5, <3>1, <3>2, <3>4 DEF Local
  <2>8. Plans(r)'
    <3>1. \A q \in Parts : plan'[r][q].length # Deferred => state'[q].length = 1
      BY <1>0, <2>1, <2>2, <2>5, RecordFacts DEF Plans
    <3>2. \A q \in Parts : pc[r] = "replan" /\ (q \notin todo[r] \/ q = p) => Secured(r, q)'
      BY <1>0, <2>1, <2>2, <2>5 DEF Plans, Secured
    <3>3. (pc[r] = "lockParts" => \A q \in Parts \ todo[r] : lock[q] = r)'
      BY <1>1, <2>3
    <3>4. (pc[r] = "replan" => \A q \in Parts : lock[q] = r /\ (q \notin todo[r] => Secured(r, q)))'
      BY <1>0, <1>1, <2>3, <2>5, <3>2 DEF Plans
    <3>5. (pc[r] \in {"inspect", "apply", "create", "record", "concat", "complete"}
             /\ AllComplete(plan[r]) => \A q \in Parts : Secured(r, q))'
      BY <1>1, <2>2, <2>3, <3>2
    <3>6. (kind[r] = "read" /\ pc[r] \in Reading \ {"recover"} /\ st[r].length # Deferred =>
             \A q \in Parts : (pc[r] = "plan" /\ q \in todo[r]) \/ plan[r][q].length = 1)'
      <4> SUFFICES ASSUME kind[r] = "read", st[r].length # Deferred, NEW q \in Parts
                   PROVE  (pc'[r] = "plan" /\ q \in todo'[r]) \/ plan'[r][q].length = 1
        BY <2>5
      <4>1. pc[r] \in Reading \ {"recover"}
        BY <1>1 DEF Reading
      <4>2. (pc[r] = "plan" /\ q \in todo[r]) \/ plan[r][q].length = 1
        BY <1>0, <4>1 DEF Plans
      <4>3. state[q].length = 1
        BY <1>0, <4>1 DEF Sees, LengthsKnown
      <4> QED
        BY <2>2, <2>3, <4>2, <4>3
    <3> QED
      BY <3>1, <3>3, <3>4, <3>5, <3>6 DEF Plans
  <2>9. Sees(r)'
    <3>1. pc'[r] \in {"plan", "replan", "lockParts", "apply", "inspect"}
      BY <1>1, <2>3
    <3>2. pc[r] \in Reading /\ pc[r] \notin {"recover", "concat", "complete", "refresh"}
      BY <1>1 DEF Reading
    <3>3. FinalComplete' = FinalComplete /\ LengthsKnown' = LengthsKnown
      BY <2>5 DEF FinalComplete, LengthsKnown, Complete
    <3> QED
      BY <1>0, <2>5, <3>1, <3>2, <3>3 DEF Sees
  <2> QED
    BY <2>3, <2>4, <2>5, <2>6, <2>7, <2>8, <2>9, MildStep
<1> QED
  BY <1>3, <1>4 DEF LoadPart

LEMMA LockPartKeeps ==
  ASSUME FInv, NEW r \in Requests, LockPart(r)
  PROVE  FInv'
<1>0. Locals /\ Local(r) /\ Plans(r) /\ Sees(r) /\ StoresOK
  BY DEF FInv, Shared, Locals
<1>1. UNCHANGED <<stores, late, hist>> /\ pc[r] = "lockParts"
  BY DEF LockPart, At
<1> DEFINE p == NextPart(r)
<1>2. p \in todo[r] /\ p \in Parts /\ p \in Uploads
  BY <1>0, <1>1, NextPartType, PartsType DEF Local
<1>3. CASE End(r)
  BY <1>1, <1>3, EndMild
<1>4. CASE /\ lock[p] = NoOne /\ lock' = [lock EXCEPT ![p] = r]
           /\ IF todo[r] = {p} THEN Visit(r, "replan") ELSE Visited(r, p) /\ UNCHANGED pc
           /\ UNCHANGED <<kind, target, st, plan>>
  <2> DEFINE More == /\ todo[r] # {p} /\ pc'[r] = "lockParts" /\ todo'[r] = todo[r] \ {p}
             All == /\ todo[r] = {p} /\ pc'[r] = "replan" /\ todo'[r] = Parts
  <2> HIDE DEF p
  <2>1. Frame(r) /\ (More \/ All)
    <3>1. CASE todo[r] # {p}
      <4>1. Visited(r, p) /\ UNCHANGED pc
        BY <1>4, <3>1
      <4> QED
        BY <1>0, <1>1, <1>4, <3>1, <4>1 DEF Locals, AreFunctions, Frame, Visited
    <3>2. CASE todo[r] = {p}
      <4>1. Visit(r, "replan")
        BY <1>4, <3>2
      <4> QED
        BY <1>0, <1>1, <1>4, <3>2, <4>1 DEF Locals, AreFunctions, Frame, Visit, Goto
    <3> QED
      BY <3>1, <3>2
  <2>2. LockStep(r) /\ lock'[p] = r /\ \A u \in Uploads : lock[u] = r => lock'[u] = r
    BY <1>0, <1>2, <1>4 DEF LockStep, StoresOK
  <2>3. /\ UNCHANGED <<stores, late, created, finished, doomed>>
        /\ gated' \in {gated, gated + 1}
        /\ UNCHANGED <<hasState, state, hasBlob, bytes, kind, target, st, plan, doomed>>
    BY <1>1, <1>4 DEF hist, stores
  <2>4. Mild(r)
    BY <1>1, <2>1, <2>3 DEF Mild, Active
  <2>5. Local(r)'
    <3>1. todo'[r] \in SUBSET Parts /\ todo'[r] # {}
      BY <1>0, <1>2, <2>1 DEF Local
    <3>2. kind[r] \in {"create", "read"}
      BY <1>0, <1>1 DEF Local, Kinds, Route
    <3>3. pc'[r] \in Route(kind[r])
      BY <2>1, <3>2 DEF Route, Reading
    <3>4. lock[target[r]] = r => lock'[target[r]] = r
      BY <1>0, <2>2 DEF Local
    <3> QED
      BY <1>0, <1>1, <2>1, <2>3, <3>1, <3>3, <3>4 DEF Local
  <2>6. Plans(r)'
    <3>1. \A q \in Parts : q \notin todo[r] \/ q = p => lock'[q] = r
      BY <1>0, <1>1, <2>2, PartsType DEF Plans
    <3>2. pc[r] \in Reading \ {"recover"}
      BY <1>1 DEF Reading
    <3>3. kind[r] = "read" /\ st[r].length # Deferred => \A q \in Parts : plan[r][q].length = 1
      BY <1>0, <1>1, <3>2 DEF Plans
    <3> QED
      BY <1>0, <2>1, <2>3, <3>1, <3>3 DEF Plans
  <2>7. Sees(r)'
    <3>1. pc[r] \in Reading /\ pc[r] \notin {"recover", "concat", "complete", "refresh"}
      BY <1>1 DEF Reading
    <3>2. FinalComplete' = FinalComplete /\ LengthsKnown' = LengthsKnown
      BY <2>3 DEF FinalComplete, LengthsKnown, Complete
    <3> QED
      BY <1>0, <2>1, <2>3, <3>1, <3>2 DEF Sees
  <2> QED
    BY <2>1, <2>2, <2>3, <2>4, <2>5, <2>6, <2>7, MildStep
<1> QED
  BY <1>3, <1>4 DEF LockPart

\* A step that goes on, perhaps with another record and another count of PreFinish.
LEMMA ContinueStep ==
  ASSUME FInv, NEW r \in Requests, NEW point, NEW s, ContinueWith(r, point, s),
         Active(r), pc[r] # "notify", point # "notify"
  PROVE  /\ Frame(r) /\ LockStep(r) /\ Mild(r)
         /\ pc'[r] = point /\ st'[r] = s
         /\ UNCHANGED <<lock, kind, target, plan, todo>>
<1>1. Locals /\ StoresOK
  BY DEF FInv, Shared
<1>2. /\ pc'[r] = point /\ st'[r] = s /\ Frame(r)
      /\ UNCHANGED <<lock, kind, target, plan, todo>>
  BY <1>1 DEF Locals, AreFunctions, ContinueWith, Goto, Frame
<1>3. LockStep(r)
  BY <1>1, <1>2 DEF StoresOK, LockStep
<1> QED
  BY <1>2, <1>3 DEF Mild

LEMMA ContinueIs ==
  ASSUME FInv, NEW r \in Requests, NEW point, Continue(r, point)
  PROVE  ContinueWith(r, point, st[r])
BY DEF FInv, Locals, AreFunctions, Continue, ContinueWith, local

LEMMA ApplyKeeps ==
  ASSUME FInv, NEW r \in Requests, Apply(r)
  PROVE  FInv'
<1>0. Locals /\ Local(r) /\ Plans(r) /\ Sees(r) /\ StoresOK
  BY DEF FInv, Shared, Locals
<1>1. /\ UNCHANGED <<stores, late, created, finished, doomed>> /\ UNCHANGED state
      /\ pc[r] = "apply"
  BY DEF Apply, At, stores
<1>2. CASE End(r) /\ UNCHANGED gated
  BY <1>1, <1>2, EndMild DEF hist
<1>3. CASE /\ gated' = IF AllComplete(plan[r]) THEN gated + 1 ELSE gated
           /\ ContinueWith(r, "create", Planned(Blank, plan[r]))
  <2>1. /\ Frame(r) /\ LockStep(r) /\ Mild(r) /\ pc'[r] = "create"
        /\ st'[r] = Planned(Blank, plan[r])
        /\ UNCHANGED <<lock, kind, target, plan, todo>>
    BY <1>1, <1>3, ContinueStep DEF Active
  <2>2. st'[r] \in Record
    BY <1>0, <2>1, PlannedFacts, RecordFacts DEF Local
  <2>3. kind[r] = "create"
    BY <1>0, <1>1 DEF Local, Route, Reading, Kinds
  <2>4. Local(r)'
    BY <1>0, <2>1, <2>2, <2>3 DEF Local, Route
  <2>5. UNCHANGED hasState /\ UNCHANGED lock
    BY <1>1, <2>1 DEF stores
  <2>6. Plans(r)'
    BY <1>0, <1>1, <2>1, <2>3, <2>5 DEF Plans, Secured
  <2>7. AllComplete(plan[r]) => gated' > 0
    BY <1>0, <1>3 DEF StoresOK
  <2>8. Sees(r)'
    BY <2>1, <2>3, <2>7 DEF Sees
  <2>9. gated' \in {gated, gated + 1}
    BY <1>3
  <2> QED
    BY <1>1, <2>1, <2>4, <2>6, <2>8, <2>9, MildStep
<1> QED
  BY <1>2, <1>3 DEF Apply

LEMMA LoadReadKeeps ==
  ASSUME FInv, NEW r \in Requests, LoadRead(r)
  PROVE  FInv'
<1>0. Locals /\ Local(r) /\ Plans(r) /\ Sees(r) /\ StoresOK /\ FinalOK
  BY DEF FInv, Shared, Locals
<1>1. UNCHANGED <<stores, late, hist>> /\ pc[r] = "load" /\ kind[r] = "read"
  BY DEF LoadRead, At
<1>2. CASE End(r)
  BY <1>1, <1>2, EndMild
<1>3. CASE hasState[Final] /\ ContinueWith(r, "recover", state[Final])
  <2>1. /\ Frame(r) /\ LockStep(r) /\ Mild(r) /\ pc'[r] = "recover"
        /\ st'[r] = state[Final]
        /\ UNCHANGED <<lock, kind, target, plan, todo>>
    BY <1>1, <1>3, ContinueStep DEF Active
  <2>2. /\ UNCHANGED <<stores, late, created, finished, doomed>>
        /\ gated' \in {gated, gated + 1} /\ UNCHANGED <<hasState, state>>
    BY <1>1 DEF hist, stores
  <2>3. st'[r] \in FinalRecord
    BY <1>0, <2>1 DEF StoresOK
  <2>4. Local(r)'
    BY <1>0, <1>1, <2>1, <2>3, RecordFacts DEF Local, Route, Reading
  <2>5. Plans(r)'
    BY <1>0, <1>1, <2>1, <2>2 DEF Plans
  <2>6. st'[r].length # Deferred => LengthsKnown'
    BY <1>0, <2>1, <2>2 DEF FinalOK, LengthsKnown
  <2>7. Sees(r)'
    BY <1>1, <1>3, <2>1, <2>2, <2>3, <2>6 DEF Sees
  <2> QED
    BY <2>1, <2>2, <2>4, <2>5, <2>7, MildStep
<1> QED
  BY <1>2, <1>3 DEF LoadRead

LEMMA LoadDeleteKeeps ==
  ASSUME FInv, NEW r \in Requests, LoadDelete(r) \/ Assess(r)
  PROVE  FInv'
<1>0. Locals /\ Local(r) /\ Plans(r) /\ Sees(r) /\ StoresOK /\ FinalOK
  BY DEF FInv, Shared, Locals
<1>1. UNCHANGED <<stores, late, hist>> /\ pc[r] = "load" /\ kind[r] \in {"delete", "sweep"}
  BY DEF LoadDelete, Assess, At
<1>2. CASE End(r)
  BY <1>1, <1>2, EndMild
<1>3. CASE /\ Continue(r, "delBlob")
           /\ kind[r] = "sweep" => (target[r] = Final => Size(Final) # state[Final].length)
  <2>1. /\ Frame(r) /\ LockStep(r) /\ Mild(r) /\ pc'[r] = "delBlob" /\ st'[r] = st[r]
        /\ UNCHANGED <<lock, kind, target, plan, todo>>
    BY <1>1, <1>3, ContinueIs, ContinueStep DEF Active
  <2>2. /\ UNCHANGED <<stores, late, created, finished, doomed>>
        /\ gated' \in {gated, gated + 1} /\ UNCHANGED <<hasState, state, bytes>>
    BY <1>1 DEF hist, stores
  <2>3. Local(r)'
    BY <1>0, <1>1, <2>1 DEF Local, Route
  <2>4. Plans(r)'
    BY <1>0, <1>1, <2>1, <2>2 DEF Plans
  <2>5. kind[r] = "sweep" /\ target[r] = Final =>
          bytes[Final] # Order \/ state[Final].length = Deferred
    BY <1>0, <1>3, RecordFacts DEF StoresOK, Size, N
  <2>6. Sees(r)'
    BY <1>1, <2>1, <2>2, <2>5 DEF Sees
  <2> QED
    BY <2>1, <2>2, <2>3, <2>4, <2>6, MildStep
<1> QED
  BY <1>1, <1>2, <1>3 DEF LoadDelete, Assess

LEMMA InspectKeeps ==
  ASSUME FInv, NEW r \in Requests, Inspect(r)
  PROVE  FInv'
<1>0. Locals /\ Local(r) /\ Plans(r) /\ Sees(r) /\ StoresOK
  BY DEF FInv, Shared, Locals
<1> DEFINE s == WithLength(st[r], plan[r])
           will == WillComplete(s, plan[r])
           after == IF will THEN "complete" ELSE "refresh"
           next == IF NeedsMaterialization(plan[r]) THEN "concat" ELSE after
<1>1. /\ UNCHANGED <<stores, late, created, finished, doomed>>
      /\ UNCHANGED <<hasState, state, bytes, doomed>> /\ pc[r] = "inspect"
  BY DEF Inspect, At, stores
<1>2. CASE End(r) /\ UNCHANGED gated
  BY <1>1, <1>2, EndMild DEF hist
<1>3. CASE ContinueWith(r, next, s) /\ gated' = IF will THEN gated + 1 ELSE gated
  <2>1. /\ NeedsMaterialization(plan[r]) => will
        /\ will => AllComplete(plan[r])
        /\ AllComplete(plan[r]) /\ ~NeedsMaterialization(plan[r]) => bytes[Final] = Order
    <3>1. AllComplete(plan[r]) => TotalLength(plan[r]) = N
      BY <1>0, PlanFacts DEF Local
    <3>2. AllComplete(plan[r]) /\ ~NeedsMaterialization(plan[r]) => bytes[Final] = Order
      BY <1>0, <3>1, RecordFacts DEF NeedsMaterialization, Size, StoresOK
    <3> QED
      BY <3>2 DEF NeedsMaterialization, WillComplete
  <2>2. kind[r] = "read" /\ pc[r] \in Reading
    BY <1>0, <1>1 DEF Local, Route, Reading, Kinds
  <2>3. /\ st[r] \in FinalRecord /\ hasState[Final] /\ ~FinalComplete
        /\ st[r].length # Deferred => LengthsKnown /\ \A p \in Parts : plan[r][p].length = 1
    BY <1>0, <1>1, <2>2 DEF Sees, Plans
  <2>4. /\ s \in FinalRecord
        /\ s.length # Deferred => LengthsKnown /\ \A p \in Parts : plan[r][p].length = 1
    <3>1. s \in FinalRecord /\ s.length = IF LengthKnown(plan[r]) THEN N ELSE st[r].length
      BY <1>0, <2>3, PlannedFacts DEF Local
    <3>2. LengthKnown(plan[r]) => LengthsKnown /\ \A p \in Parts : plan[r][p].length = 1
      BY <1>0, PlanFacts DEF Local, Plans, LengthsKnown, Deferred
    <3> QED
      BY <2>3, <3>1, <3>2
  <2> HIDE DEF s, will
  <2>5. next \in {"concat", "complete", "refresh"}
    OBVIOUS
  <2>6. /\ Frame(r) /\ LockStep(r) /\ Mild(r) /\ pc'[r] = next /\ st'[r] = s
        /\ UNCHANGED <<lock, kind, target, plan, todo>>
    BY <1>1, <1>3, <2>5, ContinueStep DEF Active
  <2>7. Local(r)'
    BY <1>0, <1>1, <2>2, <2>4, <2>5, <2>6, RecordFacts DEF Local, Route, Reading
  <2>8. Plans(r)'
    <3>1. AllComplete(plan[r]) => \A p \in Parts : Secured(r, p)'
      BY <1>0, <1>1, <2>6 DEF Plans, Secured
    <3> QED
      BY <1>0, <1>1, <2>4, <2>5, <2>6, <3>1 DEF Plans
  <2>9. next \in {"concat", "complete"} => AllComplete(plan[r]) /\ gated' > 0
    BY <1>0, <1>3, <2>1 DEF StoresOK
  <2>10. next \in {"complete", "refresh"} /\ AllComplete(plan[r]) => bytes[Final] = Order
    BY <2>1
  <2>11. FinalComplete' = FinalComplete /\ LengthsKnown' = LengthsKnown
    BY <1>1 DEF FinalComplete, LengthsKnown, Complete
  <2>12. Sees(r)'
    <3> HIDE DEF next
    <3> QED
      BY <1>1, <2>2, <2>3, <2>4, <2>5, <2>6, <2>9, <2>10, <2>11 DEF Sees
  <2>13. gated' \in {gated, gated + 1}
    BY <1>3
  <2> QED
    BY <1>1, <2>6, <2>7, <2>8, <2>12, <2>13, MildStep
<1> QED
  BY <1>2, <1>3 DEF Inspect

-----------------------------------------------------------------------------
(* The actions on the parts.                                               *)

\* A step on the part that the request has locked.
LEMMA PartKeeps ==
  ASSUME FInv, NEW r \in Requests, Frame(r), LockStep(r), Mild(r),
         NEW p \in Parts, lock[p] = r,
         hasState' \in [Uploads -> BOOLEAN], hasBlob' \in [Uploads -> BOOLEAN],
         state' = [u \in Uploads |-> state'[u]], bytes' = [u \in Uploads |-> bytes'[u]],
         \A u \in Uploads \ {p} :
           /\ hasState'[u] = hasState[u] /\ state'[u] = state[u]
           /\ hasBlob'[u] = hasBlob[u] /\ bytes'[u] = bytes[u],
         PartOK(p)', state[p].length = 1 => state'[p].length = 1,
         UNCHANGED <<late, created, gated, finished>>, doomed' \in {doomed, doomed \cup {p}},
         Local(r)', Plans(r)', Sees(r)'
  PROVE  FInv'
<1>0. StoresOK
  BY DEF FInv, Shared
<1>1. p # Final /\ Final \in Uploads \ {p} /\ Parts \subseteq Uploads
  BY PartsType
<1>2. SameFinal
  BY <1>1 DEF SameFinal
<1>3. PartStep(r)
  BY <1>1 DEF PartStep
<1>4. \A q \in Parts : PartOK(q)'
  BY <1>0, <1>1 DEF StoresOK, PartOK
<1>5. doomed' \subseteq Uploads /\ doomed \subseteq doomed'
  BY <1>0, <1>1 DEF StoresOK
<1>6. StoresOK'
  BY <1>0, <1>1, <1>4, <1>5 DEF StoresOK, LockStep
<1>7. Step(r)
  BY <1>2, <1>3, <1>5 DEF Step, FinalStep
<1>8. Shared'
  BY <1>2, <1>3, <1>6, MildShared
<1> QED
  BY <1>7, <1>8, StepKeeps

LEMMA PatchTarget ==
  ASSUME FInv, NEW r \in Requests, kind[r] = "patch", pc[r] \notin {"idle", "done", "lock"}
  PROVE  /\ target[r] \in Parts /\ target[r] \in Uploads /\ lock[target[r]] = r
         /\ PartOK(target[r])
BY PartsType DEF FInv, Locals, Local, Shared, StoresOK

LEMMA LoadPatchKeeps ==
  ASSUME FInv, NEW r \in Requests, LoadPatch(r)
  PROVE  FInv'
<1>0. Locals /\ Local(r) /\ Plans(r) /\ StoresOK
  BY DEF FInv, Shared, Locals
<1> PICK p : p = target[r]
  OBVIOUS
<1> DEFINE s == [state[p] EXCEPT !.offset = Size(p)]
<1>1. /\ UNCHANGED <<late, hist>> /\ pc[r] = "load" /\ kind[r] = "patch"
      /\ UNCHANGED <<hasBlob, bytes>>
  BY DEF LoadPatch, At, KeepBlobs
<1>2. p \in Parts /\ p \in Uploads /\ lock[p] = r /\ PartOK(p)
  BY <1>1, PatchTarget
<1>3. CASE End(r) /\ KeepStates
  BY <1>1, <1>3, EndMild DEF KeepStates, stores
<1>4. CASE /\ Store(p, s) /\ hasState[p]
           /\ IF Complete(s) THEN End(r) ELSE ContinueWith(r, "append", s)
  <2>1. /\ s \in PartRecord /\ s.length = state[p].length
        /\ s.offset = 1 => bytes[p] = <<p>>
    <3>1. Size(p) \in {0, 1} /\ (Size(p) = 1 => bytes[p] = <<p>>)
      <4>1. Len(<< >>) = 0 /\ Len(<<p>>) = 1
        OBVIOUS
      <4>2. bytes[p] = << >> \/ bytes[p] = <<p>>
        BY <1>2 DEF PartOK
      <4>3. Size(p) = Len(bytes[p])
        BY DEF Size
      <4>4. CASE bytes[p] = << >>
        BY <4>1, <4>3, <4>4
      <4>5. CASE bytes[p] = <<p>>
        BY <4>1, <4>3, <4>5
      <4> QED
        BY <4>2, <4>4, <4>5
    <3>2. state[p] = [offset |-> state[p].offset, length |-> state[p].length]
          /\ state[p].length \in {1, Deferred}
      BY <1>2 DEF PartOK, PartRecord
    <3> QED
      BY <3>1, <3>2 DEF PartRecord
  <2>2. s \in Record
    BY <2>1, RecordFacts
  <2> HIDE DEF s
  <2>3. /\ hasState' \in [Uploads -> BOOLEAN] /\ hasBlob' \in [Uploads -> BOOLEAN]
        /\ state' = [u \in Uploads |-> state'[u]] /\ bytes' = [u \in Uploads |-> bytes'[u]]
        /\ state'[p] = s
        /\ \A u \in Uploads \ {p} :
             /\ hasState'[u] = hasState[u] /\ state'[u] = state[u]
             /\ hasBlob'[u] = hasBlob[u] /\ bytes'[u] = bytes[u]
    BY <1>0, <1>1, <1>2, <1>4 DEF StoresOK, Store
  <2>4. PartOK(p)' /\ (state[p].length = 1 => state'[p].length = 1)
    BY <1>1, <1>2, <2>1, <2>3 DEF PartOK
  <2>5. UNCHANGED <<late, created, gated, finished>> /\ doomed' \in {doomed, doomed \cup {p}}
    BY <1>1 DEF hist
  <2>6. /\ Frame(r) /\ LockStep(r) /\ Mild(r) /\ Local(r)' /\ Plans(r)' /\ Sees(r)'
    <3>1. CASE End(r)
      BY <3>1, EndStep DEF Mild
    <3>2. CASE ContinueWith(r, "append", s)
      <4>1. /\ Frame(r) /\ LockStep(r) /\ Mild(r) /\ pc'[r] = "append" /\ st'[r] = s
            /\ UNCHANGED <<lock, kind, target, plan, todo>>
        BY <1>1, <3>2, ContinueStep DEF Active
      <4>2. Local(r)'
        BY <1>0, <1>1, <2>2, <4>1 DEF Local, Route
      <4>3. Plans(r)'
        <5>1. \A q \in Parts : state[q].length = 1 => state'[q].length = 1
          BY <2>3, <2>4, PartsType
        <5> QED
          BY <1>0, <1>1, <4>1, <5>1 DEF Plans
      <4>4. Sees(r)'
        BY <1>1, <4>1 DEF Sees
      <4> QED
        BY <4>1, <4>2, <4>3, <4>4
    <3> QED
      BY <1>4, <3>1, <3>2
  <2> QED
    BY <1>2, <2>3, <2>4, <2>5, <2>6, PartKeeps
<1> QED
  BY <1>3, <1>4 DEF LoadPatch

LEMMA AppendByteKeeps ==
  ASSUME FInv, NEW r \in Requests, AppendByte(r)
  PROVE  FInv'
<1>0. Locals /\ Local(r) /\ Plans(r) /\ StoresOK
  BY DEF FInv, Shared, Locals
<1> PICK p : p = target[r]
  OBVIOUS
<1>1. /\ UNCHANGED <<late, hist>> /\ pc[r] = "append" /\ UNCHANGED <<hasState, state, hasBlob>>
  BY DEF AppendByte, At, KeepStates
<1>2. kind[r] = "patch"
  BY <1>0, <1>1 DEF Local, Route, Reading, Kinds
<1>3. p \in Parts /\ p \in Uploads /\ lock[p] = r /\ PartOK(p)
  BY <1>1, <1>2, PatchTarget
<1>4. CASE End(r) /\ UNCHANGED bytes
  BY <1>1, <1>4, EndMild DEF stores
<1>5. CASE /\ hasBlob[p] /\ bytes' = [bytes EXCEPT ![p] = <<p>>] /\ Continue(r, "commit")
  <2>1. /\ hasState' \in [Uploads -> BOOLEAN] /\ hasBlob' \in [Uploads -> BOOLEAN]
        /\ state' = [u \in Uploads |-> state'[u]] /\ bytes' = [u \in Uploads |-> bytes'[u]]
        /\ bytes'[p] = <<p>>
        /\ \A u \in Uploads \ {p} :
             /\ hasState'[u] = hasState[u] /\ state'[u] = state[u]
             /\ hasBlob'[u] = hasBlob[u] /\ bytes'[u] = bytes[u]
    BY <1>0, <1>1, <1>3, <1>5 DEF StoresOK
  <2>2. PartOK(p)' /\ (state[p].length = 1 => state'[p].length = 1)
    BY <1>1, <1>3, <2>1 DEF PartOK
  <2>3. UNCHANGED <<late, created, gated, finished>> /\ doomed' \in {doomed, doomed \cup {p}}
    BY <1>1 DEF hist
  <2>4. /\ Frame(r) /\ LockStep(r) /\ Mild(r) /\ pc'[r] = "commit" /\ st'[r] = st[r]
        /\ UNCHANGED <<lock, kind, target, plan, todo>>
    BY <1>1, <1>5, ContinueIs, ContinueStep DEF Active
  <2>5. Local(r)'
    BY <1>0, <1>1, <1>2, <2>4 DEF Local, Route
  <2>6. Plans(r)'
    BY <1>0, <1>1, <1>2, <2>4 DEF Plans
  <2>7. Sees(r)'
    BY <1>1, <1>2, <1>5, <2>1, <2>4 DEF Sees
  <2> QED
    BY <1>3, <2>1, <2>2, <2>3, <2>4, <2>5, <2>6, <2>7, PartKeeps
<1> QED
  BY <1>4, <1>5 DEF AppendByte

LEMMA CommitKeeps ==
  ASSUME FInv, NEW r \in Requests, Commit(r)
  PROVE  FInv'
<1>0. Locals /\ Local(r) /\ Sees(r) /\ StoresOK
  BY DEF FInv, Shared, Locals
<1> PICK p : p = target[r]
  OBVIOUS
<1> DEFINE s == [offset |-> 1, length |-> 1]
<1>1. /\ UNCHANGED <<late, hist>> /\ pc[r] = "commit" /\ UNCHANGED <<hasBlob, bytes>>
      /\ Store(p, s) /\ End(r)
  BY DEF Commit, At, KeepBlobs
<1>2. kind[r] = "patch"
  BY <1>0, <1>1 DEF Local, Route, Reading, Kinds
<1>3. p \in Parts /\ p \in Uploads /\ lock[p] = r /\ bytes[p] = <<p>>
  BY <1>0, <1>1, <1>2, PatchTarget DEF Sees
<1>4. s \in PartRecord /\ s.length = 1
  BY DEF PartRecord
<1> HIDE DEF s
<1>5. /\ hasState' \in [Uploads -> BOOLEAN] /\ hasBlob' \in [Uploads -> BOOLEAN]
      /\ state' = [u \in Uploads |-> state'[u]] /\ bytes' = [u \in Uploads |-> bytes'[u]]
      /\ state'[p] = s
      /\ \A u \in Uploads \ {p} :
           /\ hasState'[u] = hasState[u] /\ state'[u] = state[u]
           /\ hasBlob'[u] = hasBlob[u] /\ bytes'[u] = bytes[u]
  BY <1>0, <1>1, <1>3 DEF StoresOK, Store
<1>6. PartOK(p)' /\ (state[p].length = 1 => state'[p].length = 1)
  BY <1>1, <1>3, <1>4, <1>5 DEF PartOK
<1>7. UNCHANGED <<late, created, gated, finished>> /\ doomed' \in {doomed, doomed \cup {p}}
  BY <1>1 DEF hist
<1>8. Frame(r) /\ LockStep(r) /\ Mild(r) /\ Local(r)' /\ Plans(r)' /\ Sees(r)'
  BY <1>1, EndStep DEF Mild
<1> QED
  BY <1>3, <1>5, <1>6, <1>7, <1>8, PartKeeps

-----------------------------------------------------------------------------
(* The actions on the final upload.                                        *)

\* A step of the request that owns the final upload, on its object or record.
LEMMA FinalKeeps ==
  ASSUME FInv, NEW r \in Requests, Frame(r), LockStep(r), Owns(r),
         hasState' \in [Uploads -> BOOLEAN], hasBlob' \in [Uploads -> BOOLEAN],
         state' = [u \in Uploads |-> state'[u]], bytes' = [u \in Uploads |-> bytes'[u]],
         \A p \in Parts :
           /\ hasState'[p] = hasState[p] /\ state'[p] = state[p]
           /\ hasBlob'[p] = hasBlob[p] /\ bytes'[p] = bytes[p],
         state'[Final] \in FinalRecord, bytes'[Final] \in {<< >>, Order},
         UNCHANGED <<late, created, gated, finished>>,
         doomed' \in {doomed, doomed \cup {Final}},
         FinalOK', HooksOK', CreationOK',
         Local(r)', Plans(r)', Sees(r)'
  PROVE  FInv'
<1>0. StoresOK
  BY DEF FInv, Shared
<1>1. PartStep(r)
  BY DEF PartStep
<1>2. \A q \in Parts : PartOK(q)'
  BY <1>0 DEF StoresOK, PartOK
<1>3. doomed' \subseteq Uploads /\ doomed \subseteq doomed'
  BY <1>0, PartsType DEF StoresOK
<1>4. StoresOK'
  BY <1>0, <1>2, <1>3 DEF StoresOK, LockStep
<1>5. Step(r)
  BY <1>1, <1>3 DEF Step, FinalStep
<1>6. Shared'
  BY <1>4 DEF Shared
<1> QED
  BY <1>5, <1>6, StepKeeps

\* One that ends, or goes on alone, with the record as it was.
LEMMA ObjectKeeps ==
  ASSUME FInv, NEW r \in Requests, Frame(r), LockStep(r), Owns(r), Mild(r),
         UNCHANGED <<hasState, state, late, hist>>, hasBlob' \in [Uploads -> BOOLEAN],
         bytes' = [u \in Uploads |-> bytes'[u]],
         \A p \in Parts : hasBlob'[p] = hasBlob[p] /\ bytes'[p] = bytes[p],
         bytes'[Final] \in {<< >>, Order}, bytes'[Final] = Order => gated > 0,
         FinalComplete => bytes'[Final] = Order,
         Local(r)', Plans(r)', Sees(r)'
  PROVE  FInv'
<1>0. Locals /\ StoresOK /\ FinalOK /\ HooksOK /\ CreationOK
  BY DEF FInv, Shared
<1>1. UNCHANGED <<created, gated, finished, doomed>>
  BY DEF hist
<1>2. FinalComplete' = FinalComplete /\ LengthsKnown' = LengthsKnown
  BY <1>1 DEF FinalComplete, LengthsKnown, Complete
<1>3. FinalOK'
  BY <1>0, <1>1, <1>2 DEF FinalOK
<1>4. \A q \in Requests : q # r => pc'[q] = pc[q] /\ kind'[q] = kind[q] /\ target'[q] = target[q]
  BY <1>0, FrameOthers
<1>5. \A q \in Requests : pc'[q] = "notify" => pc[q] = "notify"
  BY <1>4 DEF Mild
<1>6. HooksOK'
  BY <1>0, <1>1, <1>2, <1>5 DEF HooksOK
<1>7. \A q \in Requests : kind'[q] = "create" =>
        kind[q] = "create" /\ (pc'[q] # "notify" => pc[q] # "notify")
  BY <1>4 DEF Mild
<1>8. \A q \in Requests : (Active(q) /\ kind[q] # "create")' =>
          Active(q) /\ kind[q] # "create" /\ target'[q] = target[q]
  BY <1>4 DEF Mild, Active
<1>9. CreationOK'
  BY <1>0, <1>1, <1>7, <1>8 DEF CreationOK
<1>10. /\ hasState' \in [Uploads -> BOOLEAN] /\ state' = [u \in Uploads |-> state'[u]]
       /\ state'[Final] \in FinalRecord
  BY <1>0 DEF StoresOK
<1> QED
  BY <1>1, <1>3, <1>6, <1>9, <1>10, FinalKeeps

LEMMA StorageCreateKeeps ==
  ASSUME FInv, NEW r \in Requests, StorageCreate(r)
  PROVE  FInv'
<1>0. Locals /\ Local(r) /\ Plans(r) /\ Sees(r) /\ StoresOK /\ FinalOK
  BY DEF FInv, Shared, Locals
<1> DEFINE next == IF AllComplete(plan[r]) THEN "concat" ELSE "record"
<1>1. /\ pc[r] = "create" /\ UNCHANGED <<hasState, state, bytes, late, hist>>
      /\ hasBlob' = [hasBlob EXCEPT ![Final] = TRUE] /\ Continue(r, next)
  BY DEF StorageCreate, At, KeepStates
<1>2. kind[r] = "create" /\ target[r] = Final
  BY <1>0, <1>1 DEF Local, Route, Reading, Kinds
<1>3. /\ Frame(r) /\ LockStep(r) /\ Mild(r) /\ pc'[r] = next /\ st'[r] = st[r]
      /\ UNCHANGED <<lock, kind, target, plan, todo>>
  BY <1>1, ContinueIs, ContinueStep DEF Active
<1>4. Owns(r)
  BY <1>1, <1>2 DEF Owns
<1>5. /\ hasBlob' \in [Uploads -> BOOLEAN] /\ bytes' = [u \in Uploads |-> bytes'[u]]
      /\ \A p \in Parts : hasBlob'[p] = hasBlob[p] /\ bytes'[p] = bytes[p]
      /\ bytes'[Final] \in {<< >>, Order}
  BY <1>0, <1>1, PartsType DEF StoresOK
<1>6. Local(r)'
  BY <1>0, <1>1, <1>2, <1>3 DEF Local, Route
<1>7. Plans(r)'
  BY <1>0, <1>1, <1>2, <1>3 DEF Plans, Secured
<1>8. UNCHANGED gated
  BY <1>1 DEF hist
<1>9. Sees(r)'
  BY <1>0, <1>1, <1>2, <1>3, <1>8 DEF Sees
<1>10. (bytes'[Final] = Order => gated > 0) /\ (FinalComplete => bytes'[Final] = Order)
  BY <1>0, <1>1 DEF FinalOK
<1> QED
  BY <1>1, <1>3, <1>4, <1>5, <1>6, <1>7, <1>9, <1>10, ObjectKeeps

\* The creation is alone with the final upload before its record exists.
LEMMA CreatorAlone ==
  ASSUME FInv, NEW r \in Requests, kind[r] = "create", pc[r] # "notify"
  PROVE  /\ ~hasState[Final] /\ Final \notin doomed /\ ~FinalComplete /\ created
         /\ finished = 0
         /\ \A q \in Requests : pc[q] # "notify"
         /\ \A q \in Requests : kind[q] = "create" => q = r
<1>0. HooksOK /\ CreationOK
  BY DEF FInv, Shared
<1>1. ~hasState[Final] /\ Final \notin doomed /\ ~FinalComplete /\ created
  BY <1>0 DEF CreationOK, FinalComplete
<1>2. \A q \in Requests : kind[q] = "create" => q = r
  BY <1>0 DEF CreationOK
<1> QED
  BY <1>0, <1>1, <1>2 DEF HooksOK

\* The locked parts of a complete plan are whole: this is what is concatenated.
LEMMA ConcatWhole ==
  ASSUME FInv, NEW r \in Requests, pc[r] = "concat", \A p \in Parts : hasBlob[p]
  PROVE  FlattenSeq([i \in DOMAIN Order |-> bytes[Order[i]]]) = Order
<1>0. Local(r) /\ Plans(r) /\ Sees(r) /\ StoresOK
  BY DEF FInv, Shared, Locals
<1>1. AllComplete(plan[r])
  BY <1>0 DEF Sees
<1>2. \A p \in Parts : state[p] = plan[r][p]
  BY <1>0, <1>1 DEF Plans, Secured
<1>3. \A p \in Parts : state[p].offset = 1
  BY <1>0, <1>1, <1>2, PlanFacts DEF Local
<1>4. \A p \in Parts : bytes[p] = <<p>>
  BY <1>0, <1>3 DEF StoresOK, PartOK
<1> QED
  BY <1>4, FlattenWhole

LEMMA ConcatKeeps ==
  ASSUME FInv, NEW r \in Requests, Concat(r)
  PROVE  FInv'
<1>0. Locals /\ Local(r) /\ Plans(r) /\ Sees(r) /\ StoresOK /\ FinalOK
  BY DEF FInv, Shared, Locals
<1>1. /\ pc[r] = "concat" /\ UNCHANGED <<hasState, state, late, hist>> /\ UNCHANGED gated
  BY DEF Concat, At, KeepStates, hist
<1>2. kind[r] \in {"create", "read"} /\ target[r] = Final
  BY <1>0, <1>1 DEF Local, Route, Reading, Kinds
<1>3. Owns(r)
  BY <1>1, <1>2 DEF Owns
<1>4. AllComplete(plan[r]) /\ gated > 0
  BY <1>0, <1>1 DEF Sees
<1> DEFINE next == IF kind[r] = "create" THEN "record" ELSE "complete"
<1>5. CASE /\ \A p \in Parts : hasBlob[p]
           /\ hasBlob' = [hasBlob EXCEPT ![Final] = TRUE]
           /\ bytes' = [bytes EXCEPT ![Final] =
                          FlattenSeq([i \in DOMAIN Order |-> bytes[Order[i]]])]
           /\ Continue(r, next)
  <2>1. bytes' = [bytes EXCEPT ![Final] = Order]
    BY <1>1, <1>5, ConcatWhole
  <2>2. /\ hasBlob' \in [Uploads -> BOOLEAN] /\ bytes' = [u \in Uploads |-> bytes'[u]]
        /\ \A p \in Parts : hasBlob'[p] = hasBlob[p] /\ bytes'[p] = bytes[p]
        /\ bytes'[Final] = Order
    BY <1>0, <1>5, <2>1, PartsType DEF StoresOK
  <2>3. /\ Frame(r) /\ LockStep(r) /\ Mild(r) /\ pc'[r] = next /\ st'[r] = st[r]
        /\ UNCHANGED <<lock, kind, target, plan, todo>>
    BY <1>1, <1>5, ContinueIs, ContinueStep DEF Active
  <2>4. Local(r)'
    BY <1>0, <1>1, <1>2, <2>3 DEF Local, Route, Reading
  <2>5. Plans(r)'
    <3>1. pc[r] \in Reading \ {"recover"}
      BY <1>1 DEF Reading
    <3> QED
      BY <1>0, <1>1, <2>3, <3>1 DEF Plans, Secured
  <2>6. Sees(r)'
    <3>1. pc[r] \in Reading
      BY <1>1 DEF Reading
    <3>2. UNCHANGED doomed
      BY <1>1 DEF hist
    <3>3. FinalComplete' = FinalComplete /\ LengthsKnown' = LengthsKnown
      BY <1>1, <3>2 DEF FinalComplete, LengthsKnown, Complete
    <3> QED
      BY <1>0, <1>1, <1>2, <1>4, <2>2, <2>3, <3>1, <3>3 DEF Sees
  <2> QED
    BY <1>1, <1>3, <1>4, <2>2, <2>3, <2>4, <2>5, <2>6, ObjectKeeps
<1>6. CASE End(r) /\ KeepBlobs
  BY <1>1, <1>6, EndMild DEF KeepBlobs, stores
<1>7. CASE End(r) /\ kind[r] = "create" /\ Rollback
  <2>1. /\ Frame(r) /\ LockStep(r) /\ Mild(r) /\ Local(r)' /\ Plans(r)' /\ Sees(r)'
    BY <1>7, EndStep DEF Mild
  <2>2. /\ hasBlob' \in [Uploads -> BOOLEAN] /\ bytes' = [u \in Uploads |-> bytes'[u]]
        /\ \A p \in Parts : hasBlob'[p] = hasBlob[p] /\ bytes'[p] = bytes[p]
        /\ bytes'[Final] = << >>
    BY <1>0, <1>7, PartsType DEF StoresOK, Rollback
  <2>3. ~FinalComplete
    BY <1>1, <1>7, CreatorAlone
  <2> QED
    BY <1>1, <1>3, <1>4, <2>1, <2>2, <2>3, ObjectKeeps
<1> QED
  BY <1>5, <1>6, <1>7 DEF Concat

LEMMA RecordNewKeeps ==
  ASSUME FInv, NEW r \in Requests, RecordNew(r)
  PROVE  FInv'
<1>0. Locals /\ Local(r) /\ Plans(r) /\ Sees(r) /\ StoresOK /\ FinalOK /\ HooksOK /\ CreationOK
  BY DEF FInv, Shared, Locals
<1>1. pc[r] = "record" /\ UNCHANGED <<late, hist>> /\ UNCHANGED <<created, gated, finished, doomed>>
  BY DEF RecordNew, At, hist
<1>2. kind[r] = "create" /\ target[r] = Final
  BY <1>0, <1>1 DEF Local, Route, Reading, Kinds
<1>3. Owns(r)
  BY <1>1, <1>2 DEF Owns
<1>4. /\ ~hasState[Final] /\ Final \notin doomed /\ ~FinalComplete /\ created /\ finished = 0
      /\ \A q \in Requests : pc[q] # "notify"
      /\ \A q \in Requests : kind[q] = "create" => q = r
  BY <1>1, <1>2, CreatorAlone
<1>5. CASE End(r) /\ Rollback /\ KeepStates
  <2>1. Frame(r) /\ LockStep(r) /\ Mild(r) /\ Local(r)' /\ Plans(r)' /\ Sees(r)'
    BY <1>5, EndStep DEF Mild
  <2>2. /\ hasBlob' \in [Uploads -> BOOLEAN] /\ bytes' = [u \in Uploads |-> bytes'[u]]
        /\ \A p \in Parts : hasBlob'[p] = hasBlob[p] /\ bytes'[p] = bytes[p]
        /\ bytes'[Final] = << >> /\ << >> # Order
    BY <1>0, <1>5, PartsType, ConstantsAssumption DEF StoresOK, Rollback
  <2>3. UNCHANGED <<hasState, state, late, hist>>
    BY <1>1, <1>5 DEF KeepStates
  <2> QED
    BY <1>3, <1>4, <2>1, <2>2, <2>3, ObjectKeeps
<1>6. CASE /\ Store(Final, st[r]) /\ KeepBlobs
           /\ IF AllComplete(plan[r]) THEN Continue(r, "notify") ELSE End(r)
  <2>1. /\ hasState' \in [Uploads -> BOOLEAN] /\ hasBlob' \in [Uploads -> BOOLEAN]
        /\ state' = [u \in Uploads |-> state'[u]] /\ bytes' = [u \in Uploads |-> bytes'[u]]
        /\ \A p \in Parts :
             /\ hasState'[p] = hasState[p] /\ state'[p] = state[p]
             /\ hasBlob'[p] = hasBlob[p] /\ bytes'[p] = bytes[p]
        /\ hasState'[Final] = TRUE /\ state'[Final] = st[r] /\ bytes' = bytes
        /\ bytes'[Final] \in {<< >>, Order}
    BY <1>0, <1>6, PartsType DEF StoresOK, Store, KeepBlobs
  <2>2. /\ st[r] \in FinalRecord
        /\ st[r].length # Deferred => LengthKnown(plan[r])
        /\ Complete(st[r]) <=> AllComplete(plan[r])
    <3>1. st[r] = Planned(Blank, plan[r]) /\ plan[r] \in [Parts -> PartRecord]
      BY <1>0, <1>1, <1>2 DEF Sees, Local
    <3>2. Blank \in FinalRecord /\ Blank.length = Deferred
      BY RecordFacts DEF Blank
    <3> QED
      BY <3>1, <3>2, PlannedFacts
  <2>3. FinalComplete' <=> AllComplete(plan[r])
    BY <1>1, <1>4, <2>1, <2>2 DEF FinalComplete, Complete
  <2>4. FinalOK'
    <3>1. AllComplete(plan[r]) => bytes[Final] = Order
      BY <1>0, <1>1 DEF Sees
    <3>2. LengthKnown(plan[r]) => LengthsKnown'
      BY <1>0, <2>1 DEF LengthKnown, LengthsKnown, Plans
    <3> QED
      BY <1>0, <1>1, <2>1, <2>2, <2>3, <3>1, <3>2 DEF FinalOK
  <2>5. /\ Frame(r) /\ LockStep(r) /\ Local(r)' /\ Plans(r)' /\ Sees(r)'
        /\ \/ pc'[r] = "notify" /\ AllComplete(plan[r]) /\ kind'[r] = "create"
           \/ pc'[r] = "done" /\ kind'[r] = "read"
    <3>1. CASE End(r) /\ ~AllComplete(plan[r])
      BY <3>1, EndStep
    <3>2. CASE Continue(r, "notify") /\ AllComplete(plan[r])
      <4>1. /\ pc'[r] = "notify" /\ UNCHANGED <<lock, kind, target, st, plan, todo>> /\ Frame(r)
        BY <1>0, <3>2 DEF Continue, Goto, local, Frame, Locals, AreFunctions
      <4>2. LockStep(r)
        BY <1>0, <4>1 DEF LockStep, StoresOK
      <4>3. Local(r)'
        BY <1>0, <1>2, <4>1 DEF Local, Route
      <4>4. Plans(r)'
        BY <1>0, <1>2, <2>1, <4>1 DEF Plans
      <4>5. Sees(r)'
        BY <1>2, <4>1 DEF Sees
      <4> QED
        BY <1>2, <3>2, <4>1, <4>2, <4>3, <4>4, <4>5
    <3> QED
      BY <1>6, <3>1, <3>2
  <2>6. \A q \in Requests : q # r => pc'[q] = pc[q] /\ kind'[q] = kind[q] /\ target'[q] = target[q]
    BY <1>0, <2>5, FrameOthers
  <2>7. HooksOK'
    BY <1>1, <1>4, <2>3, <2>5, <2>6 DEF HooksOK
  <2>8. CreationOK'
    BY <1>1, <1>4, <2>1, <2>5, <2>6 DEF CreationOK
  <2>9. state'[Final] \in FinalRecord
    BY <2>1, <2>2
  <2> QED
    BY <1>1, <1>3, <2>1, <2>4, <2>5, <2>7, <2>8, <2>9, FinalKeeps
<1> QED
  BY <1>5, <1>6 DEF RecordNew

\* A read of the final upload in progress.
LEMMA ReaderFacts ==
  ASSUME FInv, NEW r \in Requests, kind[r] = "read", pc[r] \in Reading
  PROVE  /\ Owns(r) /\ hasState[Final] /\ created
         /\ st[r] \in FinalRecord /\ (st[r].length # Deferred => LengthsKnown)
         /\ \A q \in Requests : kind[q] = "create" => pc[q] = "notify"
<1>0. Local(r) /\ Sees(r) /\ CreationOK
  BY DEF FInv, Shared, Locals
<1>1. Owns(r)
  BY <1>0 DEF Local, Owns, Reading
<1> QED
  BY <1>0, <1>1 DEF Sees, CreationOK

LEMMA RecoverKeeps ==
  ASSUME FInv, NEW r \in Requests, Recover(r)
  PROVE  FInv'
<1>0. Locals /\ Local(r) /\ Plans(r) /\ Sees(r) /\ StoresOK /\ FinalOK /\ HooksOK /\ CreationOK
  BY DEF FInv, Shared, Locals
<1> DEFINE s == [st[r] EXCEPT !.offset = st[r].length]
<1>1. /\ pc[r] = "recover" /\ UNCHANGED <<late, hist>>
      /\ UNCHANGED <<created, gated, finished, doomed>> /\ UNCHANGED <<hasBlob, bytes>>
  BY DEF Recover, At, hist, KeepBlobs
<1>2. kind[r] = "read" /\ pc[r] \in Reading /\ st[r] = state[Final]
  BY <1>0, <1>1 DEF Local, Route, Reading, Kinds, Sees
<1>3. /\ Owns(r) /\ hasState[Final] /\ created
      /\ st[r] \in FinalRecord /\ (st[r].length # Deferred => LengthsKnown)
      /\ \A q \in Requests : kind[q] = "create" => pc[q] = "notify"
  BY <1>2, ReaderFacts
<1>4. CASE st[r].length # Deferred /\ Size(Final) = st[r].length /\ Store(Final, s) /\ End(r)
  <2>1. st[r].length = N /\ s = [offset |-> N, length |-> N] /\ bytes[Final] = Order
    BY <1>0, <1>3, <1>4, RecordFacts DEF FinalRecord, StoresOK, Size
  <2>2. s \in FinalRecord /\ Complete(s)
    BY <2>1, RecordFacts DEF FinalRecord, Complete, Deferred
  <2> HIDE DEF s
  <2>3. /\ hasState' \in [Uploads -> BOOLEAN] /\ hasBlob' \in [Uploads -> BOOLEAN]
        /\ state' = [u \in Uploads |-> state'[u]] /\ bytes' = [u \in Uploads |-> bytes'[u]]
        /\ \A p \in Parts :
             /\ hasState'[p] = hasState[p] /\ state'[p] = state[p]
             /\ hasBlob'[p] = hasBlob[p] /\ bytes'[p] = bytes[p]
        /\ hasState'[Final] = TRUE /\ state'[Final] = s /\ bytes'[Final] = Order
    BY <1>0, <1>1, <1>4, <2>1, PartsType DEF StoresOK, Store
  <2>4. FinalComplete' <=> Final \notin doomed
    BY <1>1, <2>2, <2>3 DEF FinalComplete, Complete
  <2>5. FinalOK'
    BY <1>0, <1>1, <1>3, <1>4, <2>1, <2>3 DEF FinalOK, LengthsKnown
  <2>6. /\ Frame(r) /\ LockStep(r) /\ Local(r)' /\ Plans(r)' /\ Sees(r)'
        /\ pc'[r] = "done" /\ kind'[r] = "read"
    BY <1>4, EndStep
  <2>7. \A q \in Requests : q # r => pc'[q] = pc[q] /\ kind'[q] = kind[q] /\ target'[q] = target[q]
    BY <1>0, <2>6, FrameOthers
  <2>8. HooksOK'
    <3>1. \A q \in Requests : pc'[q] = "notify" => pc[q] = "notify"
      BY <2>6, <2>7
    <3> QED
      BY <1>0, <1>1, <2>4, <3>1 DEF HooksOK
  <2>9. CreationOK'
    <3>1. \A q \in Requests : kind'[q] = "create" => kind[q] = "create" /\ pc'[q] = "notify"
      BY <1>3, <2>6, <2>7
    <3> QED
      BY <1>0, <1>1, <1>3, <2>3, <3>1 DEF CreationOK
  <2> QED
    BY <1>1, <1>3, <2>2, <2>3, <2>5, <2>6, <2>8, <2>9, FinalKeeps
<1>5. CASE KeepStates /\ End(r)
  BY <1>1, <1>5, EndMild DEF KeepStates, stores
<1>6. CASE /\ ~(st[r].length # Deferred /\ Size(Final) = st[r].length) /\ KeepStates
           /\ Visit(r, "plan") /\ UNCHANGED <<lock, kind, target, st, plan>>
  <2>1. /\ pc'[r] = "plan" /\ todo'[r] = Parts /\ Frame(r) /\ LockStep(r)
        /\ UNCHANGED <<lock, kind, target, st, plan, hasState, state>>
    BY <1>0, <1>6 DEF Visit, Goto, Frame, Locals, AreFunctions, StoresOK, LockStep, KeepStates
  <2>2. Mild(r)
    BY <1>1, <2>1 DEF Mild, Active
  <2>3. /\ UNCHANGED <<stores, late, created, finished, doomed>> /\ gated' \in {gated, gated + 1}
    BY <1>1, <2>1 DEF stores
  <2>4. ~FinalComplete
    BY <1>0, <1>2, <1>3, <1>6, RecordFacts DEF FinalOK, FinalComplete, Size, N, Deferred
  <2>5. Local(r)'
    <3>1. Parts # {}
      BY OrderType
    <3> QED
      BY <1>0, <1>1, <1>2, <2>1, <3>1 DEF Local, Route, Reading
  <2>6. Plans(r)'
    BY <1>0, <2>1 DEF Plans
  <2>7. FinalComplete' = FinalComplete /\ LengthsKnown' = LengthsKnown
    BY <1>1, <2>1 DEF FinalComplete, LengthsKnown, Complete
  <2>8. Sees(r)'
    BY <1>2, <1>3, <2>1, <2>4, <2>7 DEF Sees
  <2> QED
    BY <2>1, <2>2, <2>3, <2>5, <2>6, <2>8, MildStep
<1> QED
  BY <1>4, <1>5, <1>6 DEF Recover

LEMMA UpdateKeeps ==
  ASSUME FInv, NEW r \in Requests, Update(r)
  PROVE  FInv'
<1>0. Locals /\ Local(r) /\ Plans(r) /\ Sees(r) /\ StoresOK /\ FinalOK /\ HooksOK /\ CreationOK
  BY DEF FInv, Shared, Locals
<1> DEFINE s == Planned(st[r], plan[r])
<1>1. /\ pc[r] \in {"refresh", "complete"} /\ UNCHANGED <<late, hist>>
      /\ UNCHANGED <<created, gated, finished, doomed>> /\ UNCHANGED <<hasBlob, bytes>>
      /\ Store(Final, s)
      /\ IF pc[r] = "complete" THEN Continue(r, "notify") ELSE End(r)
  BY DEF Update, At, hist, KeepBlobs
<1>2. kind[r] = "read" /\ pc[r] \in Reading /\ ~FinalComplete
  BY <1>0, <1>1 DEF Local, Route, Reading, Kinds, Sees
<1>3. /\ Owns(r) /\ hasState[Final] /\ created
      /\ st[r] \in FinalRecord /\ (st[r].length # Deferred => LengthsKnown)
      /\ \A q \in Requests : kind[q] = "create" => pc[q] = "notify"
  BY <1>2, ReaderFacts
<1>4. /\ s \in FinalRecord
      /\ s.length # Deferred => LengthsKnown
      /\ Complete(s) <=> AllComplete(plan[r])
  <2>1. plan[r] \in [Parts -> PartRecord]
    BY <1>0 DEF Local
  <2>2. st[r].length # Deferred => LengthKnown(plan[r])
    <3>1. pc[r] \in Reading \ {"recover"} /\ pc[r] # "plan"
      BY <1>1, <1>2
    <3> QED
      BY <1>0, <1>2, <2>1, <3>1, PlanFacts DEF Plans
  <2>3. LengthKnown(plan[r]) => LengthsKnown
    BY <1>0 DEF LengthKnown, LengthsKnown, Plans
  <2> QED
    BY <1>3, <2>1, <2>2, <2>3, PlannedFacts
<1> HIDE DEF s
<1>5. /\ hasState' \in [Uploads -> BOOLEAN] /\ hasBlob' \in [Uploads -> BOOLEAN]
      /\ state' = [u \in Uploads |-> state'[u]] /\ bytes' = [u \in Uploads |-> bytes'[u]]
      /\ \A p \in Parts :
           /\ hasState'[p] = hasState[p] /\ state'[p] = state[p]
           /\ hasBlob'[p] = hasBlob[p] /\ bytes'[p] = bytes[p]
      /\ hasState'[Final] = TRUE /\ state'[Final] = s /\ bytes'[Final] = bytes[Final]
      /\ bytes'[Final] \in {<< >>, Order}
  BY <1>0, <1>1, PartsType DEF StoresOK, Store
<1>6. FinalComplete' <=> AllComplete(plan[r]) /\ Final \notin doomed
  BY <1>1, <1>4, <1>5 DEF FinalComplete, Complete
<1>7. FinalOK'
  <2>1. AllComplete(plan[r]) => bytes[Final] = Order
    BY <1>0, <1>1 DEF Sees
  <2>2. LengthsKnown' = LengthsKnown
    BY <1>5 DEF LengthsKnown
  <2> QED
    BY <1>0, <1>1, <1>4, <1>5, <1>6, <2>1, <2>2 DEF FinalOK
<1>8. /\ Frame(r) /\ LockStep(r) /\ Local(r)' /\ Plans(r)' /\ Sees(r)'
      /\ kind'[r] = "read" /\ target'[r] = Final
      /\ \/ pc'[r] = "notify" /\ AllComplete(plan[r])
         \/ pc'[r] = "done"
  <2>1. CASE End(r)
    BY <2>1, EndStep
  <2>2. CASE pc[r] = "complete" /\ Continue(r, "notify")
    <3>1. /\ pc'[r] = "notify" /\ UNCHANGED <<lock, kind, target, st, plan, todo>> /\ Frame(r)
      BY <1>0, <2>2 DEF Continue, Goto, local, Frame, Locals, AreFunctions
    <3>2. LockStep(r)
      BY <1>0, <3>1 DEF LockStep, StoresOK
    <3>3. Local(r)'
      BY <1>0, <1>2, <2>2, <3>1 DEF Local, Route
    <3>4. Plans(r)'
      BY <1>0, <1>5, <3>1 DEF Plans, Reading
    <3>5. Sees(r)'
      BY <3>1 DEF Sees, Reading
    <3>6. AllComplete(plan[r])
      BY <1>0, <2>2 DEF Sees
    <3>7. target[r] = Final
      BY <1>3 DEF Owns
    <3> QED
      BY <1>2, <3>1, <3>2, <3>3, <3>4, <3>5, <3>6, <3>7
  <2> QED
    BY <1>1, <2>1, <2>2
<1>9. \A q \in Requests : q # r => pc'[q] = pc[q] /\ kind'[q] = kind[q] /\ target'[q] = target[q]
  BY <1>0, <1>8, FrameOthers
<1>10. HooksOK'
  BY <1>0, <1>1, <1>2, <1>6, <1>8, <1>9 DEF HooksOK
<1>11. CreationOK'
  BY <1>0, <1>1, <1>3, <1>5, <1>8, <1>9 DEF CreationOK
<1>12. state'[Final] \in FinalRecord
  BY <1>4, <1>5
<1> QED
  BY <1>1, <1>3, <1>5, <1>7, <1>8, <1>10, <1>11, <1>12, FinalKeeps

LEMMA NotifyKeeps ==
  ASSUME FInv, NEW r \in Requests, Notify(r)
  PROVE  FInv'
<1>0. Locals /\ StoresOK /\ FinalOK /\ HooksOK /\ CreationOK
  BY DEF FInv, Shared
<1>1. /\ pc[r] = "notify" /\ finished' = finished + 1 /\ End(r)
      /\ UNCHANGED stores /\ UNCHANGED <<late, created, gated, doomed>>
  BY DEF Notify, At
<1>2. /\ Frame(r) /\ LockStep(r) /\ Local(r)' /\ Plans(r)' /\ Sees(r)'
      /\ pc'[r] = "done" /\ kind'[r] = "read"
  BY <1>1, EndStep
<1>3. finished' \in Nat /\ late' \in BOOLEAN /\ created' \in BOOLEAN /\ gated' \in Nat
  BY <1>0, <1>1 DEF StoresOK
<1>4. StoresOK' /\ SameFinal /\ PartStep(r) /\ LengthsKnown' = LengthsKnown
      /\ FinalComplete' = FinalComplete
  BY <1>1, <1>2, <1>3, StoresKeep
<1>5. Step(r)
  BY <1>1, <1>2, <1>4 DEF Step, FinalStep
<1>6. FinalOK'
  BY <1>0, <1>1, <1>4 DEF FinalOK, SameFinal
<1>7. \A q \in Requests : q # r => pc'[q] = pc[q] /\ kind'[q] = kind[q] /\ target'[q] = target[q]
  BY <1>0, <1>2, FrameOthers
<1>8. HooksOK'
  <2> SUFFICES ASSUME Final \notin doomed
               PROVE  /\ finished' = 1 /\ FinalComplete'
                      /\ \A q \in Requests : pc'[q] # "notify"
    BY <1>1 DEF HooksOK
  <2>1. finished = 0 /\ FinalComplete
    BY <1>0, <1>1 DEF HooksOK
  <2>2. \A q \in Requests : pc[q] = "notify" => q = r
    BY <1>0, <1>1 DEF HooksOK
  <2> QED
    BY <1>1, <1>2, <1>4, <1>7, <2>1, <2>2
<1>9. CreationOK'
  <2>1. \A q \in Requests : kind'[q] = "create" => kind[q] = "create" /\ pc'[q] = pc[q]
    BY <1>2, <1>7
  <2> QED
    BY <1>0, <1>1, <1>2, <1>4, <1>7, <2>1 DEF CreationOK, SameFinal, Active
<1>10. Shared'
  BY <1>4, <1>6, <1>8, <1>9 DEF Shared
<1> QED
  BY <1>2, <1>5, <1>10, StepKeeps

-----------------------------------------------------------------------------
(* Deletion.                                                               *)

\* Nobody deletes a final upload that is still being created.
LEMMA DeleterFacts ==
  ASSUME FInv, NEW r \in Requests, pc[r] \in {"delBlob", "delState"}
  PROVE  /\ kind[r] \in {"delete", "sweep"} /\ target[r] \in Uploads /\ lock[target[r]] = r
         /\ target[r] = Final =>
              /\ Owns(r) /\ created
              /\ \A q \in Requests : kind[q] = "create" => pc[q] = "notify"
<1>0. Local(r) /\ CreationOK
  BY DEF FInv, Locals, Shared
<1>1. kind[r] \in {"delete", "sweep"}
  BY <1>0 DEF Local, Route, Reading, Kinds
<1>2. target[r] \in Uploads /\ lock[target[r]] = r /\ Active(r)
  BY <1>0, <1>1 DEF Local, Active
<1>3. target[r] = Final => hasState[Final] \/ Final \in doomed
  BY <1>0, <1>1, <1>2 DEF CreationOK
<1> QED
  BY <1>0, <1>1, <1>2, <1>3 DEF CreationOK, Owns

LEMMA DeleteBlobKeeps ==
  ASSUME FInv, NEW r \in Requests, DeleteBlob(r)
  PROVE  FInv'
<1>0. Locals /\ Local(r) /\ Plans(r) /\ StoresOK /\ FinalOK /\ HooksOK /\ CreationOK
  BY DEF FInv, Shared, Locals
<1> PICK u : u = target[r]
  OBVIOUS
<1>1. /\ pc[r] = "delBlob" /\ UNCHANGED <<hasState, state>>
      /\ UNCHANGED <<late, created, gated, finished>>
      /\ hasBlob' = [hasBlob EXCEPT ![u] = FALSE] /\ bytes' = [bytes EXCEPT ![u] = << >>]
      /\ doomed' = doomed \cup {u} /\ Continue(r, "delState")
  BY DEF DeleteBlob, At, KeepStates
<1>2. kind[r] \in {"delete", "sweep"} /\ u \in Uploads /\ lock[u] = r
  BY <1>1, DeleterFacts
<1>3. /\ Frame(r) /\ LockStep(r) /\ Mild(r) /\ pc'[r] = "delState" /\ st'[r] = st[r]
      /\ UNCHANGED <<lock, kind, target, plan, todo>>
  BY <1>1, ContinueIs, ContinueStep DEF Active
<1>4. Local(r)'
  BY <1>0, <1>1, <1>2, <1>3 DEF Local, Route
<1>5. Plans(r)'
  BY <1>0, <1>1, <1>2, <1>3 DEF Plans
<1>6. Sees(r)'
  BY <1>1, <1>2, <1>3 DEF Sees
<1>7. /\ hasState' \in [Uploads -> BOOLEAN] /\ hasBlob' \in [Uploads -> BOOLEAN]
      /\ state' = [v \in Uploads |-> state'[v]] /\ bytes' = [v \in Uploads |-> bytes'[v]]
      /\ hasBlob'[u] = FALSE /\ bytes'[u] = << >>
      /\ \A v \in Uploads \ {u} :
           /\ hasState'[v] = hasState[v] /\ state'[v] = state[v]
           /\ hasBlob'[v] = hasBlob[v] /\ bytes'[v] = bytes[v]
  BY <1>0, <1>1, <1>2 DEF StoresOK
<1>8. CASE u # Final
  <2>1. u \in Parts
    BY <1>2, <1>8, PartsType
  <2>2. PartOK(u)'
    BY <1>0, <1>1, <1>7, <2>1 DEF StoresOK, PartOK
  <2>3. doomed' \in {doomed, doomed \cup {u}} /\ (state[u].length = 1 => state'[u].length = 1)
    BY <1>1
  <2> QED
    BY <1>1, <1>2, <1>3, <1>4, <1>5, <1>6, <1>7, <2>1, <2>2, <2>3, PartKeeps
<1>9. CASE u = Final
  <2>1. /\ Owns(r) /\ created
        /\ \A q \in Requests : kind[q] = "create" => pc[q] = "notify"
    BY <1>1, <1>9, DeleterFacts
  <2>2. ~FinalComplete' /\ Final \in doomed' /\ << >> # Order
    BY <1>1, <1>9, ConstantsAssumption DEF FinalComplete
  <2>3. FinalOK'
    BY <1>0, <1>1, <1>7, <1>9, <2>2 DEF FinalOK, LengthsKnown
  <2>4. HooksOK'
    BY <2>2 DEF HooksOK
  <2>5. \A q \in Requests : kind'[q] = kind[q] /\ (q # r => pc'[q] = pc[q])
    BY <1>0, <1>3, FrameOthers
  <2>6. CreationOK'
    BY <1>0, <1>1, <1>2, <2>1, <2>2, <2>5 DEF CreationOK
  <2>7. /\ \A p \in Parts :
             /\ hasState'[p] = hasState[p] /\ state'[p] = state[p]
             /\ hasBlob'[p] = hasBlob[p] /\ bytes'[p] = bytes[p]
        /\ bytes'[Final] \in {<< >>, Order}
    BY <1>7, <1>9, PartsType
  <2>8. state'[Final] \in FinalRecord /\ doomed' \in {doomed, doomed \cup {Final}}
    BY <1>0, <1>1, <1>9 DEF StoresOK
  <2> QED
    BY <1>1, <1>3, <1>4, <1>5, <1>6, <1>7, <2>1, <2>3, <2>4, <2>6, <2>7, <2>8, FinalKeeps
<1> QED
  BY <1>8, <1>9

LEMMA DeleteStateKeeps ==
  ASSUME FInv, NEW r \in Requests, DeleteState(r)
  PROVE  FInv'
<1>0. Locals /\ Sees(r) /\ StoresOK /\ FinalOK /\ HooksOK /\ CreationOK
  BY DEF FInv, Shared
<1> PICK u : u = target[r]
  OBVIOUS
<1>1. /\ pc[r] = "delState" /\ End(r) /\ UNCHANGED <<hasBlob, bytes, state, late>>
      /\ UNCHANGED <<created, gated, finished, doomed>>
      /\ hasState' = [hasState EXCEPT ![u] = FALSE]
  BY DEF DeleteState, At, KeepBlobs, hist
<1>2. kind[r] \in {"delete", "sweep"} /\ u \in Uploads /\ lock[u] = r /\ u \in doomed
  BY <1>0, <1>1, DeleterFacts DEF Sees
<1>3. /\ Frame(r) /\ LockStep(r) /\ Mild(r) /\ Local(r)' /\ Plans(r)' /\ Sees(r)'
      /\ pc'[r] = "done" /\ kind'[r] = "read"
  BY <1>1, EndStep DEF Mild
<1>4. /\ hasState' \in [Uploads -> BOOLEAN] /\ hasBlob' \in [Uploads -> BOOLEAN]
      /\ state' = [v \in Uploads |-> state'[v]] /\ bytes' = [v \in Uploads |-> bytes'[v]]
      /\ \A v \in Uploads \ {u} :
           /\ hasState'[v] = hasState[v] /\ state'[v] = state[v]
           /\ hasBlob'[v] = hasBlob[v] /\ bytes'[v] = bytes[v]
  BY <1>0, <1>1, <1>2 DEF StoresOK
<1>5. CASE u # Final
  <2>1. u \in Parts
    BY <1>2, <1>5, PartsType
  <2>2. PartOK(u)'
    BY <1>0, <1>1, <2>1 DEF StoresOK, PartOK
  <2>3. doomed' \in {doomed, doomed \cup {u}} /\ (state[u].length = 1 => state'[u].length = 1)
    BY <1>1
  <2> QED
    BY <1>1, <1>2, <1>3, <1>4, <2>1, <2>2, <2>3, PartKeeps
<1>6. CASE u = Final
  <2>1. /\ Owns(r) /\ created
        /\ \A q \in Requests : kind[q] = "create" => pc[q] = "notify"
    BY <1>1, <1>6, DeleterFacts
  <2>2. ~FinalComplete' /\ Final \in doomed'
    BY <1>1, <1>2, <1>6 DEF FinalComplete
  <2>3. FinalOK'
    BY <1>0, <1>1, <2>2 DEF FinalOK, LengthsKnown
  <2>4. HooksOK'
    BY <2>2 DEF HooksOK
  <2>5. \A q \in Requests : q # r => kind'[q] = kind[q] /\ pc'[q] = pc[q]
    BY <1>0, <1>3, FrameOthers
  <2>6. CreationOK'
    BY <1>0, <1>1, <1>3, <2>1, <2>2, <2>5 DEF CreationOK
  <2>7. /\ \A p \in Parts :
             /\ hasState'[p] = hasState[p] /\ state'[p] = state[p]
             /\ hasBlob'[p] = hasBlob[p] /\ bytes'[p] = bytes[p]
        /\ state'[Final] \in FinalRecord /\ bytes'[Final] \in {<< >>, Order}
        /\ doomed' \in {doomed, doomed \cup {Final}}
    BY <1>0, <1>1, <1>4, <1>6, PartsType DEF StoresOK
  <2> QED
    BY <1>1, <1>3, <1>4, <2>1, <2>3, <2>4, <2>6, <2>7, FinalKeeps
<1> QED
  BY <1>5, <1>6

-----------------------------------------------------------------------------
(* The inductive invariant.                                                *)

LEMMA StartsWell == Init => FInv
<1> SUFFICES ASSUME Init PROVE FInv
  OBVIOUS
<1>1. Locals
  <2>1. NoPlan \in [Parts -> PartRecord] /\ Blank \in Record
    BY RecordFacts DEF NoPlan
  <2> QED
    BY <2>1, PartsType DEF Init, Locals, AreFunctions, Local, Kinds, Route
<1>2. PICK full \in SUBSET Parts,
           length \in [Parts -> IF DeferredParts THEN {1, Deferred} ELSE {1}] :
        /\ \A p \in full : length[p] = 1
        /\ state = [u \in Uploads |->
                      IF u = Final THEN Blank
                      ELSE [offset |-> IF u \in full THEN 1 ELSE 0, length |-> length[u]]]
        /\ bytes = [u \in Uploads |-> IF u \in full THEN <<u>> ELSE << >>]
  BY DEF Init
<1>3. state[Final] = Blank /\ bytes[Final] = << >>
  BY <1>2, PartsType
<1>4. \A p \in Parts : PartOK(p)
  <2> SUFFICES ASSUME NEW p \in Parts PROVE PartOK(p)
    OBVIOUS
  <2>1. /\ state[p] = [offset |-> IF p \in full THEN 1 ELSE 0, length |-> length[p]]
        /\ bytes[p] = IF p \in full THEN <<p>> ELSE << >>
    BY <1>2, PartsType
  <2>2. length[p] \in {1, Deferred}
    OBVIOUS
  <2> QED
    BY <2>1, <2>2 DEF PartOK, PartRecord
<1>5. StoresOK
  <2>1. state = [u \in Uploads |-> state[u]] /\ bytes = [u \in Uploads |-> bytes[u]]
    BY <1>2
  <2>2. state[Final] \in FinalRecord
    BY <1>3, RecordFacts
  <2> QED
    BY <1>3, <1>4, <2>1, <2>2 DEF Init, StoresOK
<1>6. ~hasState[Final] /\ ~FinalComplete /\ << >> # Order
  BY PartsType, ConstantsAssumption DEF Init, FinalComplete
<1>7. FinalOK
  BY <1>3, <1>6 DEF FinalOK, Blank
<1>8. HooksOK /\ CreationOK
  BY <1>6 DEF Init, HooksOK, CreationOK, Active
<1>9. ASSUME NEW r \in Requests PROVE Plans(r) /\ Sees(r)
  <2>1. /\ pc[r] = "idle" /\ plan[r] = NoPlan /\ \A p \in Parts : NoPlan[p].length = Deferred
    BY DEF Init, NoPlan, Blank
  <2> QED
    BY <2>1 DEF Plans, Sees, Reading
<1> QED
  BY <1>1, <1>5, <1>7, <1>8, <1>9 DEF FInv, Shared

LEMMA NextKeeps == FInv /\ [Next]_vars => FInv'
<1> SUFFICES ASSUME FInv, [Next]_vars PROVE FInv'
  OBVIOUS
<1>1. CASE UNCHANGED vars
  BY <1>1, TickKeeps
<1>2. CASE Tick
  BY <1>2, TickKeeps
<1>3. ASSUME NEW r \in Requests, Begin(r) \/ Handle(r) \/ Cancel(r)
      PROVE  FInv'
  BY <1>3, BeginKeeps, CancelKeeps, LockKeeps, LoadPartKeeps, LockPartKeeps, ApplyKeeps,
     StorageCreateKeeps, ConcatKeeps, RecordNewKeeps, LoadReadKeeps, RecoverKeeps,
     InspectKeeps, UpdateKeeps, NotifyKeeps, LoadPatchKeeps, AppendByteKeeps, CommitKeeps,
     LoadDeleteKeeps, DeleteBlobKeeps, DeleteStateKeeps
  DEF Handle
<1> QED
  BY <1>1, <1>2, <1>3 DEF Next

\* The inductive invariant holds throughout, for any number of requests and of
\* parts, in any order and with repetitions.
THEOREM FinalInvariant == Spec => []FInv
BY StartsWell, NextKeeps, PTL DEF Spec

-----------------------------------------------------------------------------
(* The properties.                                                         *)

LEMMA WellTyped == FInv => TypeOK
<1> SUFFICES ASSUME FInv PROVE TypeOK
  OBVIOUS
<1>0. Locals /\ StoresOK /\ AreFunctions
  BY DEF FInv, Shared, Locals
<1>1. \A r \in Requests : /\ kind[r] \in Kinds /\ pc[r] \in Points /\ target[r] \in Uploads
                          /\ st[r] \in Record /\ todo[r] \in SUBSET Parts
                          /\ plan[r] \in [Parts -> PartRecord]
  BY <1>0 DEF Locals, Local, Kinds, Route, Reading, Points
<1>2. \A r \in Requests : plan[r] \in [Parts -> Record]
  <2>1. PartRecord \subseteq Record
    BY RecordFacts
  <2> QED
    BY <1>1, <2>1
<1>3. /\ pc \in [Requests -> Points] /\ kind \in [Requests -> Kinds]
      /\ target \in [Requests -> Uploads] /\ st \in [Requests -> Record]
      /\ plan \in [Requests -> [Parts -> Record]] /\ todo \in [Requests -> SUBSET Parts]
  BY <1>0, <1>1, <1>2 DEF AreFunctions
<1>4. state \in [Uploads -> Record]
  <2>1. \A u \in Uploads : state[u] \in Record
    BY <1>0, RecordFacts, PartsType DEF StoresOK, PartOK
  <2> QED
    BY <1>0, <2>1 DEF StoresOK
<1>5. bytes \in [Uploads -> Seq(Parts)]
  <2>1. Order \in Seq(Parts) /\ << >> \in Seq(Parts) /\ \A p \in Parts : <<p>> \in Seq(Parts)
    BY ConstantsAssumption DEF Parts, ToSet
  <2>2. \A u \in Uploads : bytes[u] \in Seq(Parts)
    BY <1>0, <2>1, PartsType DEF StoresOK, PartOK
  <2> QED
    BY <1>0, <2>2 DEF StoresOK
<1> QED
  BY <1>0, <1>3, <1>4, <1>5 DEF TypeOK, StoresOK

\* The variables of the uploads and of the requests keep their types.
THEOREM TypeCorrect == Spec => []TypeOK
BY FinalInvariant, WellTyped, PTL

\* A final upload whose record is complete holds the bytes of all its parts in
\* the order of Upload-Concat, whether creation, repair or recovery completed it
\* (FinalUploadStatus, Storage::concat, recover_materialized_final_upload).
THEOREM WholeAlways == Spec => []FinalIsWhole
<1>1. FInv => FinalIsWhole
  BY DEF FInv, Shared, FinalOK, FinalIsWhole
<1> QED
  BY <1>1, FinalInvariant, PTL

\* From the second load of the plan until the concatenation is over, the locks
\* and the records of the parts are those of the plan (lock_parts).
THEOREM PlanAlways == Spec => []PlanHolds
<1>1. FInv => PlanHolds
  <2> SUFFICES ASSUME FInv, NEW r \in Requests, pc[r] = "concat"
               PROVE  \A p \in Parts : Secured(r, p)
    BY DEF PlanHolds, At, Secured
  <2>1. Plans(r) /\ Sees(r)
    BY DEF FInv
  <2> QED
    BY <2>1 DEF Plans, Sees
<1> QED
  BY <1>1, FinalInvariant, PTL

\* No final upload completes before PreFinish has accepted one, and PostFinish
\* runs at most once for it (UploadCompletion).
THEOREM HooksAlways == Spec => []FinishHooksInOrder
<1>1. FInv => FinishHooksInOrder
  BY DEF FInv, Shared, FinalOK, HooksOK, FinishHooksInOrder
<1> QED
  BY <1>1, FinalInvariant, PTL

\* The sweeper deletes no final upload whose object is complete and whose length
\* is recorded (prepare_upload_reclamation_access).
THEOREM SpareAlways == Spec => []SweepSparesMaterialized
<1>1. FInv => SweepSparesMaterialized
  BY DEF FInv, Sees, SweepSparesMaterialized, At
<1> QED
  BY <1>1, FinalInvariant, PTL

LEMMA RecordStays ==
  ASSUME FInv, [Next]_vars, FinalComplete
  PROVE  state'[Final] = state[Final]
<1>1. CASE UNCHANGED vars
  BY <1>1 DEF vars, stores
<1>2. CASE Tick
  BY <1>2 DEF Tick, stores
<1>3. ASSUME NEW r \in Requests, Begin(r) \/ Handle(r) \/ Cancel(r)
      PROVE  state'[Final] = state[Final]
  <2>0. Local(r) /\ Sees(r) /\ StoresOK /\ FinalOK
    BY DEF FInv, Locals, Shared
  <2>1. CASE RecordNew(r)
    <3>1. pc[r] = "record"
      BY <2>1 DEF RecordNew, At
    <3>2. kind[r] = "create"
      BY <2>0, <3>1 DEF Local, Route, Reading, Kinds
    <3> QED
      BY <3>1, <3>2, CreatorAlone
  <2>2. CASE Recover(r)
    <3>1. pc[r] = "recover"
      BY <2>2 DEF Recover, At
    <3>2. kind[r] = "read" /\ pc[r] \in Reading
      BY <2>0, <3>1 DEF Local, Route, Reading, Kinds
    <3>3. st[r] = state[Final] /\ state[Final] \in FinalRecord
      BY <2>0, <3>1, <3>2 DEF Sees, StoresOK
    <3>4. state[Final].offset = state[Final].length
          /\ state[Final] = [offset |-> state[Final].offset, length |-> state[Final].length]
      BY <3>3, RecordFacts DEF FinalComplete, FinalRecord
    <3>5. [st[r] EXCEPT !.offset = st[r].length] = state[Final]
      BY <3>3, <3>4
    <3>6. Store(Final, state[Final]) \/ KeepStates
      BY <2>2, <3>5 DEF Recover
    <3> QED
      BY <2>0, <3>6 DEF Store, KeepStates, StoresOK
  <2>3. CASE Update(r)
    <3>1. pc[r] \in {"refresh", "complete"}
      BY <2>3 DEF Update, At
    <3> QED
      BY <2>0, <3>1 DEF Local, Route, Reading, Kinds, Sees
  <2>4. CASE LoadPatch(r) \/ Commit(r)
    <3>1. pc[r] \in {"load", "commit"} /\ kind[r] = "patch"
      BY <2>0, <2>4 DEF LoadPatch, Commit, At, Local, Route, Reading, Kinds
    <3>2. target[r] # Final
      BY <2>0, <3>1 DEF Local
    <3>3. UNCHANGED state \/ \E s : state' = [state EXCEPT ![target[r]] = s]
      BY <2>4 DEF LoadPatch, Commit, Store, KeepStates
    <3> QED
      BY <2>0, <3>2, <3>3, PartsType DEF StoresOK
  <2>5. CASE ~(RecordNew(r) \/ Recover(r) \/ Update(r) \/ LoadPatch(r) \/ Commit(r))
    BY <1>3, <2>5 DEF Begin, Cancel, Handle, Lock, LoadPart, LockPart, Apply, StorageCreate,
      Concat, LoadRead, Inspect, Notify, AppendByte, LoadDelete, Assess, DeleteBlob,
      DeleteState, stores, KeepStates
  <2> QED
    BY <2>1, <2>2, <2>3, <2>4, <2>5
<1> QED
  BY <1>1, <1>2, <1>3 DEF Next

\* The record of a complete final upload never changes again, whatever plan a
\* concurrent read has loaded and whatever becomes of the parts.
THEOREM CompleteAlwaysStays == Spec => CompleteStays
<1>1. FInv /\ [Next]_vars =>
        [FinalComplete /\ hasState'[Final] /\ Final \notin doomed'
           => state'[Final] = state[Final]]_vars
  BY RecordStays
<1> QED
  BY <1>1, FinalInvariant, PTL DEF Spec, CompleteStays
=============================================================================
