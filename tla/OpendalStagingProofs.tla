------------------------ MODULE OpendalStagingProofs ------------------------
(***************************************************************************)
(* Proofs about OpendalStaging, for any lengths, bodies and number of      *)
(* parts.                                                                  *)
(*                                                                         *)
(* All but TypeCorrect are for uploads whose length is known when they are *)
(* created (Deferrable = FALSE): with a deferred length the code loses     *)
(* bytes when finalize is interrupted (run OpendalCleanupCrash).           *)
(*                                                                         *)
(* The argument.  Parts are deleted from the first one on, so as long as   *)
(* part 1 exists, or nothing was finalized or deleted, no part before one  *)
(* that exists is missing (Firm).  Then they join to a prefix of the file, and   *)
(* the handle's staged size is that of the parts before its cursor         *)
(* (Handle).  Hence wherever append_position decides to put the next part, *)
(* the parts before it hold exactly the offset's bytes and those after it  *)
(* are empty (Aligned): only the latter makes a gapped sequence, which a   *)
(* delete that stopped halfway leaves behind, harmless.  The staged size   *)
(* reaches the length only by the promotion of the completing part, at     *)
(* which time the marker names it (Stored).                                *)
(***************************************************************************)
EXTENDS OpendalStaging, WellFoundedInduction, TLAPS

-----------------------------------------------------------------------------
(* The invariants.                                                         *)

TypeInv == TypeOK /\ record.next >= 1 /\ st.next >= 1

\* The declared length, which is known from the start.
L == record.length

\* The parts are there from the first one on.
Firm == 1 \in DOMAIN parts \/ (~doomed /\ ~hasMain)

Staging == {"mark", "stage", "promote", "write"}
Deleting == {"delMarker", "delMain", "delParts", "delRecord"}

\* The objects.
Stored ==
  /\ StagedSize <= L
  /\ hasMain => Len(main) = L
  /\ ~hasMain => main = << >>
  /\ ~doomed => main = File(Len(main))
  /\ Firm => Joined = File(StagedSize)
  /\ Firm /\ StagedSize = L /\ marker # NoMarker => Join(parts, marker) = File(L)
  /\ ~doomed /\ ~hasMain => \A n \in DOMAIN parts : 1 .. n \subseteq DOMAIN parts
  /\ ~doomed /\ ~hasMain /\ ~lost /\ StagedSize = L /\ L > 0 => Repairable

\* The record and the handle in it.
Handle ==
  /\ record.length \in Nat
  /\ record.next \in 1 .. MaxParts + 1
  /\ record.next = 1 => record.staged = 0
  /\ Firm => record.staged = Len(Join(parts, record.next - 1))
  /\ ~doomed /\ ~hasMain => 1 .. record.next - 1 \subseteq DOMAIN parts
  /\ ~doomed \/ (marker # NoMarker /\ ~hasMain) => record.offset <= Size
  /\ ~doomed => acked <= Size

\* The body of an append that has not been refused.
Fits ==
  /\ ~hasMain /\ st.offset < L /\ st.offset + body.size <= L
  /\ ~doomed => acked <= st.offset

\* The part being written goes where the bytes before it end.
Aligned ==
  /\ at.part >= st.next
  /\ Len(Join(Without(parts, at.part), MaxParts)) = st.offset
  /\ Firm \/ at.part = 1 =>
       /\ Join(parts, at.part - 1) = File(st.offset)
       /\ at.staged = st.offset
       /\ \A m \in DOMAIN parts : m > at.part => parts[m] = << >>
  /\ at.part \in DOMAIN parts => TornWrites /\ pc = "write" /\ parts[at.part] = buf
  /\ ~doomed => 1 .. at.part - 1 \subseteq DOMAIN parts /\ DOMAIN parts \subseteq 1 .. at.part
  /\ pc = "write" => ~Completes /\ Len(buf) <= body.size
  /\ pc # "write" => Completes
  /\ pc = "promote" => Len(buf) = body.size
  /\ pc \in {"stage", "promote"} => marker = at.part
  /\ \A k \in 1 .. Len(buf) : buf[k] = st.offset + k

\* The part that was written.
Placed ==
  /\ st.offset + body.size <= L
  /\ Firm => Len(Join(parts, at.part)) = at.staged + body.size
  /\ ~doomed /\ ~hasMain => 1 .. at.part \subseteq DOMAIN parts

\* The running request.
Running ==
  /\ pc \notin {"idle"} \cup Deleting => st = record
  /\ pc \in {"idle", "place", "mark", "stage"} => buf = << >>
  /\ pc \in {"place"} \cup Staging => Fits
  /\ pc = "place" => StagedSize = st.offset
  /\ pc = "refuse" => doomed
  /\ pc \in Staging => Aligned
  /\ pc \in {"finalize", "cleanup", "commit"} => Placed
  /\ pc = "unmark" => ~hasMain /\ (StagedSize # L \/ lost)
  /\ pc = "finalize" => ~hasMain /\ StagedSize = L
  /\ pc \in {"finalize", "cleanup"} => Completes
  /\ pc = "cleanup" => hasMain
  /\ pc = "commit" => Size = st.offset + body.size
  /\ pc = "read" => Complete(st)
  /\ pc \in {"delMain", "delParts", "delRecord"} => doomed /\ marker = NoMarker
  /\ pc \in {"delParts", "delRecord"} => ~hasMain

Kept == Stored /\ Handle /\ Running
OInv == TypeInv /\ Kept

\* Where bytes of a damaged body can be stored.
SpoiltBefore == \A p \in spoilt : p < L /\ TornWrites

-----------------------------------------------------------------------------
(* Induction, the largest and the smallest number.                         *)

\* From the well-foundedness of < on the numbers.
LEMMA LeastNumber ==
  ASSUME NEW T \in SUBSET Nat, T # {}
  PROVE  \E x \in T : \A y \in T : x <= y
<1> DEFINE R == {ss \in Nat \X Nat : ss[1] < ss[2]}
<1>1. IsWellFoundedOn(R, Nat)
  BY NatLessThanWellFounded DEF OpToRel
<1> HIDE DEF R
<1>2. PICK x \in T : \A y \in T : ~ (<<y, x>> \in R)
  BY <1>1, WFMin
<1>3. \A y \in T : ~(y < x)
  BY <1>2 DEF R
<1> QED
  BY <1>3

\* Induction from a to n, for a set: the numbers it misses have no least one.
LEMMA Induct ==
  ASSUME NEW a \in Nat, NEW n \in Nat, NEW S \in SUBSET Nat, a \in S,
         \A i \in a .. n - 1 : i \in S => i + 1 \in S
  PROVE  \A i \in a .. n : i \in S
<1> DEFINE T == {i \in a .. n : i \notin S}
<1> SUFFICES ASSUME T # {} PROVE FALSE
  OBVIOUS
<1>1. T \in SUBSET Nat
  OBVIOUS
<1>2. PICK x \in T : \A y \in T : x <= y
  BY <1>1, LeastNumber
<1>3. x \in a + 1 .. n
  BY <1>2
<1>4. x - 1 \in a .. n - 1 /\ x - 1 \notin T
  BY <1>2, <1>3
<1> QED
  BY <1>2, <1>3, <1>4

LEMMA LargestNumber ==
  ASSUME NEW T \in SUBSET (1 .. MaxParts), T # {}
  PROVE  Max(T) \in T /\ \A y \in T : y <= Max(T)
<1>0. MaxParts \in Nat
  BY ConstantsAssumption
<1> DEFINE U == {u \in 0 .. MaxParts : MaxParts - u \in T}
<1>1. PICK y : y \in T
  OBVIOUS
<1>2. MaxParts - y \in U
  BY <1>0, <1>1
<1>3. U \in SUBSET Nat /\ U # {}
  BY <1>0, <1>2
<1>4. PICK u \in U : \A v \in U : u <= v
  BY <1>3, LeastNumber
<1>5. MaxParts - u \in T /\ \A z \in T : MaxParts - u >= z
  <2>1. ASSUME NEW z \in T PROVE MaxParts - z \in U
    BY <1>0, <2>1
  <2> QED
    BY <1>0, <1>4, <2>1
<1>6. \E x \in T : \A z \in T : x >= z
  BY <1>5
<1>7. Max(T) \in T /\ \A z \in T : Max(T) >= z
  BY <1>6 DEF Max
<1> QED
  BY <1>0, <1>7

LEMMA SmallestNumber ==
  ASSUME NEW T \in SUBSET (1 .. MaxParts), T # {}
  PROVE  Min(T) \in T /\ \A y \in T : Min(T) <= y
<1>0. MaxParts \in Nat
  BY ConstantsAssumption
<1>1. T \in SUBSET Nat
  BY <1>0
<1>2. \E x \in T : \A y \in T : x <= y
  BY <1>1, LeastNumber
<1> QED
  BY <1>2 DEF Min

-----------------------------------------------------------------------------
(* What parts join to.                                                     *)

IsParts(p) ==
  /\ DOMAIN p \subseteq 1 .. MaxParts
  /\ \A n \in DOMAIN p : p[n] \in Seq(Nat)

Joins(p, m) ==
  CHOOSE g : g = [k \in 0 .. m |-> IF k = 0 THEN << >>
                                   ELSE IF k \in DOMAIN p THEN g[k - 1] \o p[k] ELSE g[k - 1]]

LEMMA JoinIs == \A p, n : Join(p, n) = Joins(p, MaxParts)[n]
BY DEF Join, Joins

LEMMA JoinsExist ==
  ASSUME NEW p, NEW n \in Nat
  PROVE  Joins(p, n) =
           [k \in 0 .. n |-> IF k = 0 THEN << >>
                             ELSE IF k \in DOMAIN p THEN Joins(p, n)[k - 1] \o p[k]
                             ELSE Joins(p, n)[k - 1]]
<1> DEFINE Is(g, m) == g = [k \in 0 .. m |-> IF k = 0 THEN << >>
                              ELSE IF k \in DOMAIN p THEN g[k - 1] \o p[k] ELSE g[k - 1]]
           S == {m \in Nat : \E g : Is(g, m)}
<1>1. 0 \in S
  <2>1. Is([k \in 0 .. 0 |-> << >>], 0)
    OBVIOUS
  <2> QED
    BY <2>1
<1>2. ASSUME NEW m \in 0 .. n - 1, m \in S PROVE m + 1 \in S
  <2>1. PICK g : Is(g, m)
    BY <1>2
  <2> DEFINE last == IF m + 1 \in DOMAIN p THEN g[m] \o p[m + 1] ELSE g[m]
             h == [k \in 0 .. m + 1 |-> IF k = m + 1 THEN last ELSE g[k]]
  <2>2. ASSUME NEW k \in 0 .. m + 1
        PROVE  h[k] = IF k = 0 THEN << >>
                      ELSE IF k \in DOMAIN p THEN h[k - 1] \o p[k] ELSE h[k - 1]
    <3>1. CASE k = m + 1
      <4>1. h[k] = last /\ h[m] = g[m] /\ k - 1 = m /\ k # 0
        BY <1>2, <3>1
      <4> QED
        BY <3>1, <4>1
    <3>2. CASE k # m + 1
      <4>1. k \in 0 .. m /\ (k # 0 => k - 1 \in 0 .. m)
        BY <1>2, <3>2
      <4>2. g[k] = IF k = 0 THEN << >>
                   ELSE IF k \in DOMAIN p THEN g[k - 1] \o p[k] ELSE g[k - 1]
        BY <2>1, <4>1
      <4>3. h[k] = g[k] /\ (k # 0 => h[k - 1] = g[k - 1])
        BY <1>2, <3>2, <4>1
      <4> QED
        BY <4>2, <4>3
    <3> QED
      BY <3>1, <3>2
  <2>3. Is(h, m + 1)
    BY <2>2
  <2>4. m + 1 \in Nat
    BY <1>2
  <2>5. \E x : Is(x, m + 1)
    <3> HIDE DEF h, Is
    <3> QED
      BY <2>3
  <2> QED
    BY <2>4, <2>5
<1>3. S \in SUBSET Nat /\ n \in 0 .. n /\ 0 \in Nat
  OBVIOUS
<1>4. n \in S
  <2> HIDE DEF S
  <2> QED
    BY <1>1, <1>2, <1>3, Induct
<1>5. PICK g : Is(g, n)
  BY <1>4
<1> QED
  BY <1>5 DEF Joins

\* Join, part by part.
LEMMA JoinStep ==
  ASSUME NEW p
  PROVE  /\ Join(p, 0) = << >>
         /\ \A n \in 1 .. MaxParts :
              Join(p, n) = IF n \in DOMAIN p THEN Join(p, n - 1) \o p[n] ELSE Join(p, n - 1)
<1>0. MaxParts \in Nat
  BY ConstantsAssumption
<1> DEFINE g == Joins(p, MaxParts)
<1>1. g = [k \in 0 .. MaxParts |-> IF k = 0 THEN << >>
                                   ELSE IF k \in DOMAIN p THEN g[k - 1] \o p[k] ELSE g[k - 1]]
  BY <1>0, JoinsExist
<1> HIDE DEF g
<1>2. g[0] = << >>
  BY <1>0, <1>1
<1>3. ASSUME NEW n \in 1 .. MaxParts
      PROVE  g[n] = IF n \in DOMAIN p THEN g[n - 1] \o p[n] ELSE g[n - 1]
  <2>1. n \in 0 .. MaxParts /\ n # 0
    BY <1>0
  <2> QED
    BY <1>1, <2>1
<1>4. \A n : Join(p, n) = g[n]
  BY JoinIs DEF g
<1> QED
  BY <1>2, <1>3, <1>4

LEMMA ConcatFacts ==
  ASSUME NEW x \in Seq(Nat), NEW y \in Seq(Nat)
  PROVE  /\ x \o y \in Seq(Nat) /\ Len(x \o y) = Len(x) + Len(y)
         /\ Len(x) \in Nat /\ Len(y) \in Nat
         /\ Len(y) = 0 => y = << >>
OBVIOUS

LEMMA JoinType ==
  ASSUME NEW p, IsParts(p)
  PROVE  \A n \in 0 .. MaxParts : Join(p, n) \in Seq(Nat) /\ Len(Join(p, n)) \in Nat
<1>0. MaxParts \in Nat
  BY ConstantsAssumption
<1> DEFINE S == {i \in Nat : Join(p, i) \in Seq(Nat)}
<1>1. 0 \in S
  <2>1. << >> \in Seq(Nat)
    OBVIOUS
  <2> QED
    BY JoinStep, <2>1
<1>2. ASSUME NEW i \in 0 .. MaxParts - 1, i \in S PROVE i + 1 \in S
  <2>1. i + 1 \in 1 .. MaxParts /\ (i + 1) - 1 = i
    BY <1>0
  <2>2. Join(p, i + 1) = IF i + 1 \in DOMAIN p THEN Join(p, i) \o p[i + 1] ELSE Join(p, i)
    BY <2>1, JoinStep
  <2>3. i + 1 \in DOMAIN p => p[i + 1] \in Seq(Nat)
    BY DEF IsParts
  <2>4. Join(p, i + 1) \in Seq(Nat)
    <3>1. CASE i + 1 \in DOMAIN p
      <4>1. Join(p, i) \in Seq(Nat)
        BY <1>2
      <4> QED
        BY <2>2, <2>3, <3>1, <4>1, ConcatFacts
    <3>2. CASE i + 1 \notin DOMAIN p
      BY <1>2, <2>2, <3>2
    <3> QED
      BY <3>1, <3>2
  <2> QED
    BY <2>1, <2>4
<1>3. \A n \in 0 .. MaxParts : n \in S
  <2> HIDE DEF S
  <2>1. S \in SUBSET Nat
    BY DEF S
  <2> QED
    BY <1>0, <1>1, <1>2, <2>1, Induct
<1> QED
  BY <1>3

\* Only the parts up to n matter.
LEMMA JoinSame ==
  ASSUME NEW p, NEW q, NEW n \in 0 .. MaxParts,
         \A m \in 1 .. n : (m \in DOMAIN p <=> m \in DOMAIN q) /\ (m \in DOMAIN p => p[m] = q[m])
  PROVE  Join(p, n) = Join(q, n)
<1>0. MaxParts \in Nat
  BY ConstantsAssumption
<1> DEFINE S == {i \in Nat : Join(p, i) = Join(q, i)}
<1>1. 0 \in S
  BY JoinStep
<1>2. ASSUME NEW i \in 0 .. n - 1, i \in S PROVE i + 1 \in S
  <2>1. i + 1 \in 1 .. MaxParts /\ i + 1 \in 1 .. n /\ (i + 1) - 1 = i
    BY <1>0
  <2>2. Join(p, i + 1) = IF i + 1 \in DOMAIN p THEN Join(p, i) \o p[i + 1] ELSE Join(p, i)
    BY <2>1, JoinStep
  <2>3. Join(q, i + 1) = IF i + 1 \in DOMAIN q THEN Join(q, i) \o q[i + 1] ELSE Join(q, i)
    BY <2>1, JoinStep
  <2>4. Join(p, i + 1) = Join(q, i + 1)
    BY <1>2, <2>1, <2>2, <2>3
  <2> QED
    BY <2>1, <2>4
<1>3. n \in S
  <2> HIDE DEF S
  <2>1. S \in SUBSET Nat /\ n \in 0 .. n /\ n \in Nat /\ 0 \in Nat
    BY <1>0 DEF S
  <2> QED
    BY <1>1, <1>2, <2>1, Induct
<1> QED
  BY <1>3

\* Joining more parts yields more, and no more only if they are empty.
LEMMA JoinGrows ==
  ASSUME NEW p, IsParts(p), NEW n \in 0 .. MaxParts
  PROVE  \A j \in n .. MaxParts :
           /\ Len(Join(p, n)) <= Len(Join(p, j))
           /\ Len(Join(p, n)) = Len(Join(p, j)) =>
                \A m \in n + 1 .. j : m \in DOMAIN p => p[m] = << >>
<1>0. MaxParts \in Nat
  BY ConstantsAssumption
<1> DEFINE len == [i \in 0 .. MaxParts |-> Len(Join(p, i))]
           S == {i \in Nat : /\ len[n] <= len[i]
                             /\ len[n] = len[i] => \A m \in n + 1 .. i : m \in DOMAIN p => p[m] = << >>}
<1>1. \A i \in 0 .. MaxParts : len[i] \in Nat /\ Join(p, i) \in Seq(Nat)
  BY JoinType
<1>2. n \in S
  BY <1>0, <1>1
<1>3. ASSUME NEW i \in n .. MaxParts - 1, i \in S PROVE i + 1 \in S
  <2>1. i \in 0 .. MaxParts /\ i + 1 \in 1 .. MaxParts /\ (i + 1) - 1 = i /\ i + 1 \in Nat
        /\ i + 1 \in 0 .. MaxParts
    BY <1>0
  <2>2. Join(p, i + 1) = IF i + 1 \in DOMAIN p THEN Join(p, i) \o p[i + 1] ELSE Join(p, i)
    BY <2>1, JoinStep
  <2>3. i + 1 \in DOMAIN p => p[i + 1] \in Seq(Nat)
    BY DEF IsParts
  <2>4. i + 1 \in DOMAIN p => len[i + 1] = len[i] + Len(p[i + 1])
    BY <1>1, <2>1, <2>2, <2>3
  <2>5. i + 1 \notin DOMAIN p => len[i + 1] = len[i]
    BY <1>1, <2>1, <2>2
  <2>6. i + 1 \in DOMAIN p => Len(p[i + 1]) \in Nat /\ (Len(p[i + 1]) = 0 => p[i + 1] = << >>)
    BY <2>3
  <2> HIDE DEF len
  <2>7. len[n] \in Nat /\ len[i] \in Nat /\ len[n] <= len[i]
        /\ (len[n] = len[i] => \A m \in n + 1 .. i : m \in DOMAIN p => p[m] = << >>)
    BY <1>1, <1>3, <2>1
  <2>8. len[n] <= len[i + 1]
    BY <2>4, <2>5, <2>6, <2>7
  <2>9. len[n] = len[i + 1] => len[n] = len[i] /\ (i + 1 \in DOMAIN p => p[i + 1] = << >>)
    BY <2>4, <2>5, <2>6, <2>7
  <2>10. \A m \in n + 1 .. i + 1 : m \in n + 1 .. i \/ m = i + 1
    BY <2>1
  <2> QED
    BY <2>1, <2>7, <2>8, <2>9, <2>10
<1>4. \A j \in n .. MaxParts : j \in S
  <2> HIDE DEF S
  <2>1. S \in SUBSET Nat /\ n \in Nat
    BY <1>0 DEF S
  <2> QED
    BY <1>0, <1>2, <1>3, <2>1, Induct
<1>5. \A j \in n .. MaxParts : j \in 0 .. MaxParts
  BY <1>0
<1> QED
  BY <1>4, <1>5

\* Empty parts add nothing.
LEMMA JoinTail ==
  ASSUME NEW p, IsParts(p), NEW n \in 0 .. MaxParts,
         \A m \in DOMAIN p : m > n => p[m] = << >>
  PROVE  \A j \in n .. MaxParts : Join(p, j) = Join(p, n)
<1>0. MaxParts \in Nat
  BY ConstantsAssumption
<1> DEFINE S == {i \in Nat : Join(p, i) = Join(p, n)}
<1>1. n \in S
  BY <1>0
<1>2. ASSUME NEW i \in n .. MaxParts - 1, i \in S PROVE i + 1 \in S
  <2>1. i \in 0 .. MaxParts /\ i + 1 \in 1 .. MaxParts /\ (i + 1) - 1 = i /\ i + 1 \in Nat /\ i + 1 > n
    BY <1>0
  <2>2. Join(p, i + 1) = IF i + 1 \in DOMAIN p THEN Join(p, i) \o p[i + 1] ELSE Join(p, i)
    BY <2>1, JoinStep
  <2>3. i + 1 \in DOMAIN p => p[i + 1] = << >>
    BY <2>1
  <2>4. Join(p, i) \in Seq(Nat)
    BY <2>1, JoinType
  <2>5. Join(p, i) \o << >> = Join(p, i)
    BY <2>4
  <2> QED
    BY <1>2, <2>1, <2>2, <2>3, <2>5
<1>3. \A j \in n .. MaxParts : j \in S
  <2> HIDE DEF S
  <2>1. S \in SUBSET Nat /\ n \in Nat
    BY <1>0 DEF S
  <2> QED
    BY <1>0, <1>1, <1>2, <2>1, Induct
<1> QED
  BY <1>3

LEMMA WithIs ==
  ASSUME NEW p, IsParts(p), NEW n \in 1 .. MaxParts, NEW c \in Seq(Nat)
  PROVE  /\ IsParts(With(p, n, c)) /\ IsParts(Without(p, n))
         /\ DOMAIN With(p, n, c) = DOMAIN p \cup {n}
         /\ With(p, n, c)[n] = c
         /\ \A m \in DOMAIN p : m # n => With(p, n, c)[m] = p[m]
         /\ DOMAIN Without(p, n) = DOMAIN p \ {n}
         /\ \A m \in DOMAIN p : m # n => Without(p, n)[m] = p[m]
         /\ Without(With(p, n, c), n) = Without(p, n)
BY DEF IsParts, With, Without

\* The size of the parts is the sum of their sizes.
LEMMA JoinLength ==
  ASSUME NEW p, IsParts(p), NEW n \in 1 .. MaxParts, n \in DOMAIN p
  PROVE  Len(Join(p, MaxParts)) = Len(Join(Without(p, n), MaxParts)) + Len(p[n])
<1>0. MaxParts \in Nat
  BY ConstantsAssumption
<1> DEFINE q == Without(p, n)
           S == {i \in Nat : Len(Join(p, i)) = Len(Join(q, i)) + Len(p[n])}
<1>1. IsParts(q) /\ DOMAIN q = DOMAIN p \ {n} /\ \A m \in DOMAIN p : m # n => q[m] = p[m]
  BY WithIs, << >> \in Seq(Nat)
<1>2. p[n] \in Seq(Nat) /\ Len(p[n]) \in Nat
  BY DEF IsParts
<1> HIDE DEF q
<1>3. \A i \in 0 .. MaxParts : /\ Join(p, i) \in Seq(Nat) /\ Len(Join(p, i)) \in Nat
                               /\ Join(q, i) \in Seq(Nat) /\ Len(Join(q, i)) \in Nat
  BY <1>1, JoinType
<1>4. n \in S
  <2>1. n - 1 \in 0 .. MaxParts /\ n \in Nat
    BY <1>0
  <2>2. \A m \in 1 .. n - 1 : m # n
    BY <1>0
  <2>3. Join(p, n - 1) = Join(q, n - 1)
    BY <1>1, <2>1, <2>2, JoinSame
  <2>4. Join(p, n) = Join(p, n - 1) \o p[n]
    BY JoinStep
  <2>5. Join(q, n) = Join(q, n - 1)
    BY <1>1, JoinStep
  <2>6. Len(Join(p, n)) = Len(Join(p, n - 1)) + Len(p[n])
    BY <1>2, <1>3, <2>1, <2>4
  <2> QED
    BY <2>1, <2>3, <2>5, <2>6
<1>5. ASSUME NEW i \in n .. MaxParts - 1, i \in S PROVE i + 1 \in S
  <2>1. i \in 0 .. MaxParts /\ i + 1 \in 1 .. MaxParts /\ (i + 1) - 1 = i /\ i + 1 \in Nat
        /\ i + 1 # n /\ i + 1 \in 0 .. MaxParts
    BY <1>0
  <2>2. Join(p, i + 1) = IF i + 1 \in DOMAIN p THEN Join(p, i) \o p[i + 1] ELSE Join(p, i)
    BY <2>1, JoinStep
  <2>3. Join(q, i + 1) = IF i + 1 \in DOMAIN p THEN Join(q, i) \o p[i + 1] ELSE Join(q, i)
    <3>1. Join(q, i + 1) = IF i + 1 \in DOMAIN q THEN Join(q, i) \o q[i + 1] ELSE Join(q, i)
      BY <2>1, JoinStep
    <3> QED
      BY <1>1, <2>1, <3>1
  <2>4. i + 1 \in DOMAIN p => p[i + 1] \in Seq(Nat) /\ Len(p[i + 1]) \in Nat
    BY DEF IsParts
  <2>5. Len(Join(p, i)) = Len(Join(q, i)) + Len(p[n])
    BY <1>5
  <2>6. Len(Join(p, i)) \in Nat /\ Len(Join(q, i)) \in Nat
    BY <1>3, <2>1
  <2>8. Len(Join(p, i + 1)) = Len(Join(q, i + 1)) + Len(p[n])
    <3>1. CASE i + 1 \in DOMAIN p
      <4>1. Len(Join(p, i + 1)) = Len(Join(p, i)) + Len(p[i + 1])
        BY <1>3, <2>1, <2>2, <2>4, <3>1, ConcatFacts
      <4>2. Len(Join(q, i + 1)) = Len(Join(q, i)) + Len(p[i + 1])
        BY <1>3, <2>1, <2>3, <2>4, <3>1, ConcatFacts
      <4>3. Len(p[i + 1]) \in Nat
        BY <2>4, <3>1
      <4>4. \A b, c, d \in Nat : (b + c) + d = (b + d) + c
        OBVIOUS
      <4>5. Len(p[n]) \in Nat
        BY <1>2
      <4>6. (Len(Join(q, i)) + Len(p[n])) + Len(p[i + 1]) = (Len(Join(q, i)) + Len(p[i + 1])) + Len(p[n])
        BY <2>6, <4>3, <4>4, <4>5, Zenon
      <4> QED
        BY <2>5, <4>1, <4>2, <4>6, Zenon
    <3>2. CASE i + 1 \notin DOMAIN p
      BY <2>2, <2>3, <2>5, <3>2
    <3> QED
      BY <3>1, <3>2
  <2> QED
    BY <2>1, <2>8
<1>6. MaxParts \in S
  <2> HIDE DEF S
  <2>1. S \in SUBSET Nat /\ n \in Nat /\ MaxParts \in n .. MaxParts
    BY <1>0 DEF S
  <2> QED
    BY <1>0, <1>4, <1>5, <2>1, Induct
<1> QED
  BY <1>6 DEF q

\* A part that is put after all that matter.
LEMMA JoinPut ==
  ASSUME NEW p, IsParts(p), NEW n \in 1 .. MaxParts, NEW c \in Seq(Nat),
         \A m \in DOMAIN p : m > n => p[m] = << >>
  PROVE  /\ \A j \in n .. MaxParts : Join(With(p, n, c), j) = Join(p, n - 1) \o c
         /\ \A j \in 0 .. n - 1 : Join(With(p, n, c), j) = Join(p, j)
         /\ Join(Without(p, n), MaxParts) = Join(p, n - 1)
<1>0. MaxParts \in Nat /\ n - 1 \in 0 .. MaxParts /\ n \in 0 .. MaxParts
      /\ n \in Nat /\ MaxParts \in n - 1 .. MaxParts
  BY ConstantsAssumption
<1> DEFINE q == With(p, n, c)
           w == Without(p, n)
<1>1. /\ IsParts(q) /\ DOMAIN q = DOMAIN p \cup {n} /\ q[n] = c
      /\ \A m \in DOMAIN p : m # n => q[m] = p[m]
      /\ IsParts(w) /\ DOMAIN w = DOMAIN p \ {n} /\ \A m \in DOMAIN p : m # n => w[m] = p[m]
  BY DEF IsParts, With, Without
<1> HIDE DEF q, w
<1>2. DOMAIN p \subseteq Nat
  BY <1>0 DEF IsParts
<1>3. \A j \in 0 .. n - 1 : j \in 0 .. MaxParts /\ \A m \in 1 .. j : m # n
  BY <1>0
<1>4. \A j \in 0 .. n - 1 : Join(q, j) = Join(p, j)
  BY <1>1, <1>3, JoinSame
<1>5. Join(w, n - 1) = Join(p, n - 1)
  BY <1>0, <1>1, <1>3, JoinSame
<1>6. \A m \in DOMAIN w : m > n - 1 => w[m] = << >>
  BY <1>0, <1>1, <1>2
<1>7. Join(w, MaxParts) = Join(w, n - 1)
  BY <1>0, <1>1, <1>6, JoinTail
<1>8. Join(q, n) = Join(q, n - 1) \o c
  BY <1>1, JoinStep
<1>9. \A m \in DOMAIN q : m > n => q[m] = << >>
  BY <1>0, <1>1, <1>2
<1>10. \A j \in n .. MaxParts : Join(q, j) = Join(q, n)
  BY <1>0, <1>1, <1>9, JoinTail
<1>11. n - 1 \in 0 .. n - 1
  BY <1>0
<1> QED
  BY <1>4, <1>5, <1>7, <1>8, <1>10, <1>11 DEF q, w

-----------------------------------------------------------------------------
(* Types.                                                                  *)

LEMMA SizeFacts ==
  ASSUME TypeInv
  PROVE  /\ IsParts(parts) /\ Joined \in Seq(Nat)
         /\ StagedSize \in Nat /\ Size \in Nat /\ Len(main) \in Nat
         /\ ~hasMain => Size = StagedSize
         /\ hasMain => /\ Size >= Len(main) /\ Size >= StagedSize
                       /\ Size = Len(main) \/ Size = StagedSize
<1>1. IsParts(parts)
  BY DEF TypeInv, TypeOK, IsParts
<1>2. MaxParts \in 0 .. MaxParts
  BY ConstantsAssumption
<1>3. Joined \in Seq(Nat) /\ StagedSize \in Nat
  BY <1>1, <1>2, JoinType DEF Joined, StagedSize
<1>4. Len(main) \in Nat
  BY DEF TypeInv, TypeOK
<1> HIDE DEF StagedSize
<1> QED
  BY <1>1, <1>3, <1>4 DEF Size, Larger

LEMMA DoneTypes ==
  ASSUME Done
  PROVE  /\ pc' \in Points /\ st' \in State /\ st'.next >= 1
         /\ body' \in [size : Nat, damaged : BOOLEAN]
         /\ at' \in [part : 1 .. MaxParts, staged : Nat]
         /\ buf' \in Seq(Nat) /\ tries' \in 0 .. FinalizeRetries
BY ConstantsAssumption
DEF Done, Goto, Points, State, NoBody, Nowhere, Deferred

\* The types of the objects, and of the request.
ObjectTypes ==
  /\ hasMain \in BOOLEAN /\ main \in Seq(Nat) /\ IsParts(parts) /\ marker \in 0 .. MaxParts
RequestTypes ==
  /\ pc \in Points /\ st \in State /\ st.next >= 1
  /\ body \in [size : Nat, damaged : BOOLEAN]
  /\ at \in [part : 1 .. MaxParts, staged : Nat]
  /\ buf \in Seq(Nat) /\ tries \in 0 .. FinalizeRetries
RecordTypes ==
  /\ hasRecord \in BOOLEAN /\ record \in State /\ record.next >= 1
HistoryTypes == acked \in Nat /\ doomed \in BOOLEAN /\ lost \in BOOLEAN

LEMMA TypeParts ==
  TypeInv <=> ObjectTypes /\ RequestTypes /\ RecordTypes /\ HistoryTypes /\ spoilt \subseteq Nat
BY DEF TypeInv, TypeOK, IsParts, ObjectTypes, RequestTypes, RecordTypes, HistoryTypes

LEMMA ReconciledType ==
  ASSUME TypeInv
  PROVE  /\ Reconciled(record) \in State /\ Reconciled(record).next = record.next
         /\ Reconciled(record).offset = Size /\ Reconciled(record).length = record.length
         /\ Reconciled(record).staged = record.staged
BY SizeFacts DEF Reconciled, State, TypeInv, TypeOK

LEMMA PositionType ==
  ASSUME TypeInv
  PROVE  /\ Position(st).part \in Nat /\ Position(st).part >= 1
         /\ Position(st).staged \in Nat /\ Position(st).offset \in Nat
<1>1. st.next \in Nat /\ st.next >= 1 /\ st.staged \in Nat
  BY DEF TypeInv, TypeOK, State
<1>2. CASE st.next \notin DOMAIN parts
  BY <1>1, <1>2 DEF Position
<1>3. CASE st.next \in DOMAIN parts
  <2>1. Max(DOMAIN parts) \in DOMAIN parts
    BY <1>3, SizeFacts, LargestNumber DEF IsParts
  <2>2. Max(DOMAIN parts) \in Nat
    BY <2>1, SizeFacts, ConstantsAssumption DEF IsParts
  <2> QED
    BY <1>1, <1>3, <2>2, SizeFacts DEF Position, Larger
<1> QED
  BY <1>2, <1>3

LEMMA FunctionIsSeq ==
  ASSUME NEW n \in Nat, NEW f \in [1 .. n -> Nat]
  PROVE  f \in Seq(Nat) /\ Len(f) = n
OBVIOUS

LEMMA BytesType ==
  ASSUME TypeInv
  PROVE  /\ Append(buf, Byte(Len(buf) + 1)) \in Seq(Nat)
         /\ [k \in 1 .. body.size |-> Byte(k)] \in Seq(Nat)
<1>1. body.size \in Nat /\ st.offset \in Nat /\ buf \in Seq(Nat) /\ Len(buf) \in Nat
  BY DEF TypeInv, TypeOK, State
<1>2. \A k \in Nat : Byte(k) \in Nat
  BY <1>1 DEF Byte
<1>3. Len(buf) + 1 \in Nat
  BY <1>1
<1>4. Byte(Len(buf) + 1) \in Nat
  BY <1>2, <1>3
<1>5. [k \in 1 .. body.size |-> Byte(k)] \in [1 .. body.size -> Nat]
  BY <1>1, <1>2
<1>6. Append(buf, Byte(Len(buf) + 1)) \in Seq(Nat)
  BY <1>1, <1>4
<1>7. [k \in 1 .. body.size |-> Byte(k)] \in Seq(Nat)
  <2> DEFINE f == [k \in 1 .. body.size |-> Byte(k)]
  <2> HIDE DEF f
  <2>1. f \in [1 .. body.size -> Nat]
    BY <1>5 DEF f
  <2>2. f \in Seq(Nat)
    BY <1>1, <2>1, FunctionIsSeq
  <2> QED
    BY <2>2 DEF f
<1> QED
  BY <1>6, <1>7

\* Which steps spoil a position.
LEMMA SpoiltMoves ==
  ASSUME [Next]_vars
  PROVE  \/ spoilt' = spoilt
         \/ pc = "write" /\ spoilt' \subseteq spoilt
         \/ WriteChunk /\ TornWrites /\ spoilt' = spoilt \cup {st.offset + Len(buf')}
<1>1. CASE WriteChunk
  BY <1>1 DEF WriteChunk
<1>2. CASE WriteError
  BY <1>2 DEF WriteError
<1>3. CASE HeadRequest \/ Patch \/ Get
  BY <1>3 DEF HeadRequest, Patch, Get, Access
<1>4. CASE \/ Place \/ Refuse \/ WriteClose \/ Mark \/ Stage \/ Unmark \/ Finalize \/ Cleanup
           \/ ConcatSource \/ Read \/ Serve \/ Delete \/ DelMain \/ DelParts \/ Interrupt
  BY <1>4 DEF Place, Refuse, WriteClose, Mark, Stage, Unmark, Finalize, Cleanup, ConcatSource,
       Read, Serve, Delete, DelMain, DelParts, Interrupt, KeepHist
<1>5. CASE Promote \/ Commit \/ DelMarker \/ DelRecord \/ UNCHANGED vars
  BY <1>5 DEF Promote, Commit, DelMarker, DelRecord, vars
<1> QED
  BY <1>1, <1>2, <1>3, <1>4, <1>5 DEF Next

LEMMA SpoiltType == TypeInv /\ [Next]_vars => spoilt' \subseteq Nat
<1> SUFFICES ASSUME TypeInv, [Next]_vars PROVE spoilt' \subseteq Nat
  OBVIOUS
<1>1. spoilt \subseteq Nat /\ st.offset \in Nat /\ buf \in Seq(Nat)
  BY DEF TypeInv, TypeOK, State
<1>2. WriteChunk => st.offset + Len(buf') \in Nat
  <2>1. WriteChunk => buf' \in Seq(Nat)
    BY BytesType DEF WriteChunk
  <2> QED
    BY <1>1, <2>1
<1> QED
  BY <1>1, <1>2, SpoiltMoves

LEMMA TypeStep == TypeInv /\ [Next]_vars => TypeInv'
<1> SUFFICES ASSUME TypeInv, [Next]_vars PROVE TypeInv'
  OBVIOUS
<1>0. ObjectTypes /\ RequestTypes /\ RecordTypes /\ HistoryTypes
  BY TypeParts
<1> SUFFICES (ObjectTypes /\ RequestTypes /\ RecordTypes /\ HistoryTypes)'
  BY SpoiltType DEF TypeInv, TypeOK, IsParts, ObjectTypes, RequestTypes, RecordTypes, HistoryTypes
<1>a. Done => RequestTypes'
  BY DoneTypes DEF RequestTypes
<1>b. ASSUME Access PROVE RecordTypes' /\ ObjectTypes' /\ record' = Reconciled(record)
                          /\ record'.offset \in Nat /\ UNCHANGED <<doomed, lost>>
  <2>1. record' = Reconciled(record) /\ UNCHANGED <<hasRecord, doomed, lost, hasMain, main, parts, marker>>
    BY <1>b DEF Access, objects
  <2>2. record' \in State /\ record'.next = record.next /\ record'.offset \in Nat
    BY <2>1, ReconciledType, SizeFacts
  <2> QED
    BY <1>0, <2>1, <2>2 DEF RecordTypes, ObjectTypes, IsParts
<1>c. ASSUME NEW n \in 1 .. MaxParts, NEW c \in Seq(Nat)
      PROVE  IsParts(With(parts, n, c)) /\ IsParts(Without(parts, n))
  BY <1>0, WithIs DEF ObjectTypes
<1>d. at.part \in 1 .. MaxParts /\ at.staged \in Nat /\ body.size \in Nat /\ buf \in Seq(Nat)
  BY <1>0 DEF RequestTypes
<1>e. DOMAIN parts # {} => IsParts(Without(parts, Min(DOMAIN parts)))
  BY <1>0, <1>c, SmallestNumber, << >> \in Seq(Nat) DEF ObjectTypes, IsParts
<1>f. \A n \in 0 .. MaxParts : Join(parts, n) \in Seq(Nat)
  BY <1>0, JoinType DEF ObjectTypes
<1>g. NoMarker \in 0 .. MaxParts /\ MaxParts \in 0 .. MaxParts /\ Nat \ {0} \subseteq Nat
  BY ConstantsAssumption DEF NoMarker
<1>1. CASE HeadRequest
  <2>1. Access /\ acked' = Larger(acked, record'.offset) /\ UNCHANGED <<pc, st, body, at, buf, tries>>
    BY <1>1 DEF HeadRequest, local
  <2> QED
    BY <1>0, <1>b, <2>1 DEF RequestTypes, HistoryTypes, Larger
<1>2. CASE Patch
  <2>1. Access /\ pc' = "place" /\ UNCHANGED <<at, buf, tries, acked>>
    BY <1>2 DEF Patch, Goto
  <2>2. PICK length \in Lengths \cup {Deferred}, size \in BodySizes, damaged \in BOOLEAN :
          /\ st' = [record' EXCEPT !.length = IF @ = Deferred THEN length ELSE @]
          /\ body' = [size |-> size, damaged |-> damaged]
    BY <1>2 DEF Patch
  <2>3. record' \in State /\ record'.next >= 1 /\ length \in Nat \cup {Deferred} /\ size \in Nat
    BY <1>b, <2>1, ConstantsAssumption DEF RecordTypes
  <2>4. st' \in State /\ st'.next >= 1
    BY <2>2, <2>3 DEF State
  <2>5. RequestTypes'
    BY <1>0, <2>1, <2>2, <2>3, <2>4 DEF RequestTypes, Points
  <2> QED
    BY <1>0, <1>b, <2>1, <2>5 DEF HistoryTypes
<1>3. CASE Place
  <2>1. UNCHANGED <<hasRecord, record, acked, doomed, lost, hasMain, main, parts, marker>>
    BY <1>3 DEF Place, KeepRecord, KeepHist, objects
  <2>2. \/ pc' = "refuse" /\ UNCHANGED <<st, body, at, buf, tries>>
        \/ /\ pc' \in {"mark", "write"} /\ UNCHANGED <<st, body, buf, tries>>
           /\ Position(st).part <= MaxParts
           /\ at' = [part |-> Position(st).part, staged |-> Position(st).staged]
    BY <1>3 DEF Place, Goto, local
  <2>3. Position(st).part \in Nat /\ Position(st).part >= 1 /\ Position(st).staged \in Nat
    BY PositionType
  <2>4. pc' \in Points
    BY <2>2 DEF Points
  <2>5. at' \in [part : 1 .. MaxParts, staged : Nat]
    BY <1>0, <2>2, <2>3, ConstantsAssumption DEF RequestTypes
  <2>6. UNCHANGED <<st, body, buf, tries>>
    BY <2>2
  <2> QED
    BY <1>0, <2>1, <2>4, <2>5, <2>6 DEF ObjectTypes, RequestTypes, RecordTypes, HistoryTypes, IsParts
<1>4. CASE \/ Refuse \/ Serve \/ Interrupt
  BY <1>0, <1>a, <1>4 DEF Refuse, Serve, Interrupt, KeepRecord, KeepHist, objects,
       ObjectTypes, RecordTypes, HistoryTypes, IsParts
<1>5. CASE WriteChunk
  <2>1. buf' \in Seq(Nat)
    BY <1>5, BytesType DEF WriteChunk
  <2>2. parts' = With(parts, at.part, buf') \/ parts' = parts
    BY <1>5 DEF WriteChunk, Put
  <2>3. IsParts(parts)'
    BY <1>0, <1>c, <1>d, <2>1, <2>2 DEF ObjectTypes, IsParts
  <2> QED
    BY <1>0, <1>5, <2>1, <2>3 DEF WriteChunk, KeepRecord, KeepMain, KeepHist,
         ObjectTypes, RequestTypes, RecordTypes, HistoryTypes
<1>6. CASE WriteError
  <2>1. parts' = Without(parts, at.part) \/ parts' = parts
    BY <1>6 DEF WriteError, Discard
  <2>2. IsParts(parts)'
    BY <1>0, <1>c, <1>d, <2>1 DEF ObjectTypes, IsParts
  <2> QED
    BY <1>0, <1>a, <1>6, <2>2 DEF WriteError, KeepRecord, KeepMain, KeepHist,
         ObjectTypes, RecordTypes, HistoryTypes
<1>7. CASE WriteClose
  <2>1. IsParts(parts)'
    BY <1>7, <1>c, <1>d DEF WriteClose, Put, IsParts
  <2> QED
    BY <1>0, <1>7, <2>1 DEF WriteClose, Goto, local, Points, KeepRecord, KeepMain, KeepHist,
         ObjectTypes, RequestTypes, RecordTypes, HistoryTypes
<1>8. CASE Mark
  <2>1. marker' \in 0 .. MaxParts
    BY <1>0, <1>8, <1>d, <1>g, ConstantsAssumption DEF Mark, ObjectTypes
  <2>2. RequestTypes'
    BY <1>0, <1>8, <1>a DEF Mark, Goto, local, Points, RequestTypes
  <2> QED
    BY <1>0, <1>8, <2>1, <2>2 DEF Mark, KeepRecord, KeepMain, KeepHist,
         ObjectTypes, RecordTypes, HistoryTypes, IsParts
<1>9. CASE Stage
  <2>1. buf' \in Seq(Nat)
    BY <1>9, <1>d, BytesType DEF Stage
  <2> QED
    BY <1>0, <1>9, <2>1 DEF Stage, Goto, Points, KeepRecord, KeepMain, KeepHist, KeepParts,
         ObjectTypes, RequestTypes, RecordTypes, HistoryTypes, IsParts
<1>10. CASE Promote
  <2>1. parts' = With(parts, at.part, buf) \/ parts' = parts
    BY <1>10 DEF Promote, Put
  <2>2. IsParts(parts)'
    BY <1>0, <1>c, <1>d, <2>1 DEF ObjectTypes, IsParts
  <2>3. RequestTypes' /\ lost' \in BOOLEAN
    BY <1>0, <1>10 DEF Promote, Goto, local, Points, RequestTypes, HistoryTypes
  <2> QED
    BY <1>0, <1>10, <2>2, <2>3 DEF Promote, KeepRecord, KeepMain,
         ObjectTypes, RecordTypes, HistoryTypes
<1>11. CASE Unmark
  BY <1>0, <1>a, <1>11, <1>g DEF Unmark, KeepRecord, KeepMain, KeepHist,
       ObjectTypes, RecordTypes, HistoryTypes, IsParts
<1>12. CASE Finalize
  <2>1. ObjectTypes'
    BY <1>0, <1>12, <1>f, <1>g DEF Finalize, KeepMain, KeepParts, Joined, ObjectTypes, IsParts
  <2>2. RequestTypes'
    BY <1>0, <1>12, <1>a, ConstantsAssumption DEF Finalize, Goto, local, Points, RequestTypes
  <2> QED
    BY <1>0, <1>12, <2>1, <2>2 DEF Finalize, KeepRecord, KeepHist, RecordTypes, HistoryTypes
<1>13. CASE Cleanup
  <2>1. ObjectTypes'
    BY <1>0, <1>13, <1>e, <1>g DEF Cleanup, Discard, KeepMain, ObjectTypes, IsParts
  <2>2. pc' \in Points
    BY <1>0, <1>13 DEF Cleanup, Goto, Points, RequestTypes
  <2> QED
    BY <1>0, <1>13, <2>1, <2>2 DEF Cleanup, local, KeepRecord, KeepHist,
         RequestTypes, RecordTypes, HistoryTypes
<1>14. CASE Commit
  <2>1. /\ \/ /\ record' = [st EXCEPT !.offset = @ + body.size, !.next = at.part + 1,
                                       !.staged = at.staged + body.size]
              /\ acked' = Larger(acked, record'.offset)
           \/ UNCHANGED <<record, acked>>
        /\ Done
        /\ UNCHANGED <<hasRecord, hasMain, main, parts, marker, doomed, lost>>
    BY <1>14 DEF Commit, objects
  <2>2. record' \in State /\ record'.next >= 1 /\ acked' \in Nat
    <3>1. CASE UNCHANGED <<record, acked>>
      BY <1>0, <3>1 DEF RecordTypes, HistoryTypes
    <3>2. CASE /\ record' = [st EXCEPT !.offset = @ + body.size, !.next = at.part + 1,
                                       !.staged = at.staged + body.size]
               /\ acked' = Larger(acked, record'.offset)
      <4>0. st \in State /\ st.offset + body.size \in Nat /\ at.staged + body.size \in Nat
            /\ at.part + 1 \in Nat /\ at.part + 1 >= 1
        BY <1>0, <1>d, ConstantsAssumption DEF RequestTypes, State
      <4>1. record' \in State /\ record'.next = at.part + 1 /\ record'.offset \in Nat
        BY <3>2, <4>0 DEF State
      <4> QED
        BY <1>0, <3>2, <4>0, <4>1 DEF Larger, HistoryTypes
    <3> QED
      BY <2>1, <3>1, <3>2
  <2> QED
    BY <1>0, <1>a, <2>1, <2>2 DEF ObjectTypes, RecordTypes, HistoryTypes, IsParts
<1>15. CASE Get
  <2>1. Access /\ st' = record' /\ pc' = "read" /\ UNCHANGED <<body, at, buf, tries, acked>>
    BY <1>15 DEF Get, Goto
  <2> QED
    BY <1>0, <1>b, <2>1 DEF RequestTypes, RecordTypes, HistoryTypes, Points
<1>16. CASE ConcatSource
  BY <1>0, <1>16 DEF ConcatSource, Goto, KeepRecord, KeepHist, objects, Points,
       ObjectTypes, RequestTypes, RecordTypes, HistoryTypes, IsParts
<1>17. CASE Read
  <2>1. ObjectTypes'
    BY <1>0, <1>17, <1>f DEF Read, KeepMain, KeepParts, ObjectTypes, IsParts
  <2>2. RequestTypes'
    BY <1>0, <1>17, <1>a DEF Read, Goto, local, Points, RequestTypes
  <2> QED
    BY <1>0, <1>17, <2>1, <2>2 DEF Read, KeepRecord, KeepHist, RecordTypes, HistoryTypes
<1>18. CASE Delete \/ DelMarker \/ DelMain
  <2>1. << >> \in Seq(Nat)
    OBVIOUS
  <2>2. ObjectTypes' /\ HistoryTypes'
    BY <1>0, <1>18, <1>g, <2>1 DEF Delete, DelMarker, DelMain, KeepHist, KeepMain, KeepParts,
         objects, ObjectTypes, HistoryTypes, IsParts
  <2>3. RequestTypes' /\ RecordTypes'
    BY <1>0, <1>18 DEF Delete, DelMarker, DelMain, Goto, local, Points, KeepRecord,
         RequestTypes, RecordTypes
  <2> QED
    BY <2>2, <2>3
<1>19. CASE DelParts
  <2>1. parts' = parts \/ (DOMAIN parts # {} /\ parts' = Without(parts, Min(DOMAIN parts)))
    BY <1>19 DEF DelParts, Discard
  <2>2. IsParts(parts)'
    BY <1>0, <1>e, <2>1 DEF ObjectTypes, IsParts
  <2>3. pc' \in Points
    BY <1>0, <1>19 DEF DelParts, Goto, Points, RequestTypes
  <2> QED
    BY <1>0, <1>19, <2>2, <2>3 DEF DelParts, KeepRecord, KeepMain, KeepHist, local,
         ObjectTypes, RequestTypes, RecordTypes, HistoryTypes
<1>20. CASE DelRecord
  BY <1>0, <1>a, <1>20 DEF DelRecord, objects, ObjectTypes, RecordTypes, HistoryTypes, IsParts
<1>21. CASE UNCHANGED vars
  BY <1>0, <1>21 DEF vars, objects, local, ObjectTypes, RequestTypes, RecordTypes, HistoryTypes, IsParts
<1> QED
  BY <1>1, <1>2, <1>3, <1>4, <1>5, <1>6, <1>7, <1>8, <1>9, <1>10, <1>11, <1>12, <1>13,
     <1>14, <1>15, <1>16, <1>17, <1>18, <1>19, <1>20, <1>21 DEF Next

LEMMA TypeInit == Init => TypeInv
<1> SUFFICES ASSUME Init PROVE TypeInv
  OBVIOUS
<1>1. record \in State /\ record.next >= 1
  BY ConstantsAssumption DEF Init, State, Deferred
<1>2. parts = << >> /\ DOMAIN parts = {}
  BY DEF Init
<1>3. st \in State /\ st.next >= 1
  BY DEF Init, State, Deferred
<1>4. /\ body \in [size : Nat, damaged : BOOLEAN]
      /\ at \in [part : 1 .. MaxParts, staged : Nat]
      /\ buf \in Seq(Nat) /\ tries \in 0 .. FinalizeRetries /\ pc \in Points
  BY ConstantsAssumption DEF Init, NoBody, Nowhere, Points
<1>5. hasRecord \in BOOLEAN /\ hasMain \in BOOLEAN /\ doomed \in BOOLEAN /\ lost \in BOOLEAN
  BY Zenon DEF Init
<1>6. main \in Seq(Nat) /\ marker \in 0 .. MaxParts /\ acked \in Nat
  BY ConstantsAssumption DEF Init, NoMarker
<1>7. spoilt \subseteq Nat
  BY DEF Init
<1> QED
  BY <1>1, <1>2, <1>3, <1>4, <1>5, <1>6, <1>7 DEF TypeInv, TypeOK

-----------------------------------------------------------------------------
(* Steps.                                                                  *)

LEMMA FileFacts ==
  ASSUME NEW n \in Nat
  PROVE  /\ File(n) \in Seq(Nat) /\ Len(File(n)) = n
         /\ File(0) = << >>
<1>1. \A i \in 1 .. n : i \in Nat
  OBVIOUS
<1>2. File(n) \in [1 .. n -> Nat]
  BY <1>1 DEF File
<1>3. File(0) = << >>
  BY DEF File
<1> QED
  BY <1>2, <1>3, FunctionIsSeq

LEMMA ConcatAt ==
  ASSUME NEW x \in Seq(Nat), NEW y \in Seq(Nat), NEW i \in 1 .. Len(x) + Len(y)
  PROVE  (x \o y)[i] = IF i <= Len(x) THEN x[i] ELSE y[i - Len(x)]
OBVIOUS

LEMMA SameSequence ==
  ASSUME NEW x \in Seq(Nat), NEW y \in Seq(Nat), Len(x) = Len(y),
         \A i \in 1 .. Len(x) : x[i] = y[i]
  PROVE  x = y
OBVIOUS

LEMMA FileConcat ==
  ASSUME NEW n \in Nat, NEW c \in Seq(Nat), \A k \in 1 .. Len(c) : c[k] = n + k
  PROVE  File(n) \o c = File(n + Len(c))
<1>0. Len(c) \in Nat
  OBVIOUS
<1>1. File(n) \in Seq(Nat) /\ Len(File(n)) = n
  BY FileFacts
<1>2. n + Len(c) \in Nat
  BY <1>0
<1>3. File(n + Len(c)) \in Seq(Nat) /\ Len(File(n + Len(c))) = n + Len(c)
  BY <1>2, FileFacts
<1>4. File(n) \o c \in Seq(Nat) /\ Len(File(n) \o c) = n + Len(c)
  BY <1>1, ConcatFacts
<1>5. ASSUME NEW i \in 1 .. n + Len(c) PROVE (File(n) \o c)[i] = File(n + Len(c))[i]
  <2>1. File(n + Len(c))[i] = i
    BY <1>2 DEF File
  <2>2. CASE i <= n
    <3>1. (File(n) \o c)[i] = File(n)[i]
      BY <1>1, <2>2, ConcatAt
    <3>2. File(n)[i] = i
      BY <2>2 DEF File
    <3> QED
      BY <2>1, <3>1, <3>2
  <2>3. CASE i > n
    <3>1. (File(n) \o c)[i] = c[i - n]
      BY <1>1, <2>3, ConcatAt
    <3>2. i - n \in 1 .. Len(c) /\ n + (i - n) = i
      BY <1>0, <2>3
    <3>3. c[i - n] = n + (i - n)
      BY <3>2
    <3> QED
      BY <2>1, <3>1, <3>2, <3>3
  <2>4. i <= n \/ i > n
    BY <1>0
  <2> QED
    BY <2>2, <2>3, <2>4
<1> DEFINE x == File(n) \o c
           y == File(n + Len(c))
<1> HIDE DEF x, y
<1>6. x \in Seq(Nat) /\ y \in Seq(Nat) /\ Len(x) = Len(y) /\ \A i \in 1 .. Len(x) : x[i] = y[i]
  BY <1>3, <1>4, <1>5 DEF x, y
<1>7. x = y
  BY <1>6, SameSequence
<1> QED
  BY <1>7 DEF x, y

LEMMA SizeKept ==
  ASSUME TypeInv, Stored, Handle
  PROVE  /\ L \in Nat /\ Size \in Nat /\ StagedSize \in Nat /\ record.offset \in Nat
         /\ StagedSize <= L /\ Size <= L
         /\ hasMain => Size = L
         /\ ~hasMain => Size = StagedSize
<1>1. L \in Nat /\ StagedSize <= L /\ (hasMain => Len(main) = L)
  BY DEF Stored, Handle, L
<1>2. record.offset \in Nat
  BY DEF TypeInv, TypeOK, State
<1> QED
  BY <1>1, <1>2, SizeFacts

LEMMA RequestKept ==
  ASSUME TypeInv
  PROVE  /\ st.offset \in Nat /\ st.next \in Nat /\ st.next >= 1 /\ st.staged \in Nat
         /\ body.size \in Nat /\ at.part \in 1 .. MaxParts /\ at.part \in Nat /\ at.part >= 1
         /\ at.staged \in Nat /\ buf \in Seq(Nat) /\ Len(buf) \in Nat /\ acked \in Nat
         /\ record.next \in Nat /\ record.staged \in Nat /\ DOMAIN parts \subseteq Nat
         /\ marker \in Nat /\ MaxParts \in Nat
BY ConstantsAssumption DEF TypeInv, TypeOK, State

\* A request that is over expects nothing.
LEMMA IdleStep == Done => Running'
BY DEF Done, Goto, Running, Deleting, Staging

\* Nothing is stored.
LEMMA SameStep ==
  ASSUME Stored, Handle, UNCHANGED <<record, hasMain, main, parts, marker, acked, doomed, lost>>
  PROVE  Stored' /\ Handle' /\ L' = L /\ StagedSize' = StagedSize /\ Size' = Size /\ Firm' = Firm
<1>1. L' = L /\ StagedSize' = StagedSize /\ Joined' = Joined
  BY DEF L, StagedSize, Joined
<1>2. Size' = Size /\ Firm' = Firm /\ Repairable' = Repairable
  BY <1>1 DEF Size, Larger, Firm, Repairable
<1>3. Join(parts, marker)' = Join(parts, marker) /\ Join(parts, record.next - 1)' = Join(parts, record.next - 1)
  OBVIOUS
<1>4. Stored'
  BY <1>1, <1>2, <1>3 DEF Stored
<1>5. Handle'
  BY <1>1, <1>2, <1>3 DEF Handle
<1> QED
  BY <1>1, <1>2, <1>4, <1>5

\* Only the marker changes.
LEMMA MarkerStep ==
  ASSUME Stored, Handle, UNCHANGED <<record, hasMain, main, parts, acked, doomed, lost>>,
         Firm /\ StagedSize = L /\ marker' # NoMarker => Join(parts, marker') = File(L),
         ~doomed /\ ~hasMain /\ ~lost /\ StagedSize = L /\ L > 0 => marker' = marker,
         marker' # NoMarker /\ ~hasMain => record.offset <= Size
  PROVE  Stored' /\ Handle' /\ L' = L /\ StagedSize' = StagedSize /\ Size' = Size /\ Firm' = Firm
<1>1. L' = L /\ StagedSize' = StagedSize /\ Joined' = Joined
  BY DEF L, StagedSize, Joined
<1>2. Size' = Size /\ Firm' = Firm
  BY <1>1 DEF Size, Larger, Firm
<1>3. Join(parts, record.next - 1)' = Join(parts, record.next - 1)
  OBVIOUS
<1>4. marker' = marker => Repairable' = Repairable
  BY DEF Repairable
<1>5. Stored'
  BY <1>1, <1>2, <1>4 DEF Stored
<1>6. Handle'
  BY <1>1, <1>2, <1>3 DEF Handle
<1> QED
  BY <1>1, <1>2, <1>5, <1>6

\* Nothing has been written yet.
LEMMA NotYet ==
  ASSUME TypeInv, Kept, pc \in {"mark", "stage", "promote"}
  PROVE  /\ Aligned /\ Fits /\ st = record /\ Completes
         /\ at.part \notin DOMAIN parts /\ StagedSize = st.offset /\ StagedSize < L
         /\ Size = st.offset
<1>1. Aligned /\ Fits /\ st = record /\ pc # "write"
  BY DEF Kept, Running, Staging, Deleting
<1>2. at.part \notin DOMAIN parts /\ Completes
  BY <1>1 DEF Aligned
<1>3. DOMAIN Without(parts, at.part) = DOMAIN parts /\ \A m \in DOMAIN parts : Without(parts, at.part)[m] = parts[m]
  BY <1>2 DEF Without
<1>4. MaxParts \in 0 .. MaxParts
  BY ConstantsAssumption
<1>5. Join(Without(parts, at.part), MaxParts) = Join(parts, MaxParts)
  BY <1>3, <1>4, JoinSame
<1>6. StagedSize = st.offset
  BY <1>1, <1>5 DEF Aligned, StagedSize, Joined
<1>7. Size = StagedSize /\ st.offset < L
  BY <1>1, SizeFacts DEF Fits
<1> QED
  BY <1>1, <1>2, <1>6, <1>7

\* The part is put in its place.
LEMMA PutStep ==
  ASSUME TypeInv, Kept, pc \in {"write", "promote"}, NEW c \in Seq(Nat),
         Len(c) <= body.size, \A k \in 1 .. Len(c) : c[k] = st.offset + k,
         parts' = With(parts, at.part, c),
         UNCHANGED <<record, hasMain, main, marker, acked, doomed>>, lost => lost'
  PROVE  /\ Stored' /\ Handle' /\ L' = L
         /\ StagedSize' = st.offset + Len(c) /\ Size' = st.offset + Len(c)
         /\ DOMAIN parts' = DOMAIN parts \cup {at.part} /\ parts'[at.part] = c
         /\ \A m \in DOMAIN parts : m # at.part => parts'[m] = parts[m]
         /\ Without(parts', at.part) = Without(parts, at.part)
         /\ Firm' => Firm \/ at.part = 1
         /\ Firm \/ at.part = 1 =>
              /\ Join(parts', at.part) = File(st.offset + Len(c))
              /\ Join(parts', at.part - 1) = Join(parts, at.part - 1)
<1>1. Aligned /\ Fits /\ st = record /\ Stored /\ Handle
  BY DEF Kept, Running, Staging, Deleting
<1>2. /\ st.offset \in Nat /\ body.size \in Nat /\ at.part \in 1 .. MaxParts
      /\ at.part \in Nat /\ at.part >= 1 /\ MaxParts \in Nat /\ DOMAIN parts \subseteq Nat
      /\ record.next \in Nat /\ Len(c) \in Nat /\ acked \in Nat /\ st.next \in Nat
  BY RequestKept
<1>3. IsParts(parts) /\ ~hasMain
  BY <1>1, SizeFacts DEF Fits
<1>4. /\ IsParts(parts') /\ DOMAIN parts' = DOMAIN parts \cup {at.part} /\ parts'[at.part] = c
      /\ \A m \in DOMAIN parts : m # at.part => parts'[m] = parts[m]
      /\ Without(parts', at.part) = Without(parts, at.part)
  <2>1. at.part \in 1 .. MaxParts
    BY <1>2
  <2>2. IsParts(parts')
    BY <1>3, <2>1 DEF IsParts, With
  <2> QED
    BY <2>2 DEF With, Without
<1>5. StagedSize' = st.offset + Len(c)
  <2>1. Len(Join(parts', MaxParts)) = Len(Join(Without(parts', at.part), MaxParts)) + Len(parts'[at.part])
    BY <1>2, <1>4, JoinLength
  <2>2. Len(Join(Without(parts, at.part), MaxParts)) = st.offset
    BY <1>1 DEF Aligned
  <2> QED
    BY <1>4, <2>1, <2>2 DEF StagedSize, Joined
<1>6. L' = L /\ L \in Nat /\ st.offset + body.size <= L /\ st.offset < L
  BY <1>1, SizeKept DEF L, Fits
<1>7. Size' = st.offset + Len(c)
  BY <1>3, <1>5 DEF Size
<1>8. Firm' => Firm \/ at.part = 1
  BY <1>3, <1>4 DEF Firm
<1>9. ASSUME Firm \/ at.part = 1
      PROVE  /\ \A j \in at.part .. MaxParts : Join(parts', j) = File(st.offset + Len(c))
             /\ \A j \in 0 .. at.part - 1 : Join(parts', j) = Join(parts, j)
  <2>1. /\ Join(parts, at.part - 1) = File(st.offset)
        /\ \A m \in DOMAIN parts : m > at.part => parts[m] = << >>
    BY <1>1, <1>9 DEF Aligned
  <2>2. /\ \A j \in at.part .. MaxParts : Join(parts', j) = Join(parts, at.part - 1) \o c
        /\ \A j \in 0 .. at.part - 1 : Join(parts', j) = Join(parts, j)
    BY <1>2, <1>3, <2>1, JoinPut
  <2>3. File(st.offset) \o c = File(st.offset + Len(c))
    BY <1>2, FileConcat
  <2> QED
    BY <2>1, <2>2, <2>3
<1>10. at.part \in at.part .. MaxParts /\ MaxParts \in at.part .. MaxParts
       /\ at.part - 1 \in 0 .. at.part - 1
  BY <1>2
<1>11. Firm' => Joined' = File(st.offset + Len(c))
  BY <1>8, <1>9, <1>10 DEF Joined
<1>12. st.offset + Len(c) = L => pc = "promote" /\ marker = at.part
  <2>1. CASE pc = "write"
    <3>1. st.offset + body.size # L
      BY <1>1, <2>1 DEF Aligned, Completes, L
    <3> QED
      BY <1>2, <1>6, <3>1
  <2>2. CASE pc = "promote"
    BY <1>1, <2>2 DEF Aligned
  <2> QED
    BY <2>1, <2>2
<1>13. ~doomed => 1 .. at.part \subseteq DOMAIN parts' /\ DOMAIN parts' \subseteq 1 .. at.part
  <2>1. ~doomed => 1 .. at.part - 1 \subseteq DOMAIN parts /\ DOMAIN parts \subseteq 1 .. at.part
    BY <1>1 DEF Aligned
  <2>2. \A m \in 1 .. at.part : m = at.part \/ m \in 1 .. at.part - 1
    BY <1>2
  <2>3. at.part \in 1 .. at.part
    BY <1>2
  <2> QED
    BY <1>4, <2>1, <2>2, <2>3
<1>14. Stored'
  <2>1. (StagedSize <= L)'
    BY <1>2, <1>5, <1>6
  <2>2. (/\ hasMain => Len(main) = L
         /\ ~hasMain => main = << >>
         /\ ~doomed => main = File(Len(main)))'
    BY <1>1, <1>3, <1>6 DEF Stored
  <2>3. (Firm => Joined = File(StagedSize))'
    BY <1>5, <1>11
  <2>4. (Firm /\ StagedSize = L /\ marker # NoMarker => Join(parts, marker) = File(L))'
    BY <1>5, <1>6, <1>8, <1>9, <1>10, <1>12
  <2>5. (~doomed /\ ~hasMain => \A n \in DOMAIN parts : 1 .. n \subseteq DOMAIN parts)'
    <3>1. ASSUME ~doomed, NEW n \in DOMAIN parts' PROVE 1 .. n \subseteq DOMAIN parts'
      <4>1. n \in 1 .. at.part
        BY <1>13, <3>1
      <4>2. 1 .. n \subseteq 1 .. at.part
        BY <1>2, <4>1
      <4> QED
        BY <1>13, <3>1, <4>2
    <3> QED
      BY <3>1
  <2>6. (~doomed /\ ~hasMain /\ ~lost /\ StagedSize = L /\ L > 0 => Repairable)'
    BY <1>2, <1>5, <1>6, <1>12, <1>13 DEF Repairable, NoMarker
  <2> QED
    BY <2>1, <2>2, <2>3, <2>4, <2>5, <2>6 DEF Stored
<1>15. Handle'
  <2>1. (/\ record.length \in Nat /\ record.next \in 1 .. MaxParts + 1
         /\ record.next = 1 => record.staged = 0)'
    BY <1>1 DEF Handle
  <2>2. at.part >= record.next /\ record.next >= 1
    BY <1>1, <1>2, <2>1 DEF Aligned
  <2>3. (Firm => record.staged = Len(Join(parts, record.next - 1)))'
    <3> SUFFICES ASSUME Firm' PROVE record.staged = Len(Join(parts', record.next - 1))
      OBVIOUS
    <3>1. record.next - 1 \in 0 .. at.part - 1
      BY <1>2, <2>2
    <3>2. Join(parts', record.next - 1) = Join(parts, record.next - 1)
      BY <1>8, <1>9, <3>1
    <3>3. CASE Firm
      BY <1>1, <3>2, <3>3 DEF Handle
    <3>4. CASE at.part = 1
      <4>1. record.next = 1 /\ record.next - 1 = 0
        BY <1>2, <2>2, <3>4
      <4>2. Len(Join(parts', 0)) = 0
        BY JoinStep
      <4> QED
        BY <1>1, <4>1, <4>2 DEF Handle
    <3> QED
      BY <1>8, <3>3, <3>4
  <2>4. (~doomed /\ ~hasMain => 1 .. record.next - 1 \subseteq DOMAIN parts)'
    BY <1>1, <1>4 DEF Handle
  <2>5. (record.offset <= Size)' /\ (~doomed => acked <= Size)'
    BY <1>1, <1>2, <1>7 DEF Fits
  <2> QED
    BY <2>1, <2>3, <2>4, <2>5 DEF Handle
<1> QED
  BY <1>4, <1>5, <1>6, <1>7, <1>8, <1>9, <1>10, <1>14, <1>15

\* The part is discarded again.
LEMMA DiscardStep ==
  ASSUME TypeInv, Kept, pc = "write", parts' = Without(parts, at.part),
         UNCHANGED <<record, hasMain, main, marker, acked, doomed, lost>>
  PROVE  Stored' /\ Handle'
<1>1. Aligned /\ Fits /\ st = record /\ Stored /\ Handle
  BY DEF Kept, Running, Staging, Deleting
<1>2. /\ st.offset \in Nat /\ body.size \in Nat /\ at.part \in 1 .. MaxParts
      /\ at.part \in Nat /\ at.part >= 1 /\ MaxParts \in Nat /\ DOMAIN parts \subseteq Nat
      /\ record.next \in Nat /\ acked \in Nat /\ st.next \in Nat
  BY RequestKept
<1>3. IsParts(parts) /\ ~hasMain /\ << >> \in Seq(Nat)
  BY <1>1, SizeFacts DEF Fits
<1>4. /\ DOMAIN parts' = DOMAIN parts \ {at.part}
      /\ \A m \in DOMAIN parts : m # at.part => parts'[m] = parts[m]
  BY DEF Without
<1>5. StagedSize' = st.offset
  BY <1>1 DEF Aligned, StagedSize, Joined
<1>6. L' = L /\ L \in Nat /\ st.offset < L
  BY <1>1, SizeKept DEF L, Fits
<1>7. Size' = st.offset
  BY <1>3, <1>5 DEF Size
<1>8. Firm' => Firm
  BY <1>3, <1>4 DEF Firm
<1>9. Firm => Joined' = File(st.offset)
  <2> SUFFICES ASSUME Firm PROVE Join(parts', MaxParts) = File(st.offset)
    BY DEF Joined
  <2>1. /\ Join(parts, at.part - 1) = File(st.offset)
        /\ \A m \in DOMAIN parts : m > at.part => parts[m] = << >>
    BY <1>1 DEF Aligned
  <2>2. Join(Without(parts, at.part), MaxParts) = Join(parts, at.part - 1)
    BY <1>2, <1>3, <2>1, JoinPut
  <2> QED
    BY <2>1, <2>2
<1>10. record.next - 1 \in 0 .. MaxParts /\ \A m \in 1 .. record.next - 1 : m # at.part
  BY <1>1, <1>2 DEF Aligned, Handle
<1>11. Join(parts', record.next - 1) = Join(parts, record.next - 1)
  BY <1>4, <1>10, JoinSame
<1>12. Stored'
  <2>1. (StagedSize <= L /\ StagedSize # L)'
    BY <1>2, <1>5, <1>6
  <2>2. (/\ hasMain => Len(main) = L
         /\ ~hasMain => main = << >>
         /\ ~doomed => main = File(Len(main)))'
    BY <1>1, <1>3, <1>6 DEF Stored
  <2>3. (Firm => Joined = File(StagedSize))'
    BY <1>5, <1>8, <1>9
  <2>4. (~doomed /\ ~hasMain => \A n \in DOMAIN parts : 1 .. n \subseteq DOMAIN parts)'
    <3>1. ASSUME ~doomed, NEW n \in DOMAIN parts' PROVE 1 .. n \subseteq DOMAIN parts'
      <4>1. n \in 1 .. at.part - 1
        BY <1>1, <1>2, <1>4, <3>1 DEF Aligned
      <4>2. 1 .. n \subseteq 1 .. at.part - 1 /\ at.part \notin 1 .. at.part - 1
        BY <1>2, <4>1
      <4> QED
        BY <1>1, <1>4, <3>1, <4>2 DEF Aligned
    <3> QED
      BY <3>1
  <2> QED
    BY <2>1, <2>2, <2>3, <2>4 DEF Stored
<1>13. Handle'
  <2>1. (/\ record.length \in Nat /\ record.next \in 1 .. MaxParts + 1
         /\ record.next = 1 => record.staged = 0)'
    BY <1>1 DEF Handle
  <2>2. (Firm => record.staged = Len(Join(parts, record.next - 1)))'
    BY <1>1, <1>8, <1>11 DEF Handle
  <2>3. (~doomed /\ ~hasMain => 1 .. record.next - 1 \subseteq DOMAIN parts)'
    BY <1>1, <1>4, <1>10 DEF Handle
  <2>4. (record.offset <= Size)' /\ (~doomed => acked <= Size)'
    BY <1>1, <1>2, <1>7 DEF Fits
  <2> QED
    BY <2>1, <2>2, <2>3, <2>4 DEF Handle
<1> QED
  BY <1>12, <1>13

\* The first of the parts is deleted.
LEMMA FirstGone ==
  ASSUME TypeInv, Stored, Handle, DOMAIN parts # {},
         parts' = Without(parts, Min(DOMAIN parts)),
         UNCHANGED <<record, hasMain, main, marker, acked, doomed, lost>>,
         hasMain \/ (doomed /\ marker = NoMarker)
  PROVE  Stored' /\ Handle' /\ L' = L /\ ~Firm' /\ (hasMain => Size' = L)
<1>0. MaxParts \in Nat /\ MaxParts \in 0 .. MaxParts /\ 1 \in 1 .. MaxParts
  BY ConstantsAssumption
<1>1. IsParts(parts) /\ DOMAIN parts \subseteq 1 .. MaxParts /\ << >> \in Seq(Nat)
  BY SizeFacts DEF IsParts
<1> DEFINE n == Min(DOMAIN parts)
<1>2. n \in DOMAIN parts /\ \A m \in DOMAIN parts : n <= m
  BY <1>1, SmallestNumber
<1>3. n \in 1 .. MaxParts
  BY <1>1, <1>2
<1> HIDE DEF n
<1>4. parts' = Without(parts, n) /\ IsParts(parts') /\ DOMAIN parts' = DOMAIN parts \ {n}
  BY <1>1, <1>3, WithIs DEF n
<1>5. 1 \notin DOMAIN parts'
  BY <1>2, <1>3, <1>4
<1>6. ~Firm'
  BY <1>5 DEF Firm
<1>7. StagedSize' <= StagedSize /\ StagedSize' \in Nat
  <2>1. Len(Join(parts, MaxParts)) = Len(Join(Without(parts, n), MaxParts)) + Len(parts[n])
    BY <1>1, <1>2, <1>3, JoinLength
  <2>2. Len(Join(parts', MaxParts)) \in Nat /\ Len(Join(parts, MaxParts)) \in Nat
    BY <1>0, <1>1, <1>4, JoinType
  <2>3. Len(parts[n]) \in Nat
    BY <1>1, <1>2 DEF IsParts
  <2> QED
    BY <1>4, <2>1, <2>2, <2>3 DEF StagedSize, Joined
<1>8. L' = L /\ L \in Nat /\ StagedSize \in Nat /\ StagedSize <= L
      /\ (hasMain => Len(main) = L /\ Size = L)
  <2>1. L' = L
    BY DEF L
  <2>2. hasMain => Len(main) = L
    BY DEF Stored
  <2> QED
    BY <2>1, <2>2, SizeKept
<1>9. hasMain => Size' = L
  BY <1>7, <1>8 DEF Size, Larger
<1>10. Stored'
  <2>1. StagedSize' <= L'
    BY <1>7, <1>8
  <2> QED
    BY <1>6, <1>8, <2>1 DEF Stored
<1>11. Handle'
  BY <1>6, <1>8, <1>9 DEF Handle
<1> QED
  BY <1>6, <1>8, <1>9, <1>10, <1>11

-----------------------------------------------------------------------------
(* Actions.                                                                *)

\* The request has only moved on.
LEMMA FitsSame ==
  ASSUME Fits, UNCHANGED <<hasMain, acked, doomed, st, body>>, L' = L
  PROVE  Fits'
BY DEF Fits, Completes

LEMMA AccessStep ==
  ASSUME TypeInv, Stored, Handle, Access, ~doomed => acked' <= Size
  PROVE  /\ Stored' /\ Handle' /\ L' = L /\ Size' = Size /\ StagedSize' = StagedSize
         /\ record' \in State /\ record'.offset = Size /\ record'.length = L
         /\ UNCHANGED <<hasMain, main, parts, marker, doomed, lost>>
<1>1. record' = Reconciled(record) /\ UNCHANGED <<hasMain, main, parts, marker, doomed, lost>>
  BY DEF Access, objects
<1>2. /\ record' \in State /\ record'.next = record.next /\ record'.offset = Size
      /\ record'.length = record.length /\ record'.staged = record.staged
  BY <1>1, ReconciledType
<1>3. L' = L /\ StagedSize' = StagedSize /\ Joined' = Joined
  BY <1>1, <1>2 DEF L, StagedSize, Joined
<1>4. Size' = Size /\ Firm' = Firm /\ Repairable' = Repairable
  BY <1>1, <1>3 DEF Size, Larger, Firm, Repairable
<1>5. Stored'
  BY <1>1, <1>3, <1>4 DEF Stored
<1>6. Size \in Nat
  BY SizeFacts
<1>7. Handle'
  BY <1>1, <1>2, <1>3, <1>4, <1>6 DEF Handle
<1> QED
  BY <1>1, <1>2, <1>3, <1>4, <1>5, <1>7 DEF L

LEMMA HeadRequestKeeps == TypeInv /\ Kept /\ HeadRequest => Kept'
<1> SUFFICES ASSUME TypeInv, Kept, HeadRequest PROVE Kept'
  OBVIOUS
<1>1. Access /\ acked' = Larger(acked, record'.offset) /\ UNCHANGED <<pc, st, body, at, buf, tries>>
  BY DEF HeadRequest, local
<1>2. Stored /\ Handle /\ Running /\ pc = "idle"
  BY <1>1 DEF Kept, Access
<1>3. record'.offset = Size
  BY <1>1, ReconciledType DEF Access
<1>4. ~doomed => acked' <= Size
  BY <1>1, <1>2, <1>3, SizeFacts, RequestKept DEF Larger, Handle
<1>5. Stored' /\ Handle'
  BY <1>1, <1>2, <1>4, AccessStep
<1>6. Running'
  BY <1>1, <1>2 DEF Running, Staging, Deleting
<1> QED
  BY <1>5, <1>6 DEF Kept

LEMMA PatchKeeps == TypeInv /\ Kept /\ Patch => Kept'
<1> SUFFICES ASSUME TypeInv, Kept, Patch PROVE Kept'
  OBVIOUS
<1>1. Access /\ pc' = "place" /\ UNCHANGED <<at, buf, tries, acked>>
  BY DEF Patch, Goto
<1>2. Stored /\ Handle /\ Running /\ pc = "idle"
  BY <1>1 DEF Kept, Access
<1>3. ~doomed => acked' <= Size
  BY <1>1, <1>2 DEF Handle
<1>4. /\ Stored' /\ Handle' /\ L' = L /\ Size' = Size /\ StagedSize' = StagedSize
      /\ record' \in State /\ record'.offset = Size /\ record'.length = L
      /\ UNCHANGED <<hasMain, main, parts, marker, doomed, lost>>
  BY <1>1, <1>2, <1>3, AccessStep
<1>5. L \in Nat /\ Size \in Nat /\ (hasMain => Size = L) /\ (~hasMain => Size = StagedSize)
  BY <1>2, SizeKept
<1>6. PICK length \in Lengths \cup {Deferred}, size \in BodySizes, damaged \in BOOLEAN :
        LET s == [record' EXCEPT !.length = IF @ = Deferred THEN length ELSE @]
        IN /\ ~Complete(record')
           /\ s.length # Deferred => s.offset + size <= s.length
           /\ st' = s
           /\ body' = [size |-> size, damaged |-> damaged]
  BY DEF Patch
<1>7. [record' EXCEPT !.length = IF @ = Deferred THEN length ELSE @] = record'
  BY <1>4, <1>5 DEF State, Deferred
<1>8. /\ st' = record' /\ body'.size = size
      /\ L # Deferred /\ ~Complete(record')
      /\ Size + size <= L
  BY <1>4, <1>5, <1>6, <1>7 DEF Deferred
<1>9. Size < L
  BY <1>4, <1>5, <1>8 DEF Complete
<1>10. Fits'
  BY <1>1, <1>3, <1>4, <1>5, <1>8, <1>9 DEF Fits, Completes
<1>11. StagedSize' = st'.offset
  BY <1>4, <1>5, <1>8, <1>9
<1>12. buf' = << >>
  BY <1>1, <1>2 DEF Running
<1>13. Running'
  BY <1>1, <1>8, <1>10, <1>11, <1>12 DEF Running, Staging, Deleting
<1> QED
  BY <1>4, <1>13 DEF Kept

LEMMA PlaceKeeps == TypeInv /\ Kept /\ Place => Kept'
<1> SUFFICES ASSUME TypeInv, Kept, Place PROVE Kept'
  OBVIOUS
<1>1. /\ pc = "place"
      /\ UNCHANGED <<hasRecord, record, acked, doomed, lost, hasMain, main, parts, marker>>
      /\ UNCHANGED <<st, body, buf>>
      /\ \/ pc' = "refuse" /\ Position(st).offset # st.offset
         \/ /\ pc' = (IF Completes THEN "mark" ELSE "write")
            /\ Position(st).offset = st.offset
            /\ at' = [part |-> Position(st).part, staged |-> Position(st).staged]
            /\ Position(st).part <= MaxParts
  BY DEF Place, Goto, local, KeepRecord, KeepHist, objects
<1>2. /\ Stored /\ Handle /\ Running /\ Fits /\ st = record /\ buf = << >>
      /\ StagedSize = st.offset /\ ~hasMain
  BY <1>1 DEF Kept, Running, Deleting, Fits
<1>3. Stored' /\ Handle' /\ L' = L /\ StagedSize' = StagedSize /\ Firm' = Firm
  BY <1>1, <1>2, SameStep
<1>4. IsParts(parts) /\ Size = StagedSize /\ StagedSize \in Nat /\ DOMAIN parts \subseteq 1 .. MaxParts
  BY <1>2, SizeFacts DEF IsParts
<1>5. /\ st.next \in Nat /\ st.next >= 1 /\ st.staged \in Nat /\ st.offset \in Nat /\ body.size \in Nat
      /\ MaxParts \in Nat /\ DOMAIN parts \subseteq Nat
  BY RequestKept
<1>6. /\ st.next \in 1 .. MaxParts + 1
      /\ st.next = 1 => st.staged = 0
      /\ Firm => st.staged = Len(Join(parts, st.next - 1))
      /\ ~doomed => 1 .. st.next - 1 \subseteq DOMAIN parts
      /\ ~doomed => \A n \in DOMAIN parts : 1 .. n \subseteq DOMAIN parts
      /\ ~doomed => Firm
      /\ Firm => Joined = File(StagedSize)
  BY <1>2 DEF Handle, Stored, Firm
<1>7. st.next - 1 \in 0 .. MaxParts /\ MaxParts \in st.next - 1 .. MaxParts
  BY <1>5, <1>6
<1>8. ~doomed /\ st.next \notin DOMAIN parts => DOMAIN parts \subseteq 1 .. st.next - 1
  <2> SUFFICES ASSUME ~doomed, st.next \notin DOMAIN parts, NEW n \in DOMAIN parts
               PROVE  n \in 1 .. st.next - 1
    OBVIOUS
  <2>1. n \in Nat /\ n >= 1 /\ 1 .. n \subseteq DOMAIN parts
    BY <1>4, <1>5, <1>6
  <2>2. ~(st.next <= n)
    BY <1>5, <2>1
  <2> QED
    BY <1>5, <2>1, <2>2
<1>9. st.next \in DOMAIN parts =>
        /\ Position(st).part = 1 + Max(DOMAIN parts) /\ Max(DOMAIN parts) >= st.next
        /\ Max(DOMAIN parts) \in DOMAIN parts /\ \A m \in DOMAIN parts : m <= Max(DOMAIN parts)
        /\ Position(st).staged = StagedSize /\ Position(st).offset = StagedSize
  <2> SUFFICES ASSUME st.next \in DOMAIN parts
               PROVE  /\ Position(st).part = 1 + Max(DOMAIN parts) /\ Max(DOMAIN parts) >= st.next
                      /\ Max(DOMAIN parts) \in DOMAIN parts
                      /\ \A m \in DOMAIN parts : m <= Max(DOMAIN parts)
                      /\ Position(st).staged = StagedSize /\ Position(st).offset = StagedSize
    OBVIOUS
  <2>1. Max(DOMAIN parts) \in DOMAIN parts /\ \A m \in DOMAIN parts : m <= Max(DOMAIN parts)
    BY <1>4, LargestNumber
  <2>2. Max(DOMAIN parts) \in Nat /\ Max(DOMAIN parts) >= st.next
    BY <1>5, <2>1
  <2> QED
    BY <1>4, <1>5, <2>1, <2>2 DEF Position, Larger
<1>10. st.next \notin DOMAIN parts =>
         Position(st) = [part |-> st.next, staged |-> st.staged, offset |-> st.staged]
  BY DEF Position
<1>11. CASE pc' = "refuse" /\ Position(st).offset # st.offset
  <2>1. ASSUME ~doomed PROVE FALSE
    <3>1. st.next \notin DOMAIN parts
      BY <1>2, <1>9, <1>11
    <3>2. \A m \in DOMAIN parts : m > st.next - 1 => parts[m] = << >>
      BY <1>5, <1>8, <2>1, <3>1
    <3>3. Join(parts, MaxParts) = Join(parts, st.next - 1)
      BY <1>4, <1>7, <3>2, JoinTail
    <3>4. st.staged = StagedSize
      BY <1>6, <2>1, <3>3 DEF StagedSize, Joined
    <3> QED
      BY <1>2, <1>10, <1>11, <3>1, <3>4
  <2>2. Running'
    BY <1>1, <1>2, <1>11, <2>1 DEF Running, Staging, Deleting
  <2> QED
    BY <1>3, <2>2 DEF Kept
<1>12. CASE /\ pc' = (IF Completes THEN "mark" ELSE "write")
            /\ Position(st).offset = st.offset
            /\ at' = [part |-> Position(st).part, staged |-> Position(st).staged]
            /\ Position(st).part <= MaxParts
  <2> PICK n : n = Position(st).part
    OBVIOUS
  <2>1. at'.part = n /\ at'.staged = Position(st).staged
    BY <1>12
  <2>2. n \in 1 .. MaxParts /\ n >= st.next /\ n \notin DOMAIN parts /\ n \in Nat
    <3>1. CASE st.next \notin DOMAIN parts
      BY <1>5, <1>10, <1>12, <3>1
    <3>2. CASE st.next \in DOMAIN parts
      BY <1>5, <1>9, <1>12, <3>2
    <3> QED
      BY <3>1, <3>2
  <2>3. Len(Join(Without(parts, n), MaxParts)) = st.offset
    <3>1. DOMAIN Without(parts, n) = DOMAIN parts /\ \A m \in DOMAIN parts : Without(parts, n)[m] = parts[m]
      BY <2>2 DEF Without
    <3>2. MaxParts \in 0 .. MaxParts
      BY <1>5
    <3>3. Join(Without(parts, n), MaxParts) = Join(parts, MaxParts)
      BY <3>1, <3>2, JoinSame
    <3> QED
      BY <1>2, <3>3 DEF StagedSize, Joined
  <2>4. ASSUME Firm \/ n = 1
        PROVE  /\ Join(parts, n - 1) = File(st.offset) /\ at'.staged = st.offset
               /\ \A m \in DOMAIN parts : m > n => parts[m] = << >>
    <3>1. CASE st.next \notin DOMAIN parts
      <4>1. n = st.next /\ at'.staged = st.staged /\ st.staged = st.offset
        BY <1>10, <1>12, <2>1, <3>1
      <4>2. st.staged = Len(Join(parts, n - 1))
        <5>1. CASE Firm
          BY <1>6, <4>1, <5>1
        <5>2. CASE n = 1
          BY <1>6, <4>1, <5>2, JoinStep
        <5> QED
          BY <2>4, <5>1, <5>2
      <4>3. Len(Join(parts, n - 1)) = Len(Join(parts, MaxParts))
        BY <1>2, <4>1, <4>2 DEF StagedSize, Joined
      <4>4. \A m \in (n - 1) + 1 .. MaxParts : m \in DOMAIN parts => parts[m] = << >>
        BY <1>4, <1>7, <4>1, <4>3, JoinGrows
      <4>5. \A m \in DOMAIN parts : m > n - 1 => parts[m] = << >>
        BY <1>4, <2>2, <4>4
      <4>6. Join(parts, MaxParts) = Join(parts, n - 1)
        BY <1>4, <1>7, <4>1, <4>5, JoinTail
      <4>7. Join(parts, n - 1) = File(st.offset)
        <5>1. CASE Firm
          BY <1>2, <1>6, <4>6, <5>1 DEF Joined
        <5>2. CASE n = 1
          BY <1>6, <4>1, <5>2, JoinStep, FileFacts
        <5> QED
          BY <2>4, <5>1, <5>2
      <4> QED
        BY <1>4, <2>2, <4>1, <4>5, <4>7
    <3>2. CASE st.next \in DOMAIN parts
      <4>1. /\ n = 1 + Max(DOMAIN parts) /\ Max(DOMAIN parts) \in Nat /\ n # 1
            /\ \A m \in DOMAIN parts : m <= Max(DOMAIN parts)
            /\ at'.staged = st.offset
        BY <1>2, <1>5, <1>9, <2>1, <3>2
      <4>2. n - 1 \in 0 .. MaxParts /\ MaxParts \in n - 1 .. MaxParts
        BY <1>5, <2>2
      <4>3. \A m \in DOMAIN parts : m <= n - 1
        BY <4>1
      <4>4. \A m \in DOMAIN parts : ~(m > n - 1) /\ ~(m > n)
        BY <1>5, <2>2, <4>3
      <4>5. Join(parts, MaxParts) = Join(parts, n - 1)
        BY <1>4, <4>2, <4>4, JoinTail
      <4> QED
        BY <1>2, <1>6, <2>4, <4>1, <4>4, <4>5 DEF Joined
    <3> QED
      BY <3>1, <3>2
  <2>5. ~doomed => 1 .. n - 1 \subseteq DOMAIN parts /\ DOMAIN parts \subseteq 1 .. n
    <3> SUFFICES ASSUME ~doomed
                 PROVE  1 .. n - 1 \subseteq DOMAIN parts /\ DOMAIN parts \subseteq 1 .. n
      OBVIOUS
    <3>1. CASE st.next \notin DOMAIN parts
      <4>1. n = st.next /\ 1 .. n - 1 \subseteq 1 .. n
        BY <1>5, <1>10, <3>1
      <4> QED
        BY <1>6, <1>8, <3>1, <4>1
    <3>2. CASE st.next \in DOMAIN parts
      <4>1. /\ n = 1 + Max(DOMAIN parts) /\ Max(DOMAIN parts) \in DOMAIN parts
            /\ Max(DOMAIN parts) \in Nat /\ \A m \in DOMAIN parts : m <= Max(DOMAIN parts)
        BY <1>5, <1>9, <3>2
      <4>2. n - 1 = Max(DOMAIN parts) /\ \A m \in DOMAIN parts : m >= 1 /\ m <= n
        BY <1>4, <1>5, <4>1
      <4>3. 1 .. n - 1 \subseteq DOMAIN parts
        BY <1>6, <4>1, <4>2
      <4> QED
        BY <1>5, <2>2, <4>2, <4>3
    <3> QED
      BY <3>1, <3>2
  <2>6. Aligned'
    <3>1. Completes' <=> Completes
      BY <1>1 DEF Completes
    <3>2. Len(buf') = 0 /\ (pc' = "write" <=> ~Completes) /\ pc' \in {"mark", "write"}
      BY <1>1, <1>2, <1>12
    <3>3. \A k \in 1 .. 0 : FALSE
      OBVIOUS
    <3> QED
      BY <1>1, <1>3, <1>5, <2>1, <2>2, <2>3, <2>4, <2>5, <3>1, <3>2, <3>3 DEF Aligned
  <2>7. Fits'
    BY <1>1, <1>2, <1>3, FitsSame
  <2>8. Running'
    BY <1>1, <1>2, <1>12, <2>6, <2>7 DEF Running, Staging, Deleting
  <2> QED
    BY <1>3, <2>8 DEF Kept
<1> QED
  BY <1>1, <1>11, <1>12

LEMMA OverKeeps == TypeInv /\ Kept /\ (Refuse \/ Serve \/ Interrupt) => Kept'
<1> SUFFICES ASSUME TypeInv, Kept, Refuse \/ Serve \/ Interrupt PROVE Kept'
  OBVIOUS
<1>1. Done /\ UNCHANGED <<record, hasMain, main, parts, marker, acked, doomed, lost>>
  BY DEF Refuse, Serve, Interrupt, KeepRecord, KeepHist, objects
<1>2. Stored' /\ Handle'
  BY <1>1, SameStep DEF Kept
<1> QED
  BY <1>1, <1>2, IdleStep DEF Kept

LEMMA WriteChunkKeeps == TypeInv /\ Kept /\ WriteChunk => Kept'
<1> SUFFICES ASSUME TypeInv, Kept, WriteChunk PROVE Kept'
  OBVIOUS
<1>1. /\ pc = "write" /\ pc' = "write" /\ Len(buf) < body.size
      /\ buf' = Append(buf, Byte(Len(buf) + 1))
      /\ UNCHANGED <<record, hasMain, main, marker, acked, doomed, lost, st, body, at>>
      /\ TornWrites => parts' = With(parts, at.part, buf')
      /\ ~TornWrites => parts' = parts
  BY DEF WriteChunk, Put, KeepRecord, KeepMain, KeepHist
<1>2. Stored /\ Handle /\ Aligned /\ Fits /\ st = record
  BY <1>1 DEF Kept, Running, Staging, Deleting
<1>3. /\ st.offset \in Nat /\ body.size \in Nat /\ buf \in Seq(Nat) /\ Len(buf) \in Nat
      /\ at.part \in Nat /\ at.part >= 1 /\ DOMAIN parts \subseteq Nat
  BY RequestKept
<1>4. ~Completes
  BY <1>1, <1>2 DEF Aligned
<1>5. Byte(Len(buf) + 1) = st.offset + (Len(buf) + 1) /\ Byte(Len(buf) + 1) \in Nat
  BY <1>3, <1>4 DEF Byte
<1>6. /\ buf' \in Seq(Nat) /\ Len(buf') = Len(buf) + 1 /\ Len(buf') <= body.size
      /\ \A k \in 1 .. Len(buf') : buf'[k] = st.offset + k
  <2>1. buf' \in Seq(Nat) /\ Len(buf') = Len(buf) + 1 /\ Len(buf') <= body.size
    BY <1>1, <1>3, <1>5
  <2>2. ASSUME NEW k \in 1 .. Len(buf) + 1 PROVE buf'[k] = st.offset + k
    <3>1. CASE k = Len(buf) + 1
      <4>1. buf'[k] = Byte(Len(buf) + 1)
        BY <1>1, <1>3, <3>1
      <4> QED
        BY <1>5, <3>1, <4>1
    <3>2. CASE k # Len(buf) + 1
      <4>1. k \in 1 .. Len(buf)
        BY <1>3, <3>2
      <4>2. buf'[k] = buf[k]
        BY <1>1, <1>3, <4>1
      <4> QED
        BY <1>2, <4>1, <4>2 DEF Aligned
    <3> QED
      BY <3>1, <3>2
  <2> QED
    BY <2>1, <2>2
<1>7. Completes' <=> Completes
  BY <1>1 DEF Completes
<1>8. CASE TornWrites
  <2>1. parts' = With(parts, at.part, buf')
    BY <1>1, <1>8
  <2>2. /\ Stored' /\ Handle' /\ L' = L
        /\ DOMAIN parts' = DOMAIN parts \cup {at.part} /\ parts'[at.part] = buf'
        /\ \A m \in DOMAIN parts : m # at.part => parts'[m] = parts[m]
        /\ Without(parts', at.part) = Without(parts, at.part)
        /\ Firm' => Firm \/ at.part = 1
        /\ Firm \/ at.part = 1 => Join(parts', at.part - 1) = Join(parts, at.part - 1)
    BY <1>1, <1>6, <2>1, PutStep
  <2>3. at.part >= st.next /\ Len(Join(Without(parts', at.part), MaxParts)) = st.offset
    BY <1>2, <2>2 DEF Aligned
  <2>4. ASSUME Firm' \/ at.part = 1
        PROVE  /\ Join(parts', at.part - 1) = File(st.offset)
               /\ at.staged = st.offset
               /\ \A m \in DOMAIN parts' : m > at.part => parts'[m] = << >>
    <3>1. /\ Join(parts, at.part - 1) = File(st.offset)
          /\ at.staged = st.offset
          /\ \A m \in DOMAIN parts : m > at.part => parts[m] = << >>
      BY <1>2, <2>2, <2>4 DEF Aligned
    <3> QED
      BY <1>3, <2>2, <2>4, <3>1
  <2>5. ~doomed => 1 .. at.part - 1 \subseteq DOMAIN parts' /\ DOMAIN parts' \subseteq 1 .. at.part
    <3>1. ~doomed => 1 .. at.part - 1 \subseteq DOMAIN parts /\ DOMAIN parts \subseteq 1 .. at.part
      BY <1>2 DEF Aligned
    <3>2. at.part \in 1 .. at.part
      BY <1>3
    <3> QED
      BY <2>2, <3>1, <3>2
  <2>6. Aligned'
    BY <1>1, <1>4, <1>6, <1>7, <1>8, <2>2, <2>3, <2>4, <2>5 DEF Aligned
  <2>7. Fits'
    BY <1>1, <1>2, <2>2, FitsSame
  <2>8. Running'
    BY <1>1, <1>2, <2>6, <2>7 DEF Running, Staging, Deleting
  <2> QED
    BY <2>2, <2>8 DEF Kept
<1>9. CASE ~TornWrites
  <2>1. parts' = parts /\ at.part \notin DOMAIN parts
    BY <1>1, <1>2, <1>9 DEF Aligned
  <2>2. Stored' /\ Handle' /\ L' = L /\ Firm' = Firm
    BY <1>1, <1>2, <2>1, SameStep
  <2>3. Aligned'
    BY <1>1, <1>2, <1>4, <1>6, <1>7, <2>1, <2>2 DEF Aligned
  <2>4. Fits'
    BY <1>1, <1>2, <2>2, FitsSame
  <2>5. Running'
    BY <1>1, <1>2, <2>3, <2>4 DEF Running, Staging, Deleting
  <2> QED
    BY <2>2, <2>5 DEF Kept
<1> QED
  BY <1>8, <1>9

LEMMA WriteErrorKeeps == TypeInv /\ Kept /\ WriteError => Kept'
<1> SUFFICES ASSUME TypeInv, Kept, WriteError PROVE Kept'
  OBVIOUS
<1>1. /\ pc = "write" /\ Done
      /\ UNCHANGED <<record, hasMain, main, marker, acked, doomed, lost>>
      /\ parts' = Without(parts, at.part) \/ parts' = parts
  BY DEF WriteError, Discard, KeepRecord, KeepMain, KeepHist
<1>2. Stored' /\ Handle'
  BY <1>1, DiscardStep, SameStep DEF Kept
<1> QED
  BY <1>1, <1>2, IdleStep DEF Kept

\* The part is there.
LEMMA PutPlaced ==
  ASSUME TypeInv, Kept, pc \in {"write", "promote"}, Len(buf) = body.size,
         parts' = With(parts, at.part, buf),
         UNCHANGED <<record, hasMain, main, marker, acked, doomed, st, body, at>>, lost => lost'
  PROVE  /\ Stored' /\ Handle' /\ Placed' /\ ~hasMain /\ st = record /\ L' = L
         /\ StagedSize' = st.offset + body.size /\ Size' = st.offset + body.size
<1>1. Stored /\ Handle /\ Aligned /\ Fits /\ st = record
  BY DEF Kept, Running, Staging, Deleting
<1>2. /\ st.offset \in Nat /\ body.size \in Nat /\ buf \in Seq(Nat) /\ at.part \in Nat
  BY RequestKept
<1>3. Len(buf) <= body.size /\ \A k \in 1 .. Len(buf) : buf[k] = st.offset + k
  BY <1>1, <1>2 DEF Aligned
<1>4. /\ Stored' /\ Handle' /\ L' = L
      /\ StagedSize' = st.offset + Len(buf) /\ Size' = st.offset + Len(buf)
      /\ DOMAIN parts' = DOMAIN parts \cup {at.part}
      /\ Firm' => Firm \/ at.part = 1
      /\ Firm \/ at.part = 1 => Join(parts', at.part) = File(st.offset + Len(buf))
  BY <1>2, <1>3, PutStep
<1>5. Firm' => Len(Join(parts', at.part)) = at.staged + body.size
  <2> SUFFICES ASSUME Firm' PROVE Len(Join(parts', at.part)) = at.staged + body.size
    OBVIOUS
  <2>1. st.offset + Len(buf) \in Nat
    BY <1>2
  <2>2. Len(Join(parts', at.part)) = st.offset + Len(buf)
    BY <1>4, <2>1, FileFacts
  <2>3. at.staged = st.offset
    BY <1>1, <1>4 DEF Aligned
  <2> QED
    BY <2>2, <2>3
<1>6. ~doomed => 1 .. at.part \subseteq DOMAIN parts'
  <2>1. \A m \in 1 .. at.part : m = at.part \/ m \in 1 .. at.part - 1
    BY <1>2
  <2> QED
    BY <1>1, <1>4, <2>1 DEF Aligned
<1>7. ~hasMain /\ st.offset + body.size <= L
  BY <1>1 DEF Fits
<1>8. Placed'
  BY <1>4, <1>5, <1>6, <1>7 DEF Placed
<1> QED
  BY <1>1, <1>4, <1>7, <1>8

LEMMA WriteCloseKeeps == TypeInv /\ Kept /\ WriteClose => Kept'
<1> SUFFICES ASSUME TypeInv, Kept, WriteClose PROVE Kept'
  OBVIOUS
<1>1. /\ pc = "write" /\ Len(buf) = body.size /\ pc' = "commit"
      /\ parts' = With(parts, at.part, buf)
      /\ UNCHANGED <<record, hasMain, main, marker, acked, doomed, lost, st, body, at>>
  BY DEF WriteClose, Put, Goto, KeepRecord, KeepMain, KeepHist, local
<1>2. /\ Stored' /\ Handle' /\ Placed' /\ st = record /\ Size' = st.offset + body.size
  BY <1>1, PutPlaced
<1>3. Running'
  BY <1>1, <1>2 DEF Running, Staging, Deleting
<1> QED
  BY <1>2, <1>3 DEF Kept

LEMMA MarkKeeps == TypeInv /\ Kept /\ Mark => Kept'
<1> SUFFICES ASSUME TypeInv, Kept, Mark PROVE Kept'
  OBVIOUS
<1>1. /\ pc = "mark" /\ UNCHANGED <<record, hasMain, main, parts, acked, doomed, lost>>
      /\ \/ marker' = at.part /\ pc' = "stage" /\ UNCHANGED <<st, body, at, buf>>
         \/ Done
  BY DEF Mark, Goto, local, KeepRecord, KeepMain, KeepHist
<1>2. /\ Aligned /\ Fits /\ st = record /\ Completes
      /\ at.part \notin DOMAIN parts /\ StagedSize = st.offset /\ StagedSize < L
      /\ Size = st.offset /\ buf = << >>
  BY <1>1, NotYet DEF Kept, Running
<1>3. Stored /\ Handle /\ st.offset \in Nat /\ L \in Nat
  BY SizeKept, RequestKept DEF Kept
<1>4. Stored' /\ Handle' /\ L' = L /\ StagedSize' = StagedSize /\ Firm' = Firm
  BY <1>1, <1>2, <1>3, MarkerStep
<1>5. CASE Done
  BY <1>4, <1>5, IdleStep DEF Kept
<1>6. CASE marker' = at.part /\ pc' = "stage" /\ UNCHANGED <<st, body, at, buf>>
  <2>1. Aligned'
    <3>1. Completes'
      BY <1>2, <1>6 DEF Completes
    <3> QED
      BY <1>1, <1>2, <1>4, <1>6, <3>1 DEF Aligned
  <2>2. Fits'
    BY <1>1, <1>2, <1>4, <1>6, FitsSame
  <2>3. Running'
    BY <1>1, <1>2, <1>6, <2>1, <2>2 DEF Running, Staging, Deleting
  <2> QED
    BY <1>4, <2>3 DEF Kept
<1> QED
  BY <1>1, <1>5, <1>6

LEMMA StageKeeps == TypeInv /\ Kept /\ Stage => Kept'
<1> SUFFICES ASSUME TypeInv, Kept, Stage PROVE Kept'
  OBVIOUS
<1>1. /\ pc = "stage"
      /\ UNCHANGED <<record, hasMain, main, parts, marker, acked, doomed, lost, st, body, at>>
      /\ \/ pc' = "promote" /\ ~body.damaged /\ buf' = [k \in 1 .. body.size |-> Byte(k)]
         \/ pc' = "unmark"
  BY DEF Stage, Goto, KeepRecord, KeepMain, KeepHist, KeepParts
<1>2. /\ Aligned /\ Fits /\ st = record /\ Completes /\ at.part \notin DOMAIN parts
      /\ StagedSize = st.offset /\ StagedSize < L /\ ~hasMain
  BY <1>1, NotYet DEF Fits
<1>3. Stored /\ Handle /\ st.offset \in Nat /\ L \in Nat /\ body.size \in Nat
  BY SizeKept, RequestKept DEF Kept
<1>4. Stored' /\ Handle' /\ L' = L /\ StagedSize' = StagedSize /\ Firm' = Firm
  BY <1>1, <1>3, SameStep
<1>5. CASE pc' = "unmark"
  <2>1. (StagedSize # L)'
    BY <1>2, <1>3, <1>4
  <2>2. Running'
    BY <1>1, <1>2, <1>5, <2>1 DEF Running, Staging, Deleting
  <2> QED
    BY <1>4, <2>2 DEF Kept
<1>6. CASE pc' = "promote" /\ ~body.damaged /\ buf' = [k \in 1 .. body.size |-> Byte(k)]
  <2>1. buf' \in [1 .. body.size -> Nat] /\ \A k \in 1 .. body.size : buf'[k] = st.offset + k
    BY <1>3, <1>6 DEF Byte
  <2>2. Len(buf') = body.size
    BY <1>3, <2>1, FunctionIsSeq
  <2>3. Completes'
    BY <1>1, <1>2 DEF Completes
  <2>4. marker' = at.part
    BY <1>1, <1>2 DEF Aligned
  <2>5. Aligned'
    BY <1>1, <1>2, <1>4, <1>6, <2>1, <2>2, <2>3, <2>4 DEF Aligned
  <2>6. Fits'
    BY <1>1, <1>2, <1>4, FitsSame
  <2>7. Running'
    BY <1>1, <1>2, <1>6, <2>5, <2>6 DEF Running, Staging, Deleting
  <2> QED
    BY <1>4, <2>7 DEF Kept
<1> QED
  BY <1>1, <1>5, <1>6

LEMMA PromoteKeeps == TypeInv /\ Kept /\ Promote => Kept'
<1> SUFFICES ASSUME TypeInv, Kept, Promote PROVE Kept'
  OBVIOUS
<1>1. /\ pc = "promote"
      /\ UNCHANGED <<record, hasMain, main, marker, acked, doomed, st, body, at>>
      /\ \/ parts' = With(parts, at.part, buf) /\ pc' = "finalize" /\ lost' = lost
         \/ parts' = parts /\ pc' = "unmark" /\ lost' = lost
         \/ parts' = With(parts, at.part, buf) /\ pc' = "unmark" /\ lost'
  BY DEF Promote, Put, Goto, local, KeepRecord, KeepMain
<1>2. /\ Aligned /\ st = record /\ Completes /\ StagedSize = st.offset /\ StagedSize < L
      /\ ~hasMain /\ Len(buf) = body.size
  BY <1>1, NotYet DEF Fits, Aligned
<1>3. Stored /\ Handle /\ st.offset \in Nat /\ L \in Nat
  BY SizeKept, RequestKept DEF Kept
<1>4. CASE parts' = parts /\ pc' = "unmark" /\ lost' = lost
  <2>1. Stored' /\ Handle' /\ L' = L /\ StagedSize' = StagedSize
    BY <1>1, <1>3, <1>4, SameStep
  <2>2. (StagedSize # L)'
    BY <1>2, <1>3, <2>1
  <2>3. Running'
    BY <1>1, <1>2, <1>4, <2>2 DEF Running, Staging, Deleting
  <2> QED
    BY <2>1, <2>3 DEF Kept
<1>5. CASE parts' = With(parts, at.part, buf) /\ (lost => lost')
  <2>1. /\ Stored' /\ Handle' /\ Placed' /\ L' = L /\ StagedSize' = st.offset + body.size
    BY <1>1, <1>2, <1>5, PutPlaced
  <2>2. Completes' /\ (StagedSize = L)'
    BY <1>1, <1>2, <2>1 DEF Completes, L
  <2>3. CASE pc' = "finalize"
    <3>1. Running'
      BY <1>1, <1>2, <2>1, <2>2, <2>3 DEF Running, Staging, Deleting
    <3> QED
      BY <2>1, <3>1 DEF Kept
  <2>4. CASE pc' = "unmark" /\ lost'
    <3>1. Running'
      BY <1>1, <1>2, <2>4 DEF Running, Staging, Deleting
    <3> QED
      BY <2>1, <3>1 DEF Kept
  <2>5. CASE parts' = parts /\ pc' = "unmark" /\ lost' = lost
    BY <1>4, <2>5
  <2> QED
    BY <1>1, <2>3, <2>4, <2>5
<1> QED
  BY <1>1, <1>4, <1>5

LEMMA UnmarkKeeps == TypeInv /\ Kept /\ Unmark => Kept'
<1> SUFFICES ASSUME TypeInv, Kept, Unmark PROVE Kept'
  OBVIOUS
<1>1. /\ pc = "unmark" /\ Done /\ marker' \in {marker, NoMarker}
      /\ UNCHANGED <<record, hasMain, main, parts, acked, doomed, lost>>
  BY DEF Unmark, KeepRecord, KeepMain, KeepHist
<1>2. Stored /\ Handle /\ (StagedSize # L \/ lost)
  BY <1>1 DEF Kept, Running
<1>3. Firm /\ StagedSize = L /\ marker' # NoMarker => Join(parts, marker') = File(L)
  BY <1>1, <1>2 DEF Stored
<1>4. marker' # NoMarker /\ ~hasMain => record.offset <= Size
  BY <1>1, <1>2 DEF Handle
<1>5. Stored' /\ Handle'
  BY <1>1, <1>2, <1>3, <1>4, MarkerStep
<1> QED
  BY <1>1, <1>5, IdleStep DEF Kept

\* The main object appears.
LEMMA MainStep ==
  ASSUME TypeInv, Stored, Handle, ~hasMain, hasMain', Len(main') = L,
         ~doomed => main' = File(L),
         UNCHANGED <<record, parts, marker, acked, doomed, lost>>
  PROVE  Stored' /\ Handle' /\ L' = L /\ Size' = L /\ (Firm' => Firm)
<1>1. L' = L /\ StagedSize' = StagedSize /\ Joined' = Joined
  BY DEF L, StagedSize, Joined
<1>2. L \in Nat /\ StagedSize \in Nat /\ StagedSize <= L /\ Size = StagedSize
  BY SizeKept
<1>3. Size' = L
  BY <1>1, <1>2 DEF Size, Larger
<1>4. Firm' => Firm
  BY DEF Firm
<1>5. Stored'
  BY <1>1, <1>4 DEF Stored
<1>6. Handle'
  <2>0. record.offset \in Nat /\ acked \in Nat
    BY SizeKept, RequestKept
  <2>1. ~doomed => record.offset <= L /\ acked <= L
    <3>1. ~doomed => record.offset <= Size /\ acked <= Size
      BY DEF Handle
    <3> QED
      BY <1>2, <2>0, <3>1
  <2>2. (/\ record.length \in Nat /\ record.next \in 1 .. MaxParts + 1
         /\ record.next = 1 => record.staged = 0
         /\ Firm => record.staged = Len(Join(parts, record.next - 1)))'
    BY <1>4 DEF Handle
  <2> QED
    BY <1>3, <2>1, <2>2 DEF Handle
<1> QED
  BY <1>1, <1>3, <1>4, <1>5, <1>6

LEMMA FinalizeKeeps == TypeInv /\ Kept /\ Finalize => Kept'
<1> SUFFICES ASSUME TypeInv, Kept, Finalize PROVE Kept'
  OBVIOUS
<1>1. /\ pc = "finalize" /\ UNCHANGED <<record, parts, marker, acked, doomed, lost>>
      /\ \/ hasMain' /\ main' = Joined /\ pc' = "cleanup" /\ UNCHANGED <<st, body, at>>
         \/ UNCHANGED <<hasMain, main, pc, st, body, at, buf>>
         \/ Done /\ UNCHANGED <<hasMain, main>>
  BY DEF Finalize, Goto, local, KeepRecord, KeepMain, KeepHist, KeepParts
<1>2. /\ Stored /\ Handle /\ Placed /\ Completes /\ ~hasMain /\ StagedSize = L /\ st = record
  BY <1>1 DEF Kept, Running, Deleting
<1>3. CASE hasMain' /\ main' = Joined /\ pc' = "cleanup" /\ UNCHANGED <<st, body, at>>
  <2>1. Len(main') = L
    BY <1>2, <1>3 DEF StagedSize
  <2>2. ~doomed => main' = File(L)
    BY <1>2, <1>3 DEF Stored, Firm
  <2>3. Stored' /\ Handle' /\ L' = L /\ (Firm' => Firm)
    BY <1>1, <1>2, <1>3, <2>1, <2>2, MainStep
  <2>4. Placed' /\ Completes'
    BY <1>1, <1>2, <1>3, <2>3 DEF Placed, Completes
  <2>5. Running'
    BY <1>1, <1>2, <1>3, <2>4 DEF Running, Staging, Deleting
  <2> QED
    BY <2>3, <2>5 DEF Kept
<1>4. CASE UNCHANGED <<hasMain, main, pc, st, body, at, buf>>
  <2>1. Stored' /\ Handle' /\ L' = L /\ StagedSize' = StagedSize /\ Firm' = Firm
    BY <1>1, <1>2, <1>4, SameStep
  <2>2. Placed' /\ Completes'
    BY <1>1, <1>2, <1>4, <2>1 DEF Placed, Completes
  <2>3. Running'
    BY <1>1, <1>2, <1>4, <2>1, <2>2 DEF Running, Staging, Deleting
  <2> QED
    BY <2>1, <2>3 DEF Kept
<1>5. CASE Done /\ UNCHANGED <<hasMain, main>>
  <2>1. Stored' /\ Handle'
    BY <1>1, <1>2, <1>5, SameStep
  <2> QED
    BY <1>5, <2>1, IdleStep DEF Kept
<1> QED
  BY <1>1, <1>3, <1>4, <1>5

LEMMA CleanupKeeps == TypeInv /\ Kept /\ Cleanup => Kept'
<1> SUFFICES ASSUME TypeInv, Kept, Cleanup PROVE Kept'
  OBVIOUS
<1>1. /\ pc = "cleanup" /\ UNCHANGED <<record, hasMain, main, acked, doomed, lost, st, body, at>>
      /\ \/ /\ DOMAIN parts # {} /\ parts' = Without(parts, Min(DOMAIN parts))
            /\ UNCHANGED <<pc, marker>>
         \/ marker' \in {marker, NoMarker} /\ pc' = "commit" /\ parts' = parts
  BY DEF Cleanup, Discard, Goto, local, KeepRecord, KeepMain, KeepHist
<1>2. /\ Stored /\ Handle /\ Placed /\ Completes /\ hasMain /\ st = record
  BY <1>1 DEF Kept, Running, Deleting
<1>3. CASE /\ DOMAIN parts # {} /\ parts' = Without(parts, Min(DOMAIN parts))
           /\ UNCHANGED <<pc, marker>>
  <2>1. Stored' /\ Handle' /\ L' = L /\ ~Firm'
    BY <1>1, <1>2, <1>3, FirstGone
  <2>2. Placed' /\ Completes'
    BY <1>1, <1>2, <2>1 DEF Placed, Completes
  <2>3. Running'
    BY <1>1, <1>2, <1>3, <2>2 DEF Running, Staging, Deleting
  <2> QED
    BY <2>1, <2>3 DEF Kept
<1>4. CASE marker' \in {marker, NoMarker} /\ pc' = "commit" /\ parts' = parts
  <2>1. Firm /\ StagedSize = L /\ marker' # NoMarker => Join(parts, marker') = File(L)
    BY <1>2, <1>4 DEF Stored
  <2>2. Stored' /\ Handle' /\ L' = L /\ Size' = Size /\ Firm' = Firm
    BY <1>1, <1>2, <1>4, <2>1, MarkerStep
  <2>3. Placed'
    BY <1>1, <1>2, <1>4, <2>2 DEF Placed
  <2>4. Size' = st'.offset + body'.size
    BY <1>1, <1>2, <2>2, SizeKept DEF Completes, L
  <2>5. Running'
    BY <1>1, <1>2, <1>4, <2>3, <2>4 DEF Running, Staging, Deleting
  <2> QED
    BY <2>2, <2>5 DEF Kept
<1> QED
  BY <1>1, <1>3, <1>4

LEMMA CommitKeeps == TypeInv /\ Kept /\ Commit => Kept'
<1> SUFFICES ASSUME TypeInv, Kept, Commit PROVE Kept'
  OBVIOUS
<1>1. /\ pc = "commit" /\ Done /\ UNCHANGED <<hasMain, main, parts, marker, doomed, lost>>
      /\ \/ /\ record' = [st EXCEPT !.offset = @ + body.size, !.next = at.part + 1,
                                     !.staged = at.staged + body.size]
            /\ acked' = Larger(acked, record'.offset)
         \/ UNCHANGED <<record, acked>>
  BY DEF Commit, objects
<1>2. Stored /\ Handle /\ Placed /\ Size = st.offset + body.size /\ st = record
  BY <1>1 DEF Kept, Running, Deleting
<1>3. CASE UNCHANGED <<record, acked>>
  <2>1. Stored' /\ Handle'
    BY <1>1, <1>2, <1>3, SameStep
  <2> QED
    BY <1>1, <2>1, IdleStep DEF Kept
<1>4. CASE /\ record' = [st EXCEPT !.offset = @ + body.size, !.next = at.part + 1,
                                    !.staged = at.staged + body.size]
           /\ acked' = Larger(acked, record'.offset)
  <2>1. /\ record'.offset = Size /\ record'.length = record.length
        /\ record'.next = at.part + 1 /\ record'.staged = at.staged + body.size
    <3>1. st \in State
      BY DEF TypeInv, TypeOK
    <3> QED
      BY <1>2, <1>4, <3>1 DEF State
  <2>2. L' = L /\ StagedSize' = StagedSize /\ Joined' = Joined
    BY <1>1, <2>1 DEF L, StagedSize, Joined
  <2>3. Size' = Size /\ Firm' = Firm /\ Repairable' = Repairable
    BY <1>1, <2>2 DEF Size, Larger, Firm, Repairable
  <2>4. Stored'
    BY <1>1, <1>2, <2>2, <2>3 DEF Stored
  <2>5. Handle'
    <3>1. at.part \in Nat /\ at.part \in 1 .. MaxParts /\ MaxParts \in Nat /\ Size \in Nat /\ acked \in Nat
      BY RequestKept, SizeFacts
    <3>2. record'.next - 1 = at.part /\ record'.next \in 1 .. MaxParts + 1 /\ record'.next # 1
      BY <2>1, <3>1
    <3>3. ~doomed => acked' <= Size
      BY <1>2, <1>4, <2>1, <3>1 DEF Larger, Handle
    <3>4. record'.offset <= Size
      BY <2>1, <3>1
    <3> QED
      BY <1>1, <1>2, <2>1, <2>3, <3>2, <3>3, <3>4 DEF Handle, Placed
  <2> QED
    BY <1>1, <2>4, <2>5, IdleStep DEF Kept
<1> QED
  BY <1>1, <1>3, <1>4

LEMMA GetKeeps == TypeInv /\ Kept /\ (Get \/ ConcatSource) => Kept'
<1> SUFFICES ASSUME TypeInv, Kept, Get \/ ConcatSource PROVE Kept'
  OBVIOUS
<1>1. Stored /\ Handle
  BY DEF Kept
<1>2. CASE Get
  <2>1. Access /\ st' = record' /\ pc' = "read" /\ acked' = acked /\ Complete(record')
    BY <1>2 DEF Get, Goto
  <2>2. ~doomed => acked' <= Size
    BY <1>1, <2>1 DEF Handle
  <2>3. Stored' /\ Handle'
    BY <1>1, <2>1, <2>2, AccessStep
  <2>4. Running'
    BY <2>1 DEF Running, Staging, Deleting, Complete
  <2> QED
    BY <2>3, <2>4 DEF Kept
<1>3. CASE ConcatSource
  <2>1. /\ UNCHANGED <<record, hasMain, main, parts, marker, acked, doomed, lost>>
        /\ st' = record /\ pc' = "read" /\ Complete(record)
    BY <1>3 DEF ConcatSource, Goto, KeepRecord, KeepHist, objects
  <2>2. Stored' /\ Handle'
    BY <1>1, <2>1, SameStep
  <2>3. Running'
    BY <2>1 DEF Running, Staging, Deleting, Complete
  <2> QED
    BY <2>2, <2>3 DEF Kept
<1> QED
  BY <1>2, <1>3

\* What a repair makes of the parts.
LEMMA RepairWhole ==
  ASSUME TypeInv, Kept, pc = "read", ~hasMain, Repairable
  PROVE  Join(parts, marker) = File(L)
<1>1. Stored /\ Handle /\ st = record /\ Complete(st)
  BY DEF Kept, Running, Deleting
<1>2. marker # NoMarker /\ 1 .. marker \subseteq DOMAIN parts /\ marker \in Nat
  BY RequestKept DEF Repairable
<1>3. Firm
  BY <1>2 DEF Firm, NoMarker
<1>4. record.offset <= Size /\ record.offset >= L
  BY <1>1, <1>2 DEF Handle, Complete, L
<1>5. StagedSize = L
  BY <1>1, <1>4, SizeKept
<1> QED
  BY <1>1, <1>2, <1>3, <1>5 DEF Stored

LEMMA ReadKeeps == TypeInv /\ Kept /\ Read => Kept'
<1> SUFFICES ASSUME TypeInv, Kept, Read PROVE Kept'
  OBVIOUS
<1>1. /\ pc = "read" /\ UNCHANGED <<record, parts, marker, acked, doomed, lost>>
      /\ \/ pc' = "serve" /\ UNCHANGED <<hasMain, main, st>>
         \/ /\ ~hasMain /\ Repairable /\ hasMain' /\ main' = Join(parts, marker)
            /\ pc' = "serve" /\ st' = st
         \/ Done /\ UNCHANGED <<hasMain, main>>
  BY DEF Read, Goto, local, KeepRecord, KeepMain, KeepHist, KeepParts
<1>2. Stored /\ Handle /\ st = record
  BY <1>1 DEF Kept, Running, Deleting
<1>3. pc' = "serve" /\ st' = st => Running'
  BY <1>1, <1>2 DEF Running, Staging, Deleting
<1>4. CASE UNCHANGED <<hasMain, main>>
  <2>1. Stored' /\ Handle'
    BY <1>1, <1>2, <1>4, SameStep
  <2>2. Running' \/ (~hasMain /\ hasMain')
    BY <1>1, <1>3, IdleStep
  <2> QED
    BY <1>4, <2>1, <2>2 DEF Kept
<1>5. CASE /\ ~hasMain /\ Repairable /\ hasMain' /\ main' = Join(parts, marker)
           /\ pc' = "serve" /\ st' = st
  <2>1. main' = File(L)
    BY <1>1, <1>5, RepairWhole
  <2>2. Len(main') = L
    BY <1>2, <2>1, SizeKept, FileFacts
  <2>3. Stored' /\ Handle'
    BY <1>1, <1>2, <1>5, <2>1, <2>2, MainStep
  <2> QED
    BY <1>3, <1>5, <2>3 DEF Kept
<1> QED
  BY <1>1, <1>4, <1>5

LEMMA DeleteKeeps == TypeInv /\ Kept /\ (Delete \/ DelMarker \/ DelMain \/ DelParts \/ DelRecord) => Kept'
<1> SUFFICES ASSUME TypeInv, Kept, Delete \/ DelMarker \/ DelMain \/ DelParts \/ DelRecord PROVE Kept'
  OBVIOUS
<1>1. Stored /\ Handle /\ Running
  BY DEF Kept
<1>2. CASE Delete
  <2>1. pc' = "delMarker" /\ UNCHANGED <<record, hasMain, main, parts, marker, acked, doomed, lost>>
    BY <1>2 DEF Delete, Goto, KeepRecord, KeepHist, objects
  <2>2. Stored' /\ Handle'
    BY <1>1, <2>1, SameStep
  <2>3. Running'
    BY <2>1 DEF Running, Staging, Deleting
  <2> QED
    BY <2>2, <2>3 DEF Kept
<1>3. CASE DelMarker
  <2>1. /\ pc' = "delMain" /\ marker' = NoMarker /\ doomed'
        /\ UNCHANGED <<record, hasMain, main, parts, acked, lost>>
    BY <1>3 DEF DelMarker, Goto, KeepRecord, KeepMain
  <2>2. L' = L /\ StagedSize' = StagedSize /\ Joined' = Joined
    BY <2>1 DEF L, StagedSize, Joined
  <2>3. Firm' => Firm
    BY <2>1 DEF Firm
  <2>4. Stored'
    BY <1>1, <2>1, <2>2, <2>3 DEF Stored
  <2>5. Handle'
    BY <1>1, <2>1, <2>3 DEF Handle
  <2>6. Running'
    BY <2>1 DEF Running, Staging, Deleting
  <2> QED
    BY <2>4, <2>5, <2>6 DEF Kept
<1>4. CASE DelMain
  <2>1. /\ pc' = "delParts" /\ ~hasMain' /\ main' = << >> /\ doomed /\ marker = NoMarker
        /\ UNCHANGED <<record, parts, marker, acked, doomed, lost>>
    BY <1>1, <1>4 DEF DelMain, Goto, KeepRecord, KeepHist, KeepParts, Running
  <2>2. L' = L /\ StagedSize' = StagedSize /\ Joined' = Joined
    BY <2>1 DEF L, StagedSize, Joined
  <2>3. Firm' => Firm
    BY <2>1 DEF Firm
  <2>4. Stored'
    BY <1>1, <2>1, <2>2, <2>3 DEF Stored
  <2>5. Handle'
    BY <1>1, <2>1, <2>3 DEF Handle
  <2>6. Running'
    BY <2>1 DEF Running, Staging, Deleting
  <2> QED
    BY <2>4, <2>5, <2>6 DEF Kept
<1>5. CASE DelParts
  <2>1. /\ UNCHANGED <<record, hasMain, main, marker, acked, doomed, lost>>
        /\ \/ DOMAIN parts # {} /\ parts' = Without(parts, Min(DOMAIN parts)) /\ pc' = "delParts"
           \/ parts' = parts /\ pc' = "delRecord"
        /\ doomed /\ marker = NoMarker /\ ~hasMain
    BY <1>1, <1>5 DEF DelParts, Discard, Goto, KeepRecord, KeepMain, KeepHist, Running
  <2>2. Stored' /\ Handle'
    BY <1>1, <2>1, FirstGone, SameStep
  <2>3. Running'
    BY <2>1 DEF Running, Staging, Deleting
  <2> QED
    BY <2>2, <2>3 DEF Kept
<1>6. CASE DelRecord
  <2>1. Done /\ UNCHANGED <<record, hasMain, main, parts, marker, acked, doomed, lost>>
    BY <1>6 DEF DelRecord, objects
  <2>2. Stored' /\ Handle'
    BY <1>1, <2>1, SameStep
  <2> QED
    BY <2>1, <2>2, IdleStep DEF Kept
<1> QED
  BY <1>2, <1>3, <1>4, <1>5, <1>6

LEMMA KeptStep == OInv /\ [Next]_vars => OInv'
<1> SUFFICES ASSUME OInv, [Next]_vars PROVE OInv'
  OBVIOUS
<1>1. TypeInv /\ Kept
  BY DEF OInv
<1>2. TypeInv'
  BY <1>1, TypeStep
<1>3. CASE UNCHANGED vars
  <2>1. UNCHANGED <<record, hasMain, main, parts, marker, acked, doomed, lost, pc, st, body, at, buf>>
    BY <1>3 DEF vars, objects, local
  <2>2. Kept'
    BY <1>1, <2>1 DEF Kept, Stored, Handle, Running, Fits, Aligned, Placed, Completes, Complete,
         Firm, L, Size, Larger, StagedSize, Joined, Repairable
  <2> QED
    BY <1>2, <2>2 DEF OInv
<1>4. CASE Next
  <2>1. Kept'
    BY <1>1, <1>4, HeadRequestKeeps, PatchKeeps, PlaceKeeps, OverKeeps, WriteChunkKeeps,
       WriteErrorKeeps, WriteCloseKeeps, MarkKeeps, StageKeeps, PromoteKeeps, UnmarkKeeps,
       FinalizeKeeps, CleanupKeeps, CommitKeeps, GetKeeps, ReadKeeps, DeleteKeeps DEF Next
  <2> QED
    BY <1>2, <2>1 DEF OInv
<1> QED
  BY <1>3, <1>4

LEMMA LengthKept == OInv /\ [Next]_vars => L' = L
<1> SUFFICES ASSUME OInv, [Next]_vars PROVE L' = L
  OBVIOUS
<1>1. TypeInv /\ Running
  BY DEF OInv, Kept
<1>2. CASE HeadRequest \/ Patch \/ Get
  <2>1. record' = Reconciled(record)
    BY <1>2 DEF HeadRequest, Patch, Get, Access
  <2> QED
    BY <1>1, <2>1, ReconciledType DEF L
<1>3. CASE Commit
  <2>1. st = record /\ st \in State
    BY <1>1, <1>3 DEF Commit, Running, Deleting, TypeInv, TypeOK
  <2> QED
    BY <1>3, <2>1 DEF Commit, L, State
<1>4. CASE \/ Place \/ Refuse \/ WriteChunk \/ WriteError \/ WriteClose \/ Mark \/ Stage \/ Promote
           \/ Unmark \/ Finalize \/ Cleanup \/ ConcatSource \/ Read \/ Serve \/ Delete \/ DelMarker
           \/ DelMain \/ DelParts \/ DelRecord \/ Interrupt \/ UNCHANGED vars
  BY <1>4 DEF Place, Refuse, WriteChunk, WriteError, WriteClose, Mark, Stage, Promote, Unmark,
       Finalize, Cleanup, ConcatSource, Read, Serve, Delete, DelMarker, DelMain, DelParts,
       DelRecord, Interrupt, KeepRecord, vars, L
<1> QED
  BY <1>2, <1>3, <1>4 DEF Next

LEMMA SpoiltStep == OInv /\ SpoiltBefore /\ [Next]_vars => SpoiltBefore'
<1> SUFFICES ASSUME OInv, SpoiltBefore, [Next]_vars PROVE SpoiltBefore'
  OBVIOUS
<1>1. TypeInv /\ Stored /\ Handle /\ Running
  BY DEF OInv, Kept
<1>2. L' = L
  BY LengthKept
<1>3. CASE spoilt' = spoilt \/ spoilt' \subseteq spoilt
  BY <1>2, <1>3 DEF SpoiltBefore
<1>4. CASE WriteChunk /\ TornWrites /\ spoilt' = spoilt \cup {st.offset + Len(buf')}
  <2>1. pc = "write" /\ Len(buf) < body.size /\ buf' = Append(buf, Byte(Len(buf) + 1))
    BY <1>4 DEF WriteChunk
  <2>2. Fits /\ ~Completes /\ st = record
    BY <1>1, <2>1 DEF Running, Staging, Deleting, Aligned
  <2>3. /\ st.offset \in Nat /\ body.size \in Nat /\ L \in Nat
        /\ Len(buf) \in Nat /\ Len(buf') = Len(buf) + 1
    <3>1. Byte(Len(buf) + 1) \in Nat /\ buf \in Seq(Nat)
      BY <1>1, RequestKept DEF Byte
    <3> QED
      BY <1>1, <2>1, <3>1, RequestKept, SizeKept
  <2>4. st.offset + body.size # L /\ st.offset + body.size <= L
    BY <2>2 DEF Fits, Completes, L
  <2>5. st.offset + Len(buf') < L
    BY <2>1, <2>3, <2>4
  <2> QED
    BY <1>2, <1>4, <2>5 DEF SpoiltBefore
<1> QED
  BY <1>3, <1>4, SpoiltMoves

LEMMA KeptInit ==
  ASSUME Deferrable = FALSE, Init
  PROVE  OInv
<1>1. TypeInv
  BY TypeInit
<1>2. /\ parts = << >> /\ DOMAIN parts = {} /\ main = << >> /\ marker = NoMarker /\ pc = "idle"
      /\ buf = << >> /\ acked = 0
      /\ record.offset = 0 /\ record.next = 1 /\ record.staged = 0
  BY DEF Init
<1>3. ~hasMain /\ ~doomed
  BY Zenon DEF Init
<1>4. L \in Nat
  BY ConstantsAssumption DEF Init, L
<1>5. MaxParts \in Nat /\ MaxParts \in 0 .. MaxParts /\ 0 \in 0 .. MaxParts
  BY ConstantsAssumption
<1>6. Join(parts, 0) = << >> /\ Join(parts, MaxParts) = Join(parts, 0)
  <2>1. IsParts(parts)
    BY <1>2 DEF IsParts
  <2> QED
    BY <1>2, <1>5, <2>1, JoinStep, JoinTail
<1>7. Joined = << >> /\ StagedSize = 0 /\ Size = 0
  BY <1>3, <1>6 DEF Joined, StagedSize, Size
<1>8. File(0) = << >>
  BY FileFacts
<1>9. Stored
  BY <1>2, <1>3, <1>4, <1>7, <1>8 DEF Stored, Firm
<1>10. Handle
  BY <1>2, <1>3, <1>4, <1>5, <1>6, <1>7 DEF Handle, Firm, L
<1>11. Running
  BY <1>2 DEF Running, Staging, Deleting
<1> QED
  BY <1>1, <1>9, <1>10, <1>11 DEF OInv, Kept

-----------------------------------------------------------------------------
(* Theorems.                                                               *)

\* The objects, the record and the running request always have their types,
\* whatever the lengths of the uploads are declared to be and when.
THEOREM TypeCorrect == Spec => []TypeOK
<1>1. Spec => []TypeInv
  BY TypeInit, TypeStep, PTL DEF Spec
<1>2. TypeInv => TypeOK
  BY DEF TypeInv
<1> QED
  BY <1>1, <1>2, PTL

\* The invariant of the storage, for uploads whose length is known when they are
\* created, and which positions can be spoilt: only those before the last, and only
\* where the backend shows unfinished objects.
THEOREM StagingInvariant ==
  ASSUME Deferrable = FALSE
  PROVE  Spec => [](OInv /\ SpoiltBefore)
<1>1. Init => OInv /\ SpoiltBefore
  BY KeptInit DEF Init, SpoiltBefore
<1>2. OInv /\ SpoiltBefore /\ [Next]_vars => OInv' /\ SpoiltBefore'
  BY KeptStep, SpoiltStep
<1> QED
  BY <1>1, <1>2, PTL DEF Spec

\* StoredPrefix: what append_part, finalize and ensure_materialized leave behind is
\* a prefix of the client's file, for uploads whose length is known when they are
\* created.
THEOREM PrefixAlways ==
  ASSUME Deferrable = FALSE
  PROVE  Spec => []StoredPrefix
<1>1. OInv => StoredPrefix
  BY DEF OInv, Kept, Stored, StoredPrefix, Firm
<1> QED
  BY <1>1, StagingInvariant, PTL

\* Resumable: stored_size never falls below an acknowledged offset, and
\* append_position accepts the offset that recovery took from it.
THEOREM ResumableAlways ==
  ASSUME Deferrable = FALSE
  PROVE  Spec => []Resumable
<1>1. OInv => Resumable
  BY DEF OInv, Kept, Handle, Running, Resumable
<1> QED
  BY <1>1, StagingInvariant, PTL

\* CompleteIsReadable: ensure_materialized finds or can repair the main object of
\* every complete upload, unless a promotion took effect although it was answered
\* with an error.
THEOREM ReadableAlways ==
  ASSUME Deferrable = FALSE
  PROVE  Spec => []CompleteIsReadable
<1>1. ASSUME OInv PROVE CompleteIsReadable
  <2> SUFFICES ASSUME Complete(record), record.length > 0, ~doomed, ~lost, ~hasMain
               PROVE  Repairable
    BY DEF CompleteIsReadable
  <2>1. Stored /\ Handle /\ TypeInv
    BY <1>1 DEF OInv, Kept
  <2>2. record.offset <= Size /\ record.offset >= L
    BY <2>1 DEF Handle, Complete, L
  <2>3. StagedSize = L
    BY <2>1, <2>2, SizeKept
  <2> QED
    BY <2>1, <2>3 DEF Stored, L
<1> QED
  BY <1>1, StagingInvariant, PTL

\* ServedIsWhole: stream_from and concat read all of the file in order, and a
\* damaged byte only from a backend that shows unfinished objects, never the last.
THEOREM ServedAlwaysWhole ==
  ASSUME Deferrable = FALSE
  PROVE  Spec => ServedIsWhole
<1>1. ASSUME OInv, SpoiltBefore, [Next]_vars, pc = "read", pc' = "serve", ~doomed \/ ~hasMain
      PROVE  /\ main' = File(st.length)
             /\ st.length \notin spoilt
             /\ spoilt # {} => TornWrites
  <2>1. TypeInv /\ Kept /\ Stored /\ st = record
    BY <1>1 DEF OInv, Kept, Running, Deleting
  <2>2. Read
    BY <1>1 DEF Next, vars, HeadRequest, Patch, Place, Refuse, WriteChunk, WriteError, WriteClose,
         Mark, Stage, Promote, Unmark, Finalize, Cleanup, Commit, Get, ConcatSource, Serve, Delete,
         DelMarker, DelMain, DelParts, DelRecord, Interrupt, Access, Done, Goto
  <2>3. \/ hasMain /\ main' = main
        \/ ~hasMain /\ Repairable /\ main' = Join(parts, marker)
    BY <1>1, <2>2 DEF Read, Done, Goto, KeepMain
  <2>4. hasMain /\ main' = main => main' = File(st.length)
    BY <1>1, <2>1 DEF Stored, L
  <2>5. ~hasMain /\ Repairable /\ main' = Join(parts, marker) => main' = File(st.length)
    BY <1>1, <2>1, RepairWhole DEF L
  <2>6. st.length \notin spoilt /\ (spoilt # {} => TornWrites)
    <3>1. L \in Nat
      BY <2>1, SizeKept DEF Kept
    <3> QED
      BY <1>1, <2>1, <3>1 DEF SpoiltBefore, L
  <2> QED
    BY <2>3, <2>4, <2>5, <2>6
<1>2. OInv /\ SpoiltBefore /\ [Next]_vars =>
        [pc = "read" /\ pc' = "serve" /\ (~doomed \/ ~hasMain)
           => /\ main' = File(st.length)
              /\ st.length \notin spoilt
              /\ spoilt # {} => TornWrites]_vars
  BY <1>1
<1> QED
  BY <1>2, StagingInvariant, PTL DEF Spec, ServedIsWhole

=============================================================================
