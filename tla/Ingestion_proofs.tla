-------------------------- MODULE Ingestion_proofs ---------------------------
(***************************************************************************)
(* Proofs about Ingestion, for any dataset, any size of the buffer, any    *)
(* number of flush threads, any bound on crashes and failures: the agent   *)
(* implements ReliableHandoff, and it produces a line twice only if a kill *)
(* or a failed flush met the line.  The invariant follows a line that met  *)
(* neither: it is in one place of one chunk, and not in Kafka before that  *)
(* chunk is acknowledged.  At the end, what a verdict of fluentd_crash.py  *)
(* on this pipeline proves.                                                *)
(***************************************************************************)
EXTENDS FluentdCrash, FiniteSetTheorems, TLAPS

Chunk == Seq(Position)
Taken == [chunk : Chunk, acked : BOOLEAN]

TypeInv ==
    /\ cursor \in 0..Len(Lines)
    /\ file \in Seq(Nat) /\ Len(file) <= MaxFile
    /\ up \in BOOLEAN
    /\ tail \in 0..Len(file) /\ saved \in 0..tail
    /\ stage \in Chunk /\ queue \in Seq(Chunk) /\ sending \in Seq(Taken)
    /\ topic \in [Position -> Nat]
    /\ atRisk \subseteq Position
    /\ ncrashes \in Nat /\ nfailures \in Nat

\* Every line that was emitted is on disk or in Kafka, and a chunk that is about to be
\* purged is in Kafka.
HeldInv ==
    /\ \A p \in 1..tail : Matches(p) => p \in Buffered \cup Produced
    /\ \A i \in DOMAIN sending : sending[i].acked => Range(sending[i].chunk) \subseteq Produced

\* A chunk holds a line once, and two chunks share none, unless the line is at risk.
NoRepeats(c, risk) == \A j, k \in DOMAIN c : c[j] = c[k] /\ c[j] \notin risk => j = k
Sound(q, risk) ==
    /\ \A k \in DOMAIN q : NoRepeats(q[k], risk)
    /\ \A k, l \in DOMAIN q : k # l => Range(q[k]) \cap Range(q[l]) \subseteq risk

ChunksInv ==
    /\ NoRepeats(stage, atRisk) /\ Sound(queue, atRisk) /\ Sound(TakenChunks, atRisk)
    /\ Range(stage) \cap LinesIn(queue) \subseteq atRisk
    /\ Range(stage) \cap LinesIn(TakenChunks) \subseteq atRisk
    /\ LinesIn(queue) \cap LinesIn(TakenChunks) \subseteq atRisk

\* A line that met no failure is in Kafka at most once, and not before its chunk is
\* acknowledged, let alone before it is emitted.
OnceInv ==
    \A p \in Position \ atRisk :
        /\ topic[p] <= 1
        /\ p \in Range(stage) \cup LinesIn(queue) => topic[p] = 0
        /\ \A i \in DOMAIN sending :
             ~sending[i].acked /\ p \in Range(sending[i].chunk) => topic[p] = 0
        /\ p > tail => p \notin Buffered /\ topic[p] = 0

IInv == TypeInv /\ HeldInv /\ ChunksInv /\ OnceInv


-----------------------------------------------------------------------------
(* Sequences of chunks.                                                    *)

LEMMA ElementType == ASSUME NEW S, NEW q \in Seq(S), NEW i \in DOMAIN q PROVE q[i] \in S
OBVIOUS

\* RemoveAt closes the gap and keeps the order of the rest.
LEMMA Removed ==
    ASSUME NEW S, NEW q \in Seq(S), NEW i \in DOMAIN q
    PROVE  /\ RemoveAt(q, i) \in Seq(S)
           /\ DOMAIN RemoveAt(q, i) = 1..(Len(q) - 1)
           /\ \A j \in 1..(Len(q) - 1) :
                RemoveAt(q, i)[j] = IF j < i THEN q[j] ELSE q[j + 1]
<1>1. i \in Nat /\ 1 <= i /\ i <= Len(q) /\ Len(q) \in Nat
  OBVIOUS
<1> DEFINE a == SubSeq(q, 1, i - 1)
           b == SubSeq(q, i + 1, Len(q))
<1>2. a \in Seq(S) /\ Len(a) = i - 1 /\ \A j \in 1..(i - 1) : a[j] = q[j]
  BY <1>1
<1>3. b \in Seq(S) /\ Len(b) = Len(q) - i /\ \A j \in 1..(Len(q) - i) : b[j] = q[j + i]
  BY <1>1
<1>4. RemoveAt(q, i) = a \o b
  BY DEF RemoveAt
<1> HIDE DEF a, b
<1>5. a \o b \in Seq(S) /\ Len(a \o b) = Len(q) - 1
  BY <1>1, <1>2, <1>3
<1>6. ASSUME NEW j \in 1..(Len(q) - 1)
      PROVE  (a \o b)[j] = IF j < i THEN q[j] ELSE q[j + 1]
  <2>1. CASE j < i
    BY <1>1, <1>2, <1>3, <2>1
  <2>2. CASE j >= i
    <3>1. (a \o b)[j] = b[j - (i - 1)]
      BY <1>1, <1>2, <1>3, <2>2
    <3>2. b[j - (i - 1)] = q[j + 1]
      <4>1. j - (i - 1) \in 1..(Len(q) - i) /\ (j - (i - 1)) + i = j + 1
        BY <1>1, <2>2
      <4>2. QED
        BY <1>3, <4>1
    <3>3. QED
      BY <1>1, <2>2, <3>1, <3>2
  <2>3. j < i \/ j >= i
    <3>1. j \in Nat
      BY <1>1
    <3>2. QED
      BY <1>1, <3>1
  <2>4. QED
    BY <2>1, <2>2, <2>3
<1>7. DOMAIN (a \o b) = 1..(Len(q) - 1)
  BY <1>5
<1>8. QED
  BY <1>4, <1>5, <1>6, <1>7

\* r is some of the chunks of q, each at one place at most.
Picks(r, q) ==
    \E f \in [DOMAIN r -> DOMAIN q] :
        /\ \A j \in DOMAIN r : r[j] = q[f[j]]
        /\ \A j, k \in DOMAIN r : f[j] = f[k] => j = k

LEMMA PicksSound ==
    ASSUME NEW r, NEW q, NEW risk, Picks(r, q), Sound(q, risk)
    PROVE  Sound(r, risk)
<1>1. PICK f \in [DOMAIN r -> DOMAIN q] :
        /\ \A j \in DOMAIN r : r[j] = q[f[j]]
        /\ \A j, k \in DOMAIN r : f[j] = f[k] => j = k
  BY DEF Picks
<1>2. \A j \in DOMAIN r : f[j] \in DOMAIN q
  BY <1>1
<1>3. QED
  BY <1>1, <1>2 DEF Sound

\* Taking a chunk out of a sequence of chunks.
LEMMA RemovedChunk ==
    ASSUME NEW q \in Seq(Chunk), NEW i \in DOMAIN q
    PROVE  /\ RemoveAt(q, i) \in Seq(Chunk)
           /\ LinesIn(q) = Range(q[i]) \cup LinesIn(RemoveAt(q, i))
           /\ \A risk : Sound(q, risk) =>
                /\ NoRepeats(q[i], risk) /\ Sound(RemoveAt(q, i), risk)
                /\ Range(q[i]) \cap LinesIn(RemoveAt(q, i)) \subseteq risk
<1> DEFINE r == RemoveAt(q, i)
           f == [j \in DOMAIN r |-> IF j < i THEN j ELSE j + 1]
<1>1. /\ r \in Seq(Chunk) /\ DOMAIN r = 1..(Len(q) - 1)
      /\ \A j \in 1..(Len(q) - 1) : r[j] = IF j < i THEN q[j] ELSE q[j + 1]
  BY Removed
<1>2. DOMAIN q = 1..Len(q) /\ Len(q) \in Nat /\ i \in 1..Len(q)
  OBVIOUS
<1> HIDE DEF r
<1>3. /\ \A j \in DOMAIN r : f[j] \in DOMAIN q \ {i} /\ r[j] = q[f[j]]
      /\ \A j, k \in DOMAIN r : f[j] = f[k] => j = k
  BY <1>1, <1>2
<1>4. \A k \in DOMAIN q \ {i} : \E j \in DOMAIN r : r[j] = q[k]
  <2>1. TAKE k \in DOMAIN q \ {i}
  <2>2. CASE k < i
    BY <1>1, <1>2, <2>2
  <2>3. CASE k > i
    <3>1. k - 1 \in DOMAIN r /\ ~(k - 1 < i) /\ (k - 1) + 1 = k
      BY <1>1, <1>2, <2>3
    <3>2. r[k - 1] = q[k]
      BY <1>1, <3>1
    <3>3. QED
      BY <3>1, <3>2
  <2>4. QED
    BY <1>2, <2>2, <2>3
<1>5. f \in [DOMAIN r -> DOMAIN q]
  BY <1>3
<1> HIDE DEF f
<1>6. LinesIn(q) = Range(q[i]) \cup LinesIn(r)
  BY <1>3, <1>4 DEF LinesIn
<1>7. Picks(r, q)
  BY <1>3, <1>5 DEF Picks
<1>8. ASSUME NEW risk, Sound(q, risk)
      PROVE  NoRepeats(q[i], risk) /\ Sound(r, risk) /\ Range(q[i]) \cap LinesIn(r) \subseteq risk
  <2>1. Sound(r, risk)
    BY <1>7, <1>8, PicksSound
  <2>2. \A j \in DOMAIN r : Range(q[i]) \cap Range(r[j]) \subseteq risk
    BY <1>3, <1>8 DEF Sound
  <2>3. Range(q[i]) \cap LinesIn(r) \subseteq risk
    BY <2>2 DEF LinesIn
  <2>4. QED
    BY <1>8, <2>1, <2>3 DEF Sound
<1>9. QED
  BY <1>1, <1>6, <1>8 DEF r

LEMMA HeadTail ==
    ASSUME NEW S, NEW q \in Seq(S), q # <<>>
    PROVE  Head(q) = q[1] /\ Tail(q) = RemoveAt(q, 1) /\ 1 \in DOMAIN q
<1>1. Len(q) \in Nat /\ Len(q) # 0 /\ 1 \in DOMAIN q
  OBVIOUS
<1>2. Tail(q) \in Seq(S) /\ DOMAIN Tail(q) = 1..(Len(q) - 1)
  BY <1>1
<1>3. \A j \in 1..(Len(q) - 1) : Tail(q)[j] = q[j + 1]
  BY <1>1
<1>4. /\ RemoveAt(q, 1) \in Seq(S) /\ DOMAIN RemoveAt(q, 1) = 1..(Len(q) - 1)
      /\ \A j \in 1..(Len(q) - 1) : RemoveAt(q, 1)[j] = q[j + 1]
  BY <1>1, Removed
<1>5. QED
  BY <1>1, <1>2, <1>3, <1>4

\* Two sequences of chunks, one behind the other.
LEMMA Joined ==
    ASSUME NEW q \in Seq(Chunk), NEW r \in Seq(Chunk)
    PROVE  /\ LinesIn(q \o r) = LinesIn(q) \cup LinesIn(r)
           /\ \A risk : /\ Sound(q, risk) /\ Sound(r, risk)
                        /\ LinesIn(q) \cap LinesIn(r) \subseteq risk
                        => Sound(q \o r, risk)
<1> DEFINE s == q \o r
<1>1. /\ Len(q) \in Nat /\ Len(r) \in Nat
      /\ DOMAIN q = 1..Len(q) /\ DOMAIN r = 1..Len(r) /\ DOMAIN s = 1..(Len(q) + Len(r))
  OBVIOUS
<1>2. \A j \in DOMAIN q : s[j] = q[j]
  BY <1>1
<1>3. \A j \in DOMAIN s \ DOMAIN q : j - Len(q) \in DOMAIN r /\ s[j] = r[j - Len(q)]
  BY <1>1
<1>4. \A j \in DOMAIN r : j + Len(q) \in DOMAIN s \ DOMAIN q /\ s[j + Len(q)] = r[j]
  BY <1>1
<1>5. DOMAIN q \subseteq DOMAIN s
  BY <1>1
<1>6. \A j, k \in DOMAIN s \ DOMAIN q : j # k => j - Len(q) # k - Len(q)
  BY <1>1
<1> HIDE DEF s
<1>7. LinesIn(s) = LinesIn(q) \cup LinesIn(r)
  <2>1. LinesIn(s) \subseteq LinesIn(q) \cup LinesIn(r)
    BY <1>2, <1>3 DEF LinesIn
  <2>2. LinesIn(q) \subseteq LinesIn(s)
    BY <1>2, <1>5 DEF LinesIn
  <2>3. LinesIn(r) \subseteq LinesIn(s)
    <3>1. \A j \in DOMAIN r : \E k \in DOMAIN s : s[k] = r[j]
      BY <1>4
    <3>2. QED
      BY <3>1 DEF LinesIn
  <2>4. QED
    BY <2>1, <2>2, <2>3
<1>8. ASSUME NEW risk, Sound(q, risk), Sound(r, risk), LinesIn(q) \cap LinesIn(r) \subseteq risk
      PROVE  Sound(s, risk)
  <2>1. \A j \in DOMAIN s : NoRepeats(s[j], risk)
    BY <1>2, <1>3, <1>8 DEF Sound
  <2>2. ASSUME NEW j \in DOMAIN s, NEW k \in DOMAIN s, j # k
        PROVE  Range(s[j]) \cap Range(s[k]) \subseteq risk
    <3>1. CASE j \in DOMAIN q /\ k \in DOMAIN q
      BY <1>2, <1>8, <2>2, <3>1 DEF Sound
    <3>2. CASE j \notin DOMAIN q /\ k \notin DOMAIN q
      BY <1>3, <1>6, <1>8, <2>2, <3>2 DEF Sound
    <3>3. CASE j \in DOMAIN q /\ k \notin DOMAIN q
      BY <1>2, <1>3, <1>8, <3>3 DEF LinesIn
    <3>4. CASE j \notin DOMAIN q /\ k \in DOMAIN q
      BY <1>2, <1>3, <1>8, <3>4 DEF LinesIn
    <3>5. QED
      BY <3>1, <3>2, <3>3, <3>4
  <2>3. QED
    BY <2>1, <2>2 DEF Sound
<1>9. QED
  BY <1>7, <1>8 DEF s

LEMMA OneChunk ==
    ASSUME NEW c \in Chunk
    PROVE  /\ <<c>> \in Seq(Chunk) /\ LinesIn(<<c>>) = Range(c)
           /\ \A risk : NoRepeats(c, risk) => Sound(<<c>>, risk)
<1>1. <<c>> \in Seq(Chunk) /\ DOMAIN <<c>> = {1} /\ <<c>>[1] = c
  OBVIOUS
<1>2. QED
  BY <1>1 DEF LinesIn, Sound

LEMMA Appended ==
    ASSUME NEW q \in Seq(Chunk), NEW c \in Chunk
    PROVE  /\ LinesIn(Append(q, c)) = LinesIn(q) \cup Range(c)
           /\ \A risk : /\ Sound(q, risk) /\ NoRepeats(c, risk)
                        /\ LinesIn(q) \cap Range(c) \subseteq risk
                        => Sound(Append(q, c), risk)
<1>1. Append(q, c) = q \o <<c>>
  OBVIOUS
<1>2. QED
  BY <1>1, OneChunk, Joined

LEMMA Grows ==
    ASSUME NEW risk, NEW more, risk \subseteq more
    PROVE  /\ \A c : NoRepeats(c, risk) => NoRepeats(c, more)
           /\ \A q : Sound(q, risk) => Sound(q, more)
<1>1. \A c : NoRepeats(c, risk) => NoRepeats(c, more)
  BY DEF NoRepeats
<1>2. QED
  BY <1>1 DEF Sound

LEMMA Parts ==
    ASSUME TypeInv
    PROVE  /\ Range(stage) \subseteq Position
           /\ \A k \in DOMAIN queue : queue[k] \in Chunk /\ Range(queue[k]) \subseteq Position
           /\ \A i \in DOMAIN sending : /\ sending[i] \in Taken
                                        /\ sending[i].chunk \in Chunk
                                        /\ sending[i].acked \in BOOLEAN
                                        /\ Range(sending[i].chunk) \subseteq Position
           /\ TakenChunks \in Seq(Chunk) /\ DOMAIN TakenChunks = DOMAIN sending
           /\ LinesIn(queue) \subseteq Position /\ LinesIn(TakenChunks) \subseteq Position
<1>1. ASSUME NEW c \in Chunk PROVE Range(c) \subseteq Position
  BY DEF Chunk, Range
<1>2. stage \in Chunk /\ queue \in Seq(Chunk) /\ sending \in Seq(Taken)
  BY DEF TypeInv
<1>3. \A k \in DOMAIN queue : queue[k] \in Chunk
  BY <1>2, ElementType
<1>4. \A i \in DOMAIN sending : sending[i] \in Taken
  BY <1>2, ElementType
<1>5. \A i \in DOMAIN sending : sending[i].chunk \in Chunk /\ sending[i].acked \in BOOLEAN
  BY <1>4 DEF Taken
<1>6. TakenChunks \in Seq(Chunk) /\ DOMAIN TakenChunks = DOMAIN sending
  BY <1>2, <1>5 DEF TakenChunks
<1>7. \A i \in DOMAIN sending : TakenChunks[i] = sending[i].chunk
  BY DEF TakenChunks
<1>8. QED
  BY <1>1, <1>2, <1>3, <1>4, <1>5, <1>6, <1>7 DEF LinesIn

\* What producing some records of a chunk changes.
LEMMA ProduceCounts ==
    ASSUME TypeInv, NEW c \in Chunk, NEW S \in SUBSET DOMAIN c, Produce(c, S)
    PROVE  /\ topic' \in [Position -> Nat]
           /\ \A p \in Position : topic[p] <= topic'[p]
           /\ \A p \in Position : p \notin Range(c) => topic'[p] = topic[p]
           /\ S = DOMAIN c => \A p \in Range(c) : topic'[p] > 0
           /\ NoRepeats(c, atRisk) => \A p \in Position \ atRisk : topic'[p] <= topic[p] + 1
<1> DEFINE At(p) == {i \in S : c[i] = p}
<1>1. topic' = [p \in Position |-> topic[p] + Cardinality(At(p))] /\ topic \in [Position -> Nat]
  BY DEF Produce, TypeInv
<1>2. ASSUME NEW p PROVE IsFiniteSet(At(p)) /\ Cardinality(At(p)) \in Nat
  <2>1. DOMAIN c = 1..Len(c) /\ Len(c) \in Nat
    BY DEF Chunk
  <2>2. IsFiniteSet(DOMAIN c)
    BY <2>1, FS_Interval
  <2>3. At(p) \subseteq DOMAIN c
    OBVIOUS
  <2>4. QED
    BY <2>2, <2>3, FS_Subset, FS_CardinalityType
<1>3. ASSUME NEW p, p \notin Range(c) PROVE Cardinality(At(p)) = 0
  <2>1. At(p) = {}
    BY <1>3 DEF Range
  <2>2. QED
    BY <2>1, FS_EmptySet
<1>4. ASSUME NEW p \in Range(c), S = DOMAIN c PROVE Cardinality(At(p)) # 0
  <2>1. At(p) # {}
    BY <1>4 DEF Range
  <2>2. QED
    BY <2>1, <1>2, FS_EmptySet
<1>5. ASSUME NEW p \in Position \ atRisk, NoRepeats(c, atRisk) PROVE Cardinality(At(p)) <= 1
  <2>1. CASE At(p) = {}
    BY <2>1, FS_EmptySet
  <2>2. CASE At(p) # {}
    <3>1. PICK j \in At(p) : TRUE
      BY <2>2
    <3>2. At(p) = {j}
      BY <1>5, <3>1 DEF NoRepeats
    <3>3. QED
      <4>1. Cardinality({j}) = 1
        BY FS_Singleton
      <4>2. Cardinality(At(p)) = 1
        BY <3>2, <4>1
      <4>3. QED
        BY <4>2
  <2>3. QED
    BY <2>1, <2>2
<1> HIDE DEF At
<1>6. Range(c) \subseteq Position
  BY DEF Range, Chunk
<1>7. QED
  BY <1>1, <1>2, <1>3, <1>4, <1>5, <1>6

-----------------------------------------------------------------------------
(* The list of lines: a fold over the positions of the dataset, of which a *)
(* finite set has a largest one.  An induction over finite sets looks at a *)
(* minimal set for which its claim fails.                                  *)

\* A set of subsets of a finite set has a minimal one.
LEMMA MinimalSubset ==
    ASSUME NEW S, IsFiniteSet(S), NEW T \in SUBSET (SUBSET S), T # {}
    PROVE  \E D \in T : \A E \in T : E \subseteq D => E = D
<1>1. IsWellFoundedOn(StrictSubsetOrdering(S), FiniteSubsetsOf(S))
  BY FS_StrictSubsetOrderingWellFounded
<1>2. T \subseteq FiniteSubsetsOf(S)
  BY FS_FiniteSubsetsOfFinite
<1>3. \E D \in T : \A E \in T : ~(<<E, D>> \in StrictSubsetOrdering(S))
  BY <1>1, <1>2, WFMin
<1>4. QED
  BY <1>3 DEF StrictSubsetOrdering

\* A finite set of numbers has one largest element.
LEMMA Largest ==
    ASSUME NEW T, IsFiniteSet(T), T # {}, \A x \in T : x \in Int
    PROVE  /\ Max(T) \in T
           /\ \A y \in T : Max(T) >= y
<1> DEFINE NotBelow(x) == {y \in T : y >= x}
           Upper == {NotBelow(x) : x \in T}
<1>1. PICK D \in Upper : \A E \in Upper : E \subseteq D => E = D
  <2>1. Upper \in SUBSET (SUBSET T)
    OBVIOUS
  <2>2. Upper # {}
    OBVIOUS
  <2> HIDE DEF Upper, NotBelow
  <2>3. QED
    BY <2>1, <2>2, MinimalSubset
<1>2. PICK x \in T : D = NotBelow(x)
  OBVIOUS
<1>3. \A y \in T : x >= y
  <2>1. SUFFICES ASSUME NEW y \in T, y > x PROVE FALSE
    OBVIOUS
  <2>2. \A z \in T : z >= y => z >= x
    BY <2>1
  <2>3. ~(x >= y) /\ x >= x
    BY <2>1
  <2>4. NotBelow(y) \subseteq NotBelow(x) /\ x \notin NotBelow(y) /\ x \in NotBelow(x)
    BY <2>2, <2>3
  <2>5. QED
    BY <1>1, <1>2, <2>4
<1>4. QED
  BY <1>3 DEF Max

\* One step of the fold, and the function that holds its results.
Keep(l, kept) == IF l = "blank" THEN kept ELSE Append(kept, l)

IsFold(g, S) ==
    g = [T \in SUBSET S |->
            IF T = {} THEN <<>> ELSE Keep(Dataset[Max(T)], g[T \ {Max(T)}])]

\* The results for all positions but the last are extended to the last.
LEMMA FoldExtends ==
    ASSUME NEW T, IsFiniteSet(T), \A x \in T : x \in Int,
           NEW m \in T, \A y \in T : m >= y, NEW g, IsFold(g, T \ {m})
    PROVE  \E h : IsFold(h, T)
<1> DEFINE h == [U \in SUBSET T |->
                    IF m \in U THEN Keep(Dataset[m], g[U \ {m}]) ELSE g[U]]
<1>1. ASSUME NEW U \in SUBSET T
      PROVE  h[U] = IF U = {} THEN <<>> ELSE Keep(Dataset[Max(U)], h[U \ {Max(U)}])
  <2>1. CASE m \in U
    <3>1. IsFiniteSet(U) /\ \A x \in U : x \in Int
      BY FS_Subset
    <3>2. Max(U) = m
      <4>1. Max(U) \in U /\ Max(U) >= m
        BY <2>1, <3>1, Largest
      <4>2. m >= Max(U) /\ Max(U) \in Int /\ m \in Int
        BY <4>1
      <4>3. QED
        BY <4>1, <4>2
    <3>3. h[U] = Keep(Dataset[m], g[U \ {m}]) /\ h[U \ {m}] = g[U \ {m}]
      BY <2>1
    <3> HIDE DEF h
    <3>4. QED
      BY <2>1, <3>2, <3>3
  <2>2. CASE m \notin U
    <3>1. U \in SUBSET (T \ {m}) /\ \A x : U \ {x} \in SUBSET T /\ m \notin U \ {x}
      BY <2>2
    <3>2. h[U] = g[U] /\ \A x : h[U \ {x}] = g[U \ {x}]
      BY <2>2, <3>1
    <3>3. g[U] = IF U = {} THEN <<>> ELSE Keep(Dataset[Max(U)], g[U \ {Max(U)}])
      BY <3>1 DEF IsFold
    <3> HIDE DEF h
    <3>4. QED
      BY <3>2, <3>3
  <2>3. QED
    BY <2>1, <2>2
<1>2. h = [U \in SUBSET T |-> h[U]]
  OBVIOUS
<1> HIDE DEF h
<1>3. IsFold(h, T)
  BY <1>1, <1>2 DEF IsFold
<1>4. QED
  BY <1>3

LEMMA FoldExists ==
    ASSUME NEW S, IsFiniteSet(S), \A x \in S : x \in Int
    PROVE  \E g : IsFold(g, S)
<1> DEFINE Bad == {T \in SUBSET S : ~ \E g : IsFold(g, T)}
<1>1. SUFFICES ASSUME Bad # {} PROVE FALSE
  OBVIOUS
<1>2. PICK T \in Bad : \A E \in Bad : E \subseteq T => E = T
  <2>1. Bad \in SUBSET (SUBSET S)
    OBVIOUS
  <2> HIDE DEF Bad
  <2>2. QED
    BY <1>1, <2>1, MinimalSubset
<1>3. IsFiniteSet(T) /\ \A x \in T : x \in Int
  BY FS_Subset
<1>4. CASE T = {}
  <2>1. IsFold([U \in SUBSET {} |-> <<>>], {})
    BY DEF IsFold
  <2>2. QED
    BY <1>4, <2>1
<1>5. CASE T # {}
  <2>1. Max(T) \in T /\ \A y \in T : Max(T) >= y
    BY <1>3, <1>5, Largest
  <2>2. T \ {Max(T)} \notin Bad /\ T \ {Max(T)} \in SUBSET S
    BY <1>2, <2>1
  <2>3. PICK g : IsFold(g, T \ {Max(T)})
    BY <2>2
  <2>4. \E h : IsFold(h, T)
    BY <1>3, <2>1, <2>3, FoldExtends
  <2>5. QED
    BY <2>4
<1>6. QED
  BY <1>4, <1>5

\* load_dataset returns a list of lines that are not blank.
LEMMA LinesAreKept == Lines \in Seq({"log", "odd"})
<1> DEFINE I == DOMAIN Dataset
           iter == CHOOSE g : IsFold(g, I)
<1>1. IsFiniteSet(I) /\ \A i \in I : i \in Int /\ Dataset[i] \in {"log", "odd", "blank"}
  <2>1. Len(Dataset) \in Nat /\ I = 1..Len(Dataset)
    BY DatasetAssumption
  <2>2. IsFiniteSet(1..Len(Dataset))
    BY <2>1, FS_Interval
  <2>3. QED
    BY <2>1, <2>2, DatasetAssumption
<1>2. Lines = iter[I]
  BY DEF Lines, FoldLeft, MapThenFoldSet, IsFold, Keep
<1>3. IsFold(iter, I)
  <2>1. \E g : IsFold(g, I)
    BY <1>1, FoldExists
  <2>2. QED
    BY <2>1
<1> HIDE DEF iter
<1> DEFINE Bad == {T \in SUBSET I : iter[T] \notin Seq({"log", "odd"})}
<1>4. Bad = {}
  <2>1. SUFFICES ASSUME Bad # {} PROVE FALSE
    OBVIOUS
  <2>2. PICK T \in Bad : \A E \in Bad : E \subseteq T => E = T
    <3>1. Bad \in SUBSET (SUBSET I)
      OBVIOUS
    <3> HIDE DEF Bad
    <3>2. QED
      BY <1>1, <2>1, <3>1, MinimalSubset
  <2>3. iter[T] = IF T = {} THEN <<>> ELSE Keep(Dataset[Max(T)], iter[T \ {Max(T)}])
    BY <1>3 DEF IsFold
  <2>4. T # {}
    <3>1. T = {} => iter[T] = <<>>
      BY <2>3
    <3>2. <<>> \in Seq({"log", "odd"})
      OBVIOUS
    <3>3. QED
      BY <3>1, <3>2
  <2>5. Max(T) \in T
    <3>1. IsFiniteSet(T) /\ \A x \in T : x \in Int
      BY <1>1, FS_Subset
    <3>2. QED
      BY <2>4, <3>1, Largest
  <2>6. T \ {Max(T)} \in SUBSET I /\ T \ {Max(T)} \notin Bad
    BY <2>2, <2>5
  <2>7. Dataset[Max(T)] \in {"log", "odd", "blank"}
    BY <1>1, <2>5
  <2>8. iter[T] \in Seq({"log", "odd"})
    BY <2>3, <2>4, <2>6, <2>7 DEF Keep
  <2>9. QED
    BY <2>8
<1>5. QED
  BY <1>2, <1>4

-----------------------------------------------------------------------------
(* The invariant's type part.                                              *)

LEMMA LinesType == Len(Lines) \in Nat
BY LinesAreKept

LEMMA BatchType ==
    ASSUME NEW n \in 0..Len(Lines)
    PROVE  BatchOf(n) \in Nat /\ n + BatchOf(n) <= Len(Lines)
BY LinesType, SizeAssumption DEF BatchOf

LEMMA ReplayType == ASSUME TypeInv, Replay PROVE TypeInv'
<1> DEFINE n == BatchOf(cursor)
<1>1. n \in Nat /\ cursor \in Nat /\ cursor + n <= Len(Lines)
  BY BatchType, LinesType DEF TypeInv
<1>2. /\ file' = file \o [k \in 1..n |-> cursor + k]
      /\ Len(file) + n <= MaxFile
      /\ cursor' = IF cursor + n = Len(Lines) \/ n = 0 THEN 0 ELSE cursor + n
  BY DEF Replay
<1> HIDE DEF n
<1>3. [k \in 1..n |-> cursor + k] \in Seq(Nat) /\ Len([k \in 1..n |-> cursor + k]) = n
  BY <1>1
<1>4. file \in Seq(Nat)
  BY DEF TypeInv
<1>5. file' \in Seq(Nat) /\ Len(file') = Len(file) + n
  <2> DEFINE g == [k \in 1..n |-> cursor + k]
  <2>1. g \in Seq(Nat) /\ Len(g) = n /\ file' = file \o g
    BY <1>2, <1>3
  <2> HIDE DEF g
  <2>2. file \o g \in Seq(Nat) /\ Len(file \o g) = Len(file) + Len(g)
    BY <1>4, <2>1
  <2>3. QED
    BY <2>1, <2>2
<1>6. cursor' \in 0..Len(Lines)
  BY <1>1, <1>2, LinesType
<1>7. Len(file) \in Nat
  BY <1>4
<1>8. tail \in 0..Len(file') /\ Len(file') <= MaxFile
  BY <1>1, <1>2, <1>5, <1>7 DEF TypeInv
<1>9. UNCHANGED <<up, tail, saved, stage, queue, sending, topic, atRisk, ncrashes, nfailures>>
  BY DEF Replay, tailVars, bufferVars
<1>10. QED
  BY <1>5, <1>6, <1>8, <1>9 DEF TypeInv

LEMMA BufferStays ==
    ASSUME TypeInv, UNCHANGED <<fileVars, ncrashes, nfailures, atRisk>>,
           up' \in BOOLEAN, tail' \in 0..Len(file), saved' \in 0..tail',
           stage' \in Chunk, queue' \in Seq(Chunk), sending' \in Seq(Taken),
           topic' \in [Position -> Nat]
    PROVE  TypeInv'
BY DEF TypeInv, fileVars

LEMMA EmitType == ASSUME TypeInv, EmitLine PROVE TypeInv'
<1>1. file \in Seq(Nat) /\ Len(file) \in Nat /\ Len(file) <= MaxFile /\ tail \in Nat
  BY DEF TypeInv
<1>2. tail' = tail + 1 /\ tail' \in 1..Len(file) /\ saved' \in 0..tail'
  BY <1>1 DEF EmitLine, TypeInv
<1>3. tail' \in Position
  BY <1>1, <1>2, SizeAssumption DEF Position
<1>4. stage \in Chunk /\ queue \in Seq(Chunk) /\ sending \in Seq(Taken)
  BY DEF TypeInv
<1>5. stage' \in Chunk /\ queue' \in Seq(Chunk) /\ sending' \in Seq(Taken)
  <2>1. CASE UNCHANGED bufferVars
    BY <2>1, <1>4 DEF bufferVars
  <2>2. CASE Stage(tail')
    <3>1. Append(stage, tail') \in Chunk /\ <<tail'>> \in Chunk
      BY <1>3, <1>4 DEF Chunk
    <3>2. Append(queue, stage) \in Seq(Chunk)
      BY <1>4
    <3>3. QED
      BY <2>2, <3>1, <3>2, <1>4 DEF Stage
  <2>3. QED
    BY <2>1, <2>2 DEF EmitLine
<1>6. UNCHANGED <<fileVars, up, topic, atRisk, ncrashes, nfailures>>
  BY DEF EmitLine
<1>7. QED
  BY <1>1, <1>2, <1>5, <1>6, BufferStays DEF TypeInv

LEMMA ChunkMoves ==
    ASSUME TypeInv, EnqueueStage \/ TakeChunk
    PROVE  TypeInv'
<1>1. stage \in Chunk /\ queue \in Seq(Chunk) /\ sending \in Seq(Taken)
  BY DEF TypeInv
<1>2. stage' \in Chunk /\ queue' \in Seq(Chunk) /\ sending' \in Seq(Taken)
  <2>1. CASE EnqueueStage
    <3>1. <<>> \in Chunk /\ Append(queue, stage) \in Seq(Chunk)
      BY <1>1 DEF Chunk
    <3>2. QED
      BY <2>1, <3>1, <1>1 DEF EnqueueStage
  <2>2. CASE TakeChunk
    <3>1. Head(queue) \in Chunk /\ Tail(queue) \in Seq(Chunk)
      BY <2>2, <1>1 DEF TakeChunk
    <3>2. [chunk |-> Head(queue), acked |-> FALSE] \in Taken
      BY <3>1 DEF Taken
    <3>3. QED
      BY <2>2, <3>1, <3>2, <1>1 DEF TakeChunk
  <2>3. QED
    BY <2>1, <2>2
<1>3. UNCHANGED <<fileVars, tailVars, topic, atRisk, ncrashes, nfailures>>
  BY DEF EnqueueStage, TakeChunk
<1>4. QED
  BY <1>2, <1>3, BufferStays DEF TypeInv, tailVars

LEMMA FlushType ==
    ASSUME TypeInv, NEW i \in 1..FlushThreads, Acknowledge(i) \/ PurgeChunk(i) \/ FlushFails(i)
    PROVE  TypeInv'
<1> DEFINE c == sending[i].chunk
<1>1. /\ stage \in Chunk /\ queue \in Seq(Chunk) /\ sending \in Seq(Taken)
      /\ topic \in [Position -> Nat]
  BY DEF TypeInv
<1>2. i \in DOMAIN sending
  BY DEF Acknowledge, PurgeChunk, FlushFails
<1>3. c \in Chunk /\ sending[i] \in Taken /\ Range(c) \subseteq Position
  BY <1>2, Parts
<1>4. RemoveAt(sending, i) \in Seq(Taken)
  BY <1>1, <1>2, Removed
<1>5. CASE Acknowledge(i)
  <2>1. [sending[i] EXCEPT !.acked = TRUE] \in Taken
    BY <1>3 DEF Taken
  <2>2. sending' = [sending EXCEPT ![i] = [sending[i] EXCEPT !.acked = TRUE]]
    BY <1>5 DEF Acknowledge
  <2>3. sending' \in Seq(Taken)
    BY <1>1, <1>2, <2>1, <2>2
  <2>4. topic' \in [Position -> Nat]
    BY <1>3, <1>5, ProduceCounts DEF Acknowledge
  <2>5. UNCHANGED <<fileVars, tailVars, stage, queue, atRisk, ncrashes, nfailures>>
    BY <1>5 DEF Acknowledge
  <2>6. QED
    BY <1>1, <2>3, <2>4, <2>5, BufferStays DEF TypeInv, tailVars
<1>6. CASE PurgeChunk(i)
  BY <1>1, <1>4, <1>6, BufferStays DEF PurgeChunk, TypeInv, tailVars
<1>7. CASE FlushFails(i)
  <2>1. queue' = <<c>> \o queue
    BY <1>7 DEF FlushFails, PutBack
  <2>2. queue' \in Seq(Chunk)
    <3>1. <<c>> \in Seq(Chunk)
      BY <1>3
    <3>2. QED
      BY <1>1, <2>1, <3>1
  <2>3. PICK some \in SUBSET DOMAIN c : Produce(c, some)
    BY <1>7 DEF FlushFails
  <2>4. topic' \in [Position -> Nat]
    BY <1>3, <2>3, ProduceCounts
  <2>5. atRisk' = atRisk \cup Range(c) /\ sending' = RemoveAt(sending, i)
    BY <1>7 DEF FlushFails
  <2>6. nfailures' = nfailures + 1 /\ UNCHANGED <<fileVars, tailVars, stage, ncrashes>>
    BY <1>7 DEF FlushFails
  <2> HIDE DEF c
  <2>7. QED
    BY <1>1, <1>3, <1>4, <2>2, <2>4, <2>5, <2>6 DEF TypeInv, tailVars, fileVars
<1>8. QED
  BY <1>5, <1>6, <1>7

LEMMA DieType == ASSUME TypeInv, Die, ncrashes' \in Nat PROVE TypeInv'
<1>1. TakenChunks \in Seq(Chunk) /\ LinesIn(TakenChunks) \subseteq Position
  BY Parts
<1>2. TakenChunks \o queue \in Seq(Chunk)
  BY <1>1 DEF TypeInv
<1>3. saved + 1 .. tail \subseteq Position
  <2>1. Len(file) \in Nat /\ tail \in Nat /\ saved \in Nat /\ tail <= MaxFile
    BY SizeAssumption DEF TypeInv
  <2>2. QED
    BY <2>1, SizeAssumption DEF Position
<1>4. <<>> \in Seq(Taken)
  OBVIOUS
<1>5. /\ up' = FALSE /\ tail' = saved /\ queue' = TakenChunks \o queue /\ sending' = <<>>
      /\ UNCHANGED <<fileVars, saved, stage, topic, nfailures>>
  BY DEF Die
<1>6. saved \in 0..Len(file) /\ saved \in 0..saved
  <2>1. Len(file) \in Nat
    BY DEF TypeInv
  <2>2. QED
    BY <2>1 DEF TypeInv
<1> DEFINE lost == saved + 1 .. tail
<1>7. atRisk' = atRisk \cup LinesIn(TakenChunks) \cup lost /\ lost \subseteq Position
  BY <1>3 DEF Die
<1> HIDE DEF lost
<1>8. atRisk' \subseteq Position
  BY <1>1, <1>7 DEF TypeInv
<1>9. queue' \in Seq(Chunk) /\ sending' \in Seq(Taken)
  BY <1>2, <1>4, <1>5
<1>10. tail' \in 0..Len(file') /\ saved' \in 0..tail'
  BY <1>5, <1>6 DEF fileVars
<1>11. cursor' \in 0..Len(Lines) /\ file' \in Seq(Nat) /\ Len(file') <= MaxFile
  BY <1>5 DEF TypeInv, fileVars
<1>12. up' \in BOOLEAN
  BY <1>5
<1>13. stage' \in Chunk /\ topic' \in [Position -> Nat] /\ nfailures' \in Nat
  BY <1>5 DEF TypeInv
<1>14. QED
  BY <1>8, <1>9, <1>10, <1>11, <1>12, <1>13 DEF TypeInv

LEMMA TypeKept == ASSUME TypeInv, [Next]_vars PROVE TypeInv'
<1>1. CASE Replay
  BY <1>1, ReplayType
<1>2. CASE RestartReplay
  BY <1>2, LinesType DEF RestartReplay, TypeInv, tailVars, bufferVars
<1>3. CASE EmitLine
  BY <1>3, EmitType
<1>4. CASE SavePosition
  <2>1. Len(file) \in Nat
    BY DEF TypeInv
  <2>2. tail \in 0..tail
    BY <2>1 DEF TypeInv
  <2>3. QED
    BY <1>4, <2>2, BufferStays DEF SavePosition, TypeInv, bufferVars
<1>5. CASE EnqueueStage \/ TakeChunk
  BY <1>5, ChunkMoves
<1>6. ASSUME NEW i \in 1..FlushThreads, Acknowledge(i) \/ PurgeChunk(i) \/ FlushFails(i)
      PROVE  TypeInv'
  BY <1>6, FlushType
<1>7. CASE CrashAgent
  BY <1>7, DieType DEF CrashAgent, TypeInv
<1>8. CASE StartAgent
  BY <1>8, BufferStays DEF StartAgent, TypeInv, bufferVars
<1>9. CASE UNCHANGED vars
  BY <1>9 DEF TypeInv, vars, fileVars, tailVars, bufferVars
<1>10. QED
  BY <1>1, <1>2, <1>3, <1>4, <1>5, <1>6, <1>7, <1>8, <1>9 DEF Next, Agent, Flush

-----------------------------------------------------------------------------
(* Where the steps take the lines.                                         *)

LEMMA NoLines == Range(<<>>) = {} /\ LinesIn(<<>>) = {} /\ <<>> \in Chunk
BY DEF Range, LinesIn, Chunk

LEMMA TakenAt ==
    ASSUME TypeInv, NEW i \in DOMAIN sending
    PROVE  /\ TakenChunks \in Seq(Chunk) /\ i \in DOMAIN TakenChunks
           /\ TakenChunks[i] = sending[i].chunk
           /\ sending' = RemoveAt(sending, i) => TakenChunks' = RemoveAt(TakenChunks, i)
<1>1. TakenChunks \in Seq(Chunk) /\ DOMAIN TakenChunks = DOMAIN sending
  BY Parts
<1>2. \A j \in DOMAIN sending : TakenChunks[j] = sending[j].chunk
  BY DEF TakenChunks
<1>3. sending \in Seq(Taken) /\ Len(sending) \in Nat /\ Len(TakenChunks) = Len(sending)
  BY <1>1 DEF TypeInv
<1>4. ASSUME sending' = RemoveAt(sending, i) PROVE TakenChunks' = RemoveAt(TakenChunks, i)
  <2> DEFINE s == RemoveAt(sending, i)
             t == RemoveAt(TakenChunks, i)
  <2>1. /\ DOMAIN s = 1..(Len(sending) - 1)
        /\ \A j \in 1..(Len(sending) - 1) : s[j] = IF j < i THEN sending[j] ELSE sending[j + 1]
    BY <1>3, Removed
  <2>2. /\ t \in Seq(Chunk) /\ DOMAIN t = 1..(Len(sending) - 1)
        /\ \A j \in 1..(Len(sending) - 1) :
             t[j] = IF j < i THEN TakenChunks[j] ELSE TakenChunks[j + 1]
    BY <1>1, <1>3, Removed
  <2>3. \A j \in 1..(Len(sending) - 1) : j \in DOMAIN sending /\ j + 1 \in DOMAIN sending
    BY <1>3
  <2>4. sending' = s
    BY <1>4
  <2> HIDE DEF s, t
  <2>5. \A j \in 1..(Len(sending) - 1) : t[j] = s[j].chunk
    BY <1>2, <2>1, <2>2, <2>3
  <2>6. TakenChunks' = [j \in 1..(Len(sending) - 1) |-> s[j].chunk]
    BY <2>1, <2>4 DEF TakenChunks
  <2>7. t = [j \in 1..(Len(sending) - 1) |-> t[j]]
    BY <2>2
  <2>8. TakenChunks' = t
    BY <2>5, <2>6, <2>7
  <2>9. QED
    BY <2>8 DEF t
<1>5. QED
  BY <1>1, <1>2, <1>4

LEMMA TakenSame ==
    ASSUME UNCHANGED sending
    PROVE  TakenChunks' = TakenChunks
BY DEF TakenChunks

LEMMA EnqueueMoves ==
    ASSUME TypeInv, EnqueueStage
    PROVE  /\ LinesIn(queue') = LinesIn(queue) \cup Range(stage)
           /\ stage' = <<>> /\ TakenChunks' = TakenChunks /\ Buffered' = Buffered
<1>1. stage' = <<>> /\ queue' = Append(queue, stage) /\ TakenChunks' = TakenChunks
  BY TakenSame DEF EnqueueStage
<1>2. LinesIn(queue') = LinesIn(queue) \cup Range(stage)
  BY <1>1, Appended DEF TypeInv
<1>3. Range(stage') = {}
  BY <1>1, NoLines
<1>4. QED
  BY <1>1, <1>2, <1>3 DEF Buffered

LEMMA StageMoves ==
    ASSUME TypeInv, NEW p \in Position, Stage(p)
    PROVE  /\ Buffered' = Buffered \cup {p} /\ TakenChunks' = TakenChunks
           /\ \/ /\ stage' = Append(stage, p) /\ UNCHANGED queue
                 /\ Range(stage') = Range(stage) \cup {p}
              \/ /\ stage' = <<p>> /\ queue' = Append(queue, stage)
                 /\ Range(stage') = {p}
                 /\ LinesIn(queue') = LinesIn(queue) \cup Range(stage)
<1>1. TakenChunks' = TakenChunks
  BY TakenSame DEF Stage
<1>2. stage \in Chunk /\ queue \in Seq(Chunk)
  BY DEF TypeInv
<1>3. CASE stage' = Append(stage, p) /\ UNCHANGED queue
  <2>1. Range(stage') = Range(stage) \cup {p}
    <3>1. Len(stage) \in Nat /\ DOMAIN stage = 1..Len(stage)
      BY <1>2 DEF Chunk
    <3>2. /\ DOMAIN stage' = DOMAIN stage \cup {Len(stage) + 1}
          /\ stage'[Len(stage) + 1] = p
          /\ \A j \in DOMAIN stage : stage'[j] = stage[j]
      BY <1>2, <1>3, <3>1 DEF Chunk
    <3>3. QED
      BY <3>2 DEF Range
  <2>2. QED
    BY <1>1, <1>3, <2>1 DEF Buffered
<1>4. CASE stage' = <<p>> /\ queue' = Append(queue, stage)
  <2>1. Range(stage') = {p}
    BY <1>4 DEF Range
  <2>2. LinesIn(queue') = LinesIn(queue) \cup Range(stage)
    BY <1>2, <1>4, Appended
  <2>3. QED
    BY <1>1, <1>4, <2>1, <2>2 DEF Buffered
<1>5. QED
  BY <1>3, <1>4 DEF Stage

LEMMA TakeMoves ==
    ASSUME TypeInv, TakeChunk
    PROVE  /\ 1 \in DOMAIN queue /\ queue' = RemoveAt(queue, 1)
           /\ TakenChunks' = Append(TakenChunks, queue[1])
           /\ Buffered' = Buffered
<1>1. queue \in Seq(Chunk) /\ sending \in Seq(Taken) /\ queue # <<>>
  BY DEF TypeInv, TakeChunk
<1>2. Head(queue) = queue[1] /\ Tail(queue) = RemoveAt(queue, 1) /\ 1 \in DOMAIN queue
  BY <1>1, HeadTail
<1>3. /\ sending' = Append(sending, [chunk |-> queue[1], acked |-> FALSE])
      /\ queue' = RemoveAt(queue, 1) /\ stage' = stage
  BY <1>2 DEF TakeChunk
<1>4. queue[1] \in Chunk /\ TakenChunks \in Seq(Chunk) /\ DOMAIN TakenChunks = DOMAIN sending
  BY <1>2, Parts
<1>5. TakenChunks' = Append(TakenChunks, queue[1])
  <2> DEFINE n == Len(sending)
             new == [chunk |-> queue[1], acked |-> FALSE]
             t == Append(TakenChunks, queue[1])
  <2>1. n \in Nat /\ DOMAIN sending = 1..n /\ Len(TakenChunks) = n
    BY <1>1, <1>4
  <2>2. /\ DOMAIN sending' = 1..(n + 1)
        /\ \A j \in 1..n : sending'[j] = sending[j]
        /\ sending'[n + 1] = new
    BY <1>1, <1>3, <2>1
  <2>3. /\ DOMAIN t = 1..(n + 1) /\ t[n + 1] = queue[1]
        /\ \A j \in 1..n : t[j] = TakenChunks[j]
    BY <1>4, <2>1
  <2>4. t = [j \in 1..(n + 1) |-> t[j]]
    BY <1>4, <2>3
  <2>5. TakenChunks' = [j \in 1..(n + 1) |-> sending'[j].chunk]
    BY <2>2 DEF TakenChunks
  <2>6. \A j \in 1..n : TakenChunks[j] = sending[j].chunk
    BY <2>1 DEF TakenChunks
  <2> HIDE DEF t
  <2>7. ASSUME NEW j \in 1..(n + 1) PROVE t[j] = sending'[j].chunk
    <3>1. CASE j = n + 1
      BY <2>2, <2>3, <3>1
    <3>2. CASE j \in 1..n
      BY <2>2, <2>3, <2>6, <3>2
    <3>3. QED
      BY <2>1, <3>1, <3>2
  <2>8. TakenChunks' = t
    BY <2>4, <2>5, <2>7
  <2>9. QED
    BY <2>8 DEF t
<1>6. LinesIn(TakenChunks') = LinesIn(TakenChunks) \cup Range(queue[1])
  BY <1>4, <1>5, Appended
<1>7. LinesIn(queue) = Range(queue[1]) \cup LinesIn(queue')
  BY <1>1, <1>2, <1>3, RemovedChunk
<1>8. QED
  BY <1>2, <1>3, <1>5, <1>6, <1>7 DEF Buffered

LEMMA AcknowledgeMoves ==
    ASSUME TypeInv, NEW i \in DOMAIN sending, Acknowledge(i)
    PROVE  /\ DOMAIN sending' = DOMAIN sending /\ TakenChunks' = TakenChunks
           /\ \A j \in DOMAIN sending : /\ sending'[j].chunk = sending[j].chunk
                                        /\ j # i => sending'[j] = sending[j]
           /\ sending'[i].acked
           /\ Buffered' = Buffered
<1>1. \A j \in DOMAIN sending : sending[j] \in Taken
  BY Parts
<1>2. sending' = [sending EXCEPT ![i] = [sending[i] EXCEPT !.acked = TRUE]]
  BY DEF Acknowledge
<1>3. DOMAIN sending' = DOMAIN sending
  BY <1>2
<1>4. \A j \in DOMAIN sending : j # i => sending'[j] = sending[j]
  BY <1>2
<1>5. sending'[i].chunk = sending[i].chunk /\ sending'[i].acked = TRUE
  BY <1>1, <1>2 DEF Taken
<1>6. TakenChunks' = TakenChunks
  BY <1>3, <1>4, <1>5 DEF TakenChunks
<1>7. UNCHANGED <<stage, queue>>
  BY DEF Acknowledge
<1>8. QED
  BY <1>3, <1>4, <1>5, <1>6, <1>7 DEF Buffered

LEMMA PurgeMoves ==
    ASSUME TypeInv, NEW i \in DOMAIN sending, PurgeChunk(i)
    PROVE  /\ TakenChunks' = RemoveAt(TakenChunks, i)
           /\ Buffered = Buffered' \cup Range(sending[i].chunk)
<1>1. TakenChunks' = RemoveAt(TakenChunks, i) /\ UNCHANGED <<stage, queue>>
  BY TakenAt DEF PurgeChunk
<1>2. LinesIn(TakenChunks) = Range(sending[i].chunk) \cup LinesIn(TakenChunks')
  BY <1>1, TakenAt, RemovedChunk
<1>3. QED
  BY <1>1, <1>2 DEF Buffered

LEMMA FailMoves ==
    ASSUME TypeInv, NEW i \in DOMAIN sending, FlushFails(i)
    PROVE  /\ TakenChunks' = RemoveAt(TakenChunks, i)
           /\ queue' = <<sending[i].chunk>> \o queue
           /\ LinesIn(queue') = Range(sending[i].chunk) \cup LinesIn(queue)
           /\ LinesIn(TakenChunks) = Range(sending[i].chunk) \cup LinesIn(TakenChunks')
           /\ Buffered' = Buffered
<1>1. /\ TakenChunks' = RemoveAt(TakenChunks, i) /\ UNCHANGED stage
      /\ queue' = <<sending[i].chunk>> \o queue
  BY TakenAt DEF FlushFails, PutBack
<1>2. LinesIn(TakenChunks) = Range(sending[i].chunk) \cup LinesIn(TakenChunks')
  BY <1>1, TakenAt, RemovedChunk
<1>3. LinesIn(queue') = Range(sending[i].chunk) \cup LinesIn(queue)
  BY <1>1, Parts, OneChunk, Joined DEF TypeInv
<1>4. QED
  BY <1>1, <1>2, <1>3 DEF Buffered

LEMMA CrashMoves ==
    ASSUME TypeInv, CrashAgent
    PROVE  /\ queue' = TakenChunks \o queue /\ TakenChunks' = <<>>
           /\ LinesIn(queue') = LinesIn(TakenChunks) \cup LinesIn(queue)
           /\ Buffered' = Buffered
<1>1. queue' = TakenChunks \o queue /\ sending' = <<>> /\ UNCHANGED stage
  BY DEF CrashAgent, Die
<1>2. TakenChunks' = <<>>
  BY <1>1 DEF TakenChunks
<1>3. LinesIn(queue') = LinesIn(TakenChunks) \cup LinesIn(queue)
  BY <1>1, Parts, Joined DEF TypeInv
<1>4. QED
  BY <1>1, <1>2, <1>3, NoLines DEF Buffered

\* What a flush thread holds after a chunk was removed, and after one was taken.
LEMMA RestHeld ==
    ASSUME TypeInv, NEW i \in DOMAIN sending, sending' = RemoveAt(sending, i)
    PROVE  \A j \in DOMAIN sending' : \E k \in DOMAIN sending : sending'[j] = sending[k]
<1>1. sending \in Seq(Taken) /\ Len(sending) \in Nat /\ DOMAIN sending = 1..Len(sending)
  BY DEF TypeInv
<1>2. /\ DOMAIN sending' = 1..(Len(sending) - 1)
      /\ \A j \in 1..(Len(sending) - 1) :
           sending'[j] = IF j < i THEN sending[j] ELSE sending[j + 1]
  BY <1>1, Removed
<1>3. \A j \in 1..(Len(sending) - 1) : j \in DOMAIN sending /\ j + 1 \in DOMAIN sending
  BY <1>1
<1>4. QED
  BY <1>2, <1>3

LEMMA MoreHeld ==
    ASSUME TypeInv, TakeChunk
    PROVE  \A j \in DOMAIN sending' :
             \/ j \in DOMAIN sending /\ sending'[j] = sending[j]
             \/ sending'[j].chunk = queue[1] /\ sending'[j].acked = FALSE
<1> DEFINE new == [chunk |-> Head(queue), acked |-> FALSE]
<1>1. sending \in Seq(Taken) /\ sending' = Append(sending, new)
  BY DEF TypeInv, TakeChunk
<1>2. queue \in Seq(Chunk) /\ queue # <<>>
  BY DEF TypeInv, TakeChunk
<1>3. new.chunk = queue[1] /\ new.acked = FALSE
  BY <1>2, HeadTail
<1> HIDE DEF new
<1>4. \A j \in DOMAIN sending' : \/ j \in DOMAIN sending /\ sending'[j] = sending[j]
                                 \/ sending'[j] = new
  BY <1>1
<1>5. QED
  BY <1>3, <1>4

LEMMA ReplayKeeps ==
    ASSUME TypeInv, Replay
    PROVE  /\ DOMAIN file \subseteq DOMAIN file'
           /\ \A p \in DOMAIN file : Matches(p)' = Matches(p)
           /\ DOMAIN file = 1..Len(file) /\ DOMAIN file' \subseteq Position
           /\ UNCHANGED <<tailVars, bufferVars, topic, atRisk, ncrashes, nfailures>>
<1> DEFINE n == BatchOf(cursor)
           g == [k \in 1..n |-> cursor + k]
<1>1. n \in Nat /\ cursor \in Nat
  BY BatchType, LinesType DEF TypeInv
<1>2. g \in Seq(Nat)
  BY <1>1
<1>3. file' = file \o g
  BY DEF Replay
<1>4. file \in Seq(Nat) /\ Len(file) \in Nat /\ DOMAIN file = 1..Len(file)
  BY DEF TypeInv
<1> HIDE DEF g
<1>5. DOMAIN file \subseteq DOMAIN file' /\ \A p \in DOMAIN file : file'[p] = file[p]
  BY <1>2, <1>3, <1>4
<1>6. DOMAIN file' \subseteq Position
  <2>1. TypeInv'
    BY ReplayType
  <2>2. file' \in Seq(Nat) /\ Len(file') \in Nat /\ Len(file') <= MaxFile
    BY <2>1 DEF TypeInv
  <2>3. QED
    BY <2>2, SizeAssumption DEF Position
<1>7. QED
  BY <1>4, <1>5, <1>6 DEF Replay, Matches

\* The line the tail input emits.
LEMMA EmitTo ==
    ASSUME TypeInv, EmitLine
    PROVE  /\ tail' = tail + 1 /\ tail' \in Position /\ tail \in Nat
           /\ tail' \in DOMAIN file
           /\ \/ Matches(tail') /\ Stage(tail')
              \/ ~Matches(tail') /\ UNCHANGED bufferVars
           /\ UNCHANGED <<file, sending, saved, topic, atRisk>>
<1>1. file \in Seq(Nat) /\ Len(file) \in Nat /\ Len(file) <= MaxFile /\ tail \in Nat
  BY DEF TypeInv
<1>2. tail' = tail + 1 /\ tail' \in 1..Len(file)
  BY <1>1 DEF EmitLine
<1>3. UNCHANGED sending
  BY DEF EmitLine, Stage, bufferVars
<1>4. QED
  BY <1>1, <1>2, <1>3, SizeAssumption DEF EmitLine, Position, fileVars

LEMMA BufferSame == ASSUME UNCHANGED bufferVars PROVE Buffered' = Buffered
BY DEF bufferVars, Buffered, LinesIn, TakenChunks

-----------------------------------------------------------------------------
(* What was emitted is on disk or in Kafka.                                *)

LEMMA HeldKept ==
    ASSUME TypeInv, HeldInv, [Next]_vars
    PROVE  HeldInv'
<1>1. tail \in Nat /\ saved \in Nat /\ saved <= tail /\ tail <= Len(file) /\ Len(file) \in Nat
  <2>1. Len(file) \in Nat
    BY DEF TypeInv
  <2>2. QED
    BY <2>1 DEF TypeInv
<1>2. CASE Replay
  <2>1. \A p \in 1..tail : p \in DOMAIN file
    BY <1>1, <1>2, ReplayKeeps
  <2>2. Buffered' = Buffered /\ Produced' = Produced /\ UNCHANGED <<tail, sending>>
    BY <1>2, ReplayKeeps, BufferSame DEF tailVars, bufferVars, Produced
  <2>3. QED
    BY <1>2, <2>1, <2>2, ReplayKeeps DEF HeldInv
<1>3. CASE RestartReplay \/ StartAgent \/ SavePosition
  <2>1. UNCHANGED <<file, tail, sending, topic, bufferVars>>
    BY <1>3 DEF RestartReplay, StartAgent, SavePosition, fileVars, tailVars, bufferVars
  <2>2. Buffered' = Buffered /\ Produced' = Produced
    BY <2>1, BufferSame DEF Produced
  <2>3. QED
    BY <2>1, <2>2 DEF HeldInv, Matches
<1>4. CASE EmitLine
  <2>1. PICK q \in Position : q = tail'
    BY <1>4, EmitTo
  <2>2. \A p \in 1..tail' : p \in 1..tail \/ p = q
    BY <1>4, <2>1, EmitTo
  <2>3. Buffered \subseteq Buffered' /\ (Matches(q) => q \in Buffered')
    BY <1>4, <2>1, EmitTo, StageMoves, BufferSame
  <2>4. Produced' = Produced /\ UNCHANGED <<file, sending>>
    BY <1>4, EmitTo DEF Produced
  <2>5. QED
    BY <2>2, <2>3, <2>4 DEF HeldInv, Matches
<1>5. CASE EnqueueStage
  <2>1. Buffered' = Buffered
    BY <1>5, EnqueueMoves
  <2>2. UNCHANGED <<file, tail, sending, topic>>
    BY <1>5 DEF EnqueueStage, fileVars, tailVars
  <2>3. QED
    BY <2>1, <2>2 DEF HeldInv, Matches, Produced
<1>6. CASE TakeChunk
  <2>1. Buffered' = Buffered
    BY <1>6, TakeMoves
  <2>2. UNCHANGED <<file, tail, topic>>
    BY <1>6 DEF TakeChunk, fileVars, tailVars
  <2>3. \A j \in DOMAIN sending' : sending'[j].acked =>
            j \in DOMAIN sending /\ sending'[j] = sending[j]
    BY <1>6, MoreHeld
  <2>4. QED
    BY <2>1, <2>2, <2>3 DEF HeldInv, Matches, Produced
<1>7. ASSUME NEW i \in 1..FlushThreads, Acknowledge(i) PROVE HeldInv'
  <2> DEFINE c == sending[i].chunk
  <2>1. i \in DOMAIN sending
    BY <1>7 DEF Acknowledge
  <2>2. c \in Chunk /\ Range(c) \subseteq Position
    BY <2>1, Parts
  <2>3. Produced \subseteq Produced' /\ Range(c) \subseteq Produced'
    <3>1. /\ \A p \in Position : topic[p] <= topic'[p]
          /\ \A p \in Range(c) : topic'[p] > 0
          /\ topic \in [Position -> Nat] /\ topic' \in [Position -> Nat]
      BY <1>7, <2>2, ProduceCounts DEF Acknowledge, TypeInv
    <3>2. QED
      BY <2>2, <3>1 DEF Produced
  <2>4. UNCHANGED <<file, tail>> /\ Buffered' = Buffered
    BY <1>7, <2>1, AcknowledgeMoves DEF Acknowledge, fileVars, tailVars
  <2>5. QED
    BY <1>7, <2>1, <2>3, <2>4, AcknowledgeMoves DEF HeldInv, Matches
<1>8. ASSUME NEW i \in 1..FlushThreads, PurgeChunk(i) PROVE HeldInv'
  <2>1. i \in DOMAIN sending /\ sending[i].acked /\ sending' = RemoveAt(sending, i)
    BY <1>8 DEF PurgeChunk
  <2>2. UNCHANGED <<file, tail>> /\ Produced' = Produced
    BY <1>8 DEF PurgeChunk, fileVars, tailVars, Produced
  <2>3. Buffered = Buffered' \cup Range(sending[i].chunk)
    BY <1>8, <2>1, PurgeMoves
  <2>4. Range(sending[i].chunk) \subseteq Produced
    BY <2>1 DEF HeldInv
  <2>5. \A j \in DOMAIN sending' : \E k \in DOMAIN sending : sending'[j] = sending[k]
    BY <2>1, RestHeld
  <2>6. QED
    BY <2>2, <2>3, <2>4, <2>5 DEF HeldInv, Matches
<1>9. ASSUME NEW i \in 1..FlushThreads, FlushFails(i) PROVE HeldInv'
  <2> DEFINE c == sending[i].chunk
  <2>1. i \in DOMAIN sending /\ sending' = RemoveAt(sending, i)
    BY <1>9 DEF FlushFails
  <2>2. c \in Chunk
    BY <2>1, Parts
  <2>3. PICK some \in SUBSET DOMAIN c : Produce(c, some)
    BY <1>9 DEF FlushFails
  <2>4. Produced \subseteq Produced'
    <3>1. /\ \A p \in Position : topic[p] <= topic'[p]
          /\ topic \in [Position -> Nat] /\ topic' \in [Position -> Nat]
      BY <2>2, <2>3, ProduceCounts DEF TypeInv
    <3>2. QED
      BY <3>1 DEF Produced
  <2>5. UNCHANGED <<file, tail>> /\ Buffered' = Buffered
    BY <1>9, <2>1, FailMoves DEF FlushFails, fileVars, tailVars
  <2>6. \A j \in DOMAIN sending' : \E k \in DOMAIN sending : sending'[j] = sending[k]
    BY <2>1, RestHeld
  <2>7. QED
    BY <2>4, <2>5, <2>6 DEF HeldInv, Matches
<1>10. CASE CrashAgent
  <2>1. tail' = saved /\ sending' = <<>> /\ UNCHANGED <<file, topic>>
    BY <1>10 DEF CrashAgent, Die, fileVars
  <2>2. Buffered' = Buffered
    BY <1>10, CrashMoves
  <2>3. \A p \in 1..tail' : p \in 1..tail
    BY <1>1, <2>1
  <2>4. DOMAIN sending' = {}
    BY <2>1
  <2>5. QED
    BY <2>1, <2>2, <2>3, <2>4 DEF HeldInv, Matches, Produced
<1>11. CASE UNCHANGED vars
  BY <1>11, BufferSame DEF vars, fileVars, tailVars, bufferVars, HeldInv, Matches, Produced
<1>12. QED
  BY <1>2, <1>3, <1>4, <1>5, <1>6, <1>7, <1>8, <1>9, <1>10, <1>11 DEF Next, Agent, Flush

-----------------------------------------------------------------------------
(* A line that met no failure has one place.                               *)

LEMMA ChunksKept ==
    ASSUME TypeInv, ChunksInv, OnceInv, [Next]_vars
    PROVE  ChunksInv'
<1>1. /\ stage \in Chunk /\ queue \in Seq(Chunk) /\ TakenChunks \in Seq(Chunk)
      /\ NoRepeats(stage, atRisk) /\ Sound(queue, atRisk) /\ Sound(TakenChunks, atRisk)
      /\ Range(stage) \cap LinesIn(queue) \subseteq atRisk
      /\ Range(stage) \cap LinesIn(TakenChunks) \subseteq atRisk
      /\ LinesIn(queue) \cap LinesIn(TakenChunks) \subseteq atRisk
  BY Parts DEF ChunksInv, TypeInv
<1>2. ASSUME UNCHANGED <<bufferVars, atRisk>> PROVE ChunksInv'
  BY <1>2 DEF ChunksInv, bufferVars, TakenChunks
<1>3. CASE Replay \/ RestartReplay \/ StartAgent \/ SavePosition \/ UNCHANGED vars
  BY <1>2, <1>3 DEF Replay, RestartReplay, StartAgent, SavePosition, vars
<1>4. CASE EmitLine
  <2>1. PICK p \in Position : p = tail'
    BY <1>4, EmitTo
  <2>2. p > tail /\ UNCHANGED atRisk
    BY <1>4, <2>1, EmitTo
  <2>3. p \in atRisk \/ p \notin Buffered
    BY <2>2 DEF OnceInv
  <2>4. CASE UNCHANGED bufferVars
    BY <1>2, <2>2, <2>4
  <2>5. CASE Stage(p) /\ stage' = Append(stage, p) /\ UNCHANGED queue
    <3>1. /\ DOMAIN stage' = DOMAIN stage \cup {Len(stage) + 1}
          /\ stage'[Len(stage) + 1] = p
          /\ \A j \in DOMAIN stage : stage'[j] = stage[j]
      <4>1. Len(stage) \in Nat /\ DOMAIN stage = 1..Len(stage)
        BY <1>1 DEF Chunk
      <4>2. QED
        BY <1>1, <2>5, <4>1 DEF Chunk
    <3>2. NoRepeats(stage', atRisk)
      <4>1. \A j \in DOMAIN stage : stage[j] \in Buffered
        BY DEF Buffered, Range
      <4>2. QED
        BY <1>1, <2>3, <3>1, <4>1 DEF NoRepeats
    <3>3. Range(stage') = Range(stage) \cup {p}
      BY <3>1 DEF Range
    <3>4. TakenChunks' = TakenChunks
      BY <2>5, StageMoves
    <3>5. QED
      BY <1>1, <2>2, <2>3, <2>5, <3>2, <3>3, <3>4 DEF ChunksInv, Buffered
  <2>6. CASE Stage(p) /\ stage' = <<p>> /\ queue' = Append(queue, stage)
    <3>1. NoRepeats(stage', atRisk) /\ Range(stage') = {p}
      BY <2>6 DEF NoRepeats, Range
    <3>2. /\ LinesIn(queue') = LinesIn(queue) \cup Range(stage)
          /\ Sound(queue', atRisk)
      BY <1>1, <2>6, Appended
    <3>3. TakenChunks' = TakenChunks
      BY <2>6, StageMoves
    <3>4. QED
      BY <1>1, <2>2, <2>3, <3>1, <3>2, <3>3 DEF ChunksInv, Buffered
  <2>7. QED
    BY <1>4, <2>1, <2>4, <2>5, <2>6, EmitTo, StageMoves
<1>5. CASE EnqueueStage
  <2>1. /\ LinesIn(queue') = LinesIn(queue) \cup Range(stage)
        /\ stage' = <<>> /\ TakenChunks' = TakenChunks
    BY <1>5, EnqueueMoves
  <2>2. queue' = Append(queue, stage) /\ UNCHANGED atRisk
    BY <1>5 DEF EnqueueStage
  <2>3. Sound(queue', atRisk)
    BY <1>1, <2>2, Appended
  <2>4. NoRepeats(stage', atRisk) /\ Range(stage') = {}
    BY <2>1, NoLines DEF NoRepeats
  <2>5. QED
    BY <1>1, <2>1, <2>2, <2>3, <2>4 DEF ChunksInv
<1>6. CASE TakeChunk
  <2>1. /\ 1 \in DOMAIN queue /\ queue' = RemoveAt(queue, 1)
        /\ TakenChunks' = Append(TakenChunks, queue[1]) /\ queue[1] \in Chunk
    BY <1>6, TakeMoves, Parts
  <2>2. /\ LinesIn(queue) = Range(queue[1]) \cup LinesIn(queue')
        /\ NoRepeats(queue[1], atRisk) /\ Sound(queue', atRisk)
        /\ Range(queue[1]) \cap LinesIn(queue') \subseteq atRisk
    BY <1>1, <2>1, RemovedChunk
  <2>3. /\ LinesIn(TakenChunks') = LinesIn(TakenChunks) \cup Range(queue[1])
        /\ Sound(TakenChunks', atRisk)
    BY <1>1, <2>1, <2>2, Appended
  <2>4. UNCHANGED <<stage, atRisk>>
    BY <1>6 DEF TakeChunk
  <2>5. QED
    BY <1>1, <2>2, <2>3, <2>4 DEF ChunksInv
<1>7. ASSUME NEW i \in 1..FlushThreads, Acknowledge(i) PROVE ChunksInv'
  BY <1>1, <1>7, AcknowledgeMoves DEF Acknowledge, ChunksInv
<1>8. ASSUME NEW i \in 1..FlushThreads, PurgeChunk(i) PROVE ChunksInv'
  <2>1. i \in DOMAIN sending /\ UNCHANGED <<stage, queue, atRisk>>
    BY <1>8 DEF PurgeChunk
  <2>2. TakenChunks' = RemoveAt(TakenChunks, i) /\ i \in DOMAIN TakenChunks
    BY <1>8, <2>1, PurgeMoves, TakenAt
  <2>3. LinesIn(TakenChunks') \subseteq LinesIn(TakenChunks) /\ Sound(TakenChunks', atRisk)
    BY <1>1, <2>2, RemovedChunk
  <2>4. QED
    BY <1>1, <2>1, <2>3 DEF ChunksInv
<1>9. ASSUME NEW i \in 1..FlushThreads, FlushFails(i) PROVE ChunksInv'
  <2> DEFINE c == sending[i].chunk
  <2>1. /\ i \in DOMAIN sending /\ UNCHANGED stage
        /\ atRisk' = atRisk \cup Range(c)
    BY <1>9 DEF FlushFails
  <2>2. c \in Chunk /\ i \in DOMAIN TakenChunks /\ TakenChunks[i] = c
    BY <2>1, Parts, TakenAt
  <2>3. /\ TakenChunks' = RemoveAt(TakenChunks, i) /\ queue' = <<c>> \o queue
        /\ LinesIn(queue') = Range(c) \cup LinesIn(queue)
        /\ LinesIn(TakenChunks) = Range(c) \cup LinesIn(TakenChunks')
    BY <1>9, <2>1, FailMoves
  <2>4. NoRepeats(c, atRisk') /\ NoRepeats(stage', atRisk')
    <3>1. \A j \in DOMAIN c : c[j] \in atRisk'
      BY <2>1 DEF Range
    <3>2. QED
      BY <1>1, <2>1, <3>1 DEF NoRepeats
  <2>5. Sound(queue, atRisk') /\ Sound(TakenChunks, atRisk')
    BY <1>1, <2>1, Grows
  <2>6. Sound(queue', atRisk')
    <3>1. /\ <<c>> \in Seq(Chunk) /\ LinesIn(<<c>>) = Range(c)
          /\ Sound(<<c>>, atRisk')
      BY <2>2, <2>4, OneChunk
    <3>2. LinesIn(<<c>>) \cap LinesIn(queue) \subseteq atRisk'
      BY <2>1, <3>1
    <3>3. QED
      BY <1>1, <2>3, <2>5, <3>1, <3>2, Joined
  <2>7. Sound(TakenChunks', atRisk')
    BY <1>1, <2>2, <2>3, <2>5, RemovedChunk
  <2>8. QED
    BY <1>1, <2>1, <2>3, <2>4, <2>6, <2>7 DEF ChunksInv
<1>10. CASE CrashAgent
  <2>1. /\ queue' = TakenChunks \o queue /\ TakenChunks' = <<>>
        /\ LinesIn(queue') = LinesIn(TakenChunks) \cup LinesIn(queue)
    BY <1>10, CrashMoves
  <2>2. atRisk \subseteq atRisk' /\ UNCHANGED stage
    BY <1>10 DEF CrashAgent, Die
  <2>3. Sound(queue', atRisk)
    BY <1>1, <2>1, Joined
  <2>4. Sound(TakenChunks', atRisk) /\ LinesIn(TakenChunks') = {}
    BY <2>1, NoLines DEF Sound
  <2>5. /\ Sound(queue', atRisk') /\ Sound(TakenChunks', atRisk')
        /\ NoRepeats(stage', atRisk')
    BY <1>1, <2>2, <2>3, <2>4, Grows
  <2>6. QED
    BY <1>1, <2>1, <2>2, <2>4, <2>5 DEF ChunksInv
<1>11. QED
  BY <1>3, <1>4, <1>5, <1>6, <1>7, <1>8, <1>9, <1>10 DEF Next, Agent, Flush

-----------------------------------------------------------------------------
(* It is in Kafka at most once.                                            *)

LEMMA OnceKept ==
    ASSUME TypeInv, ChunksInv, OnceInv, [Next]_vars
    PROVE  OnceInv'
<1> USE DEF OnceInv
<1>1. tail \in Nat /\ saved \in Nat /\ saved <= tail
  <2>1. Len(file) \in Nat
    BY DEF TypeInv
  <2>2. QED
    BY <2>1 DEF TypeInv
<1>2. CASE Replay \/ RestartReplay \/ StartAgent \/ SavePosition \/ UNCHANGED vars
  <2>1. UNCHANGED <<tail, stage, queue, sending, topic, atRisk>>
    BY <1>2 DEF Replay, RestartReplay, StartAgent, SavePosition, vars, tailVars, bufferVars
  <2>2. QED
    BY <2>1, BufferSame DEF bufferVars
<1>3. CASE EmitLine
  <2>1. PICK q \in Position : q = tail'
    BY <1>3, EmitTo
  <2>2. UNCHANGED <<topic, atRisk, sending>> /\ q = tail + 1
    BY <1>3, <2>1, EmitTo
  <2>3. /\ Buffered' \subseteq Buffered \cup {q}
        /\ Range(stage') \cup LinesIn(queue') \subseteq Range(stage) \cup LinesIn(queue) \cup {q}
    <3>1. CASE UNCHANGED bufferVars
      BY <3>1, BufferSame DEF bufferVars
    <3>2. CASE Stage(q)
      BY <3>2, StageMoves
    <3>3. QED
      BY <1>3, <2>1, <3>1, <3>2, EmitTo
  <2>4. TAKE p \in Position \ atRisk'
  <2>5. p > tail' => p > tail /\ p # q
    BY <1>1, <2>1, <2>2 DEF Position
  <2>6. q > tail
    BY <1>1, <2>2
  <2>7. QED
    BY <2>1, <2>2, <2>3, <2>5, <2>6
<1>4. CASE EnqueueStage
  <2>1. /\ LinesIn(queue') = LinesIn(queue) \cup Range(stage)
        /\ stage' = <<>> /\ Buffered' = Buffered
    BY <1>4, EnqueueMoves
  <2>2. UNCHANGED <<sending, tail, topic, atRisk>>
    BY <1>4 DEF EnqueueStage, tailVars
  <2>3. QED
    BY <2>1, <2>2, NoLines
<1>5. CASE TakeChunk
  <2>1. 1 \in DOMAIN queue /\ queue' = RemoveAt(queue, 1) /\ Buffered' = Buffered
    BY <1>5, TakeMoves
  <2>2. LinesIn(queue) = Range(queue[1]) \cup LinesIn(queue')
    BY <2>1, RemovedChunk DEF TypeInv
  <2>3. UNCHANGED <<stage, tail, topic, atRisk>>
    BY <1>5 DEF TakeChunk, tailVars
  <2>4. QED
    BY <1>5, <2>1, <2>2, <2>3, MoreHeld
<1>6. ASSUME NEW i \in 1..FlushThreads, Acknowledge(i) PROVE OnceInv'
  <2> DEFINE c == sending[i].chunk
  <2>1. /\ i \in DOMAIN sending /\ ~sending[i].acked /\ Produce(c, DOMAIN c)
        /\ UNCHANGED <<stage, queue, tail, atRisk>>
    BY <1>6 DEF Acknowledge, tailVars
  <2>2. c \in Chunk /\ TakenChunks[i] = c /\ i \in DOMAIN TakenChunks
    BY <2>1, Parts, TakenAt
  <2>3. NoRepeats(c, atRisk)
    BY <2>2 DEF ChunksInv, Sound
  <2>4. /\ topic \in [Position -> Nat] /\ topic' \in [Position -> Nat]
        /\ \A p \in Position : p \notin Range(c) => topic'[p] = topic[p]
        /\ \A p \in Position \ atRisk : topic'[p] <= topic[p] + 1
    BY <2>1, <2>2, <2>3, ProduceCounts DEF TypeInv
  <2>5. /\ DOMAIN sending' = DOMAIN sending /\ Buffered' = Buffered
        /\ \A j \in DOMAIN sending : /\ sending'[j].chunk = sending[j].chunk
                                     /\ j # i => sending'[j] = sending[j]
        /\ sending'[i].acked
    BY <1>6, <2>1, AcknowledgeMoves
  <2>6. ASSUME NEW p \in Position \ atRisk, p \in Range(c)
        PROVE  /\ topic[p] = 0 /\ p \in Buffered
               /\ p \notin Range(stage) \cup LinesIn(queue)
               /\ \A j \in DOMAIN sending : p \in Range(sending[j].chunk) => j = i
    <3>1. topic[p] = 0
      BY <2>1, <2>6
    <3>2. p \in LinesIn(TakenChunks)
      BY <2>2, <2>6 DEF LinesIn
    <3>3. \A j \in DOMAIN sending : j \in DOMAIN TakenChunks /\ TakenChunks[j] = sending[j].chunk
      BY TakenAt
    <3>4. \A j \in DOMAIN sending : p \in Range(sending[j].chunk) => j = i
      BY <2>2, <2>6, <3>3 DEF ChunksInv, Sound
    <3>5. QED
      BY <2>6, <3>1, <3>2, <3>4 DEF ChunksInv, Buffered
  <2> HIDE DEF c
  <2>7. TAKE p \in Position \ atRisk'
  <2>8. p \in Position \ atRisk /\ topic[p] \in Nat /\ topic'[p] \in Nat
    BY <2>1, <2>4
  <2>9. CASE p \in Range(c)
    <3>1. topic'[p] <= 1
      BY <2>4, <2>6, <2>8, <2>9
    <3>2. p \notin Range(stage') \cup LinesIn(queue')
      BY <2>1, <2>6, <2>8, <2>9
    <3>3. \A j \in DOMAIN sending' : ~(~sending'[j].acked /\ p \in Range(sending'[j].chunk))
      BY <2>5, <2>6, <2>8, <2>9
    <3>4. ~(p > tail')
      BY <2>1, <2>6, <2>8, <2>9
    <3>5. QED
      BY <3>1, <3>2, <3>3, <3>4
  <2>10. CASE p \notin Range(c)
    <3>1. topic'[p] = topic[p]
      BY <2>4, <2>8, <2>10
    <3>2. \A j \in DOMAIN sending' : ~sending'[j].acked =>
             j \in DOMAIN sending /\ sending'[j] = sending[j]
      BY <2>5
    <3>3. QED
      BY <2>1, <2>5, <2>8, <3>1, <3>2
  <2>11. QED
    BY <2>9, <2>10
<1>7. ASSUME NEW i \in 1..FlushThreads, PurgeChunk(i) PROVE OnceInv'
  <2>1. /\ i \in DOMAIN sending /\ sending' = RemoveAt(sending, i)
        /\ UNCHANGED <<stage, queue, topic, tail, atRisk>>
    BY <1>7 DEF PurgeChunk, tailVars
  <2>2. Buffered' \subseteq Buffered
    BY <1>7, <2>1, PurgeMoves
  <2>3. \A j \in DOMAIN sending' : \E k \in DOMAIN sending : sending'[j] = sending[k]
    BY <2>1, RestHeld
  <2>4. QED
    BY <2>1, <2>2, <2>3
<1>8. ASSUME NEW i \in 1..FlushThreads, FlushFails(i) PROVE OnceInv'
  <2> DEFINE c == sending[i].chunk
  <2>1. /\ i \in DOMAIN sending /\ sending' = RemoveAt(sending, i)
        /\ UNCHANGED <<stage, tail>> /\ atRisk' = atRisk \cup Range(c)
    BY <1>8 DEF FlushFails, tailVars
  <2>2. PICK some \in SUBSET DOMAIN c : Produce(c, some)
    BY <1>8 DEF FlushFails
  <2>3. \A p \in Position : p \notin Range(c) => topic'[p] = topic[p]
    BY <2>1, <2>2, Parts, ProduceCounts
  <2>4. LinesIn(queue') = Range(c) \cup LinesIn(queue) /\ Buffered' = Buffered
    BY <1>8, <2>1, FailMoves
  <2>5. \A j \in DOMAIN sending' : \E k \in DOMAIN sending : sending'[j] = sending[k]
    BY <2>1, RestHeld
  <2> HIDE DEF c
  <2>6. QED
    BY <2>1, <2>3, <2>4, <2>5
<1>9. CASE CrashAgent
  <2>1. /\ tail' = saved /\ sending' = <<>> /\ UNCHANGED <<stage, topic>>
        /\ atRisk' = atRisk \cup LinesIn(TakenChunks) \cup (saved + 1 .. tail)
    BY <1>9 DEF CrashAgent, Die
  <2>2. LinesIn(queue') = LinesIn(TakenChunks) \cup LinesIn(queue) /\ Buffered' = Buffered
    BY <1>9, CrashMoves
  <2>3. TAKE p \in Position \ atRisk'
  <2>4. p \in Position \ atRisk /\ p \notin LinesIn(TakenChunks)
    BY <2>1
  <2>5. p > tail' => p > tail
    <3>1. p \in Nat /\ p \notin saved + 1 .. tail
      BY <2>1 DEF Position
    <3>2. QED
      BY <1>1, <2>1, <3>1
  <2>6. QED
    BY <2>1, <2>2, <2>4, <2>5
<1>10. QED
  BY <1>2, <1>3, <1>4, <1>5, <1>6, <1>7, <1>8, <1>9 DEF Next, Agent, Flush

-----------------------------------------------------------------------------
(* The theorems.                                                           *)

LEMMA InitHolds == ASSUME Init PROVE IInv
<1>1. DOMAIN sending = {} /\ Range(stage) = {} /\ LinesIn(queue) = {} /\ TakenChunks = <<>>
  BY NoLines DEF Init, TakenChunks
<1>2. TypeInv
  <2>1. Len(<<>>) = 0 /\ <<>> \in Seq(Nat) /\ <<>> \in Seq(Chunk) /\ <<>> \in Seq(Taken)
    OBVIOUS
  <2>2. topic \in [Position -> Nat]
    BY DEF Init
  <2>3. up \in BOOLEAN
    BY DEF Init
  <2>4. QED
    BY <2>1, <2>2, <2>3, LinesType, NoLines, SizeAssumption DEF Init, TypeInv
<1>3. LinesIn(TakenChunks) = {}
  BY <1>1, NoLines
<1>4. HeldInv
  BY <1>1 DEF Init, HeldInv
<1>5. ChunksInv
  BY <1>1, <1>3 DEF Init, ChunksInv, NoRepeats, Sound
<1>6. OnceInv
  BY <1>1, <1>3 DEF Init, OnceInv, Buffered
<1>7. QED
  BY <1>2, <1>4, <1>5, <1>6 DEF IInv

LEMMA NextKeeps == ASSUME IInv, [Next]_vars PROVE IInv'
BY TypeKept, HeldKept, ChunksKept, OnceKept DEF IInv

\* What is on disk, in the flush threads' hands and in Kafka fits together in every
\* reachable state of the agent.
THEOREM Invariance == Spec => []IInv
BY InitHolds, NextKeeps, PTL DEF Spec

\* For any dataset, buffer, number of flush threads, crashes and failures: the agent
\* produces a line twice only if a kill or a failed flush met it in between.
THEOREM DuplicatesExplained == Spec => []DuplicatesOnlyAtRisk
<1>1. ASSUME IInv PROVE DuplicatesOnlyAtRisk
  <2>1. ASSUME NEW p \in Position \ atRisk PROVE ~(topic[p] > 1)
    <3>1. topic[p] <= 1 /\ topic[p] \in Nat
      BY <1>1 DEF IInv, OnceInv, TypeInv
    <3>2. QED
      BY <3>1
  <2>2. QED
    BY <2>1 DEF DuplicatesOnlyAtRisk
<1>2. QED
  BY <1>1, Invariance, PTL

-----------------------------------------------------------------------------
(* Every step is a step of ReliableHandoff, or none.                       *)

Refused == {p \in DOMAIN file : ~Matches(p)}

LEMMA Delivers ==
    ASSUME TypeInv, NEW i \in DOMAIN sending, NEW S \in SUBSET DOMAIN sending[i].chunk,
           Produce(sending[i].chunk, S)
    PROVE  \E sent \in SUBSET Buffered : Produced' = Produced \cup sent
<1> DEFINE c == sending[i].chunk
<1>1. c \in Chunk /\ TakenChunks[i] = c /\ i \in DOMAIN TakenChunks
  BY Parts, TakenAt
<1>2. Range(c) \subseteq Buffered
  BY <1>1 DEF LinesIn, Buffered
<1>3. /\ topic \in [Position -> Nat] /\ topic' \in [Position -> Nat]
      /\ \A p \in Position : topic[p] <= topic'[p]
      /\ \A p \in Position : p \notin Range(c) => topic'[p] = topic[p]
  BY <1>1, ProduceCounts DEF TypeInv
<1> HIDE DEF c
<1>4. Produced \subseteq Produced' /\ Produced' \ Produced \subseteq Range(c)
  BY <1>3 DEF Produced
<1>5. Produced' = Produced \cup (Produced' \ Produced)
  BY <1>4
<1>6. QED
  BY <1>2, <1>4, <1>5

LEMMA StepImplements == ASSUME IInv, [Next]_vars PROVE [Handoff!Next]_(Handoff!vars)
<1> USE DEF Refused
<1>1. /\ TypeInv /\ HeldInv /\ tail \in Nat /\ saved \in Nat /\ saved <= tail
      /\ tail <= Len(file) /\ DOMAIN file = 1..Len(file) /\ Len(file) \in Nat
  <2>1. file \in Seq(Nat) /\ TypeInv /\ HeldInv
    BY DEF IInv, TypeInv
  <2>2. QED
    BY <2>1 DEF TypeInv
<1>2. ASSUME UNCHANGED file PROVE UNCHANGED <<DOMAIN file, Refused>>
  BY <1>2 DEF Matches
<1>3. ASSUME UNCHANGED topic PROVE Produced' = Produced
  BY <1>3 DEF Produced
<1>4. ASSUME UNCHANGED <<file, Buffered, topic, saved>> PROVE UNCHANGED Handoff!vars
  BY <1>2, <1>3, <1>4 DEF Handoff!vars
<1>5. CASE Replay
  <2> DEFINE new == DOMAIN file' \ DOMAIN file
             bad == {p \in new : ~Matches(p)'}
  <2>1. new \subseteq Position \ DOMAIN file /\ DOMAIN file' = DOMAIN file \cup new
    BY <1>1, <1>5, ReplayKeeps
  <2>2. \A p \in DOMAIN file : Matches(p)' = Matches(p)
    BY <1>1, <1>5, ReplayKeeps
  <2>3. Refused' = Refused \cup bad
    BY <2>1, <2>2
  <2>4. Buffered' = Buffered /\ Produced' = Produced /\ UNCHANGED saved
    BY <1>1, <1>3, <1>5, ReplayKeeps, BufferSame DEF tailVars
  <2>5. bad \subseteq new
    OBVIOUS
  <2> HIDE DEF new, bad
  <2>6. Handoff!Write
    BY <2>1, <2>3, <2>4, <2>5 DEF Handoff!Write
  <2>7. QED
    BY <2>6 DEF Handoff!Next
<1>6. CASE RestartReplay \/ StartAgent \/ UNCHANGED vars
  BY <1>4, <1>6, BufferSame
  DEF RestartReplay, StartAgent, vars, tailVars, fileVars
<1>7. CASE EmitLine
  <2>1. PICK l \in Position : l = tail'
    BY <1>1, <1>7, EmitTo
  <2>2. UNCHANGED <<file, topic, saved>> /\ l \in DOMAIN file /\ l = tail + 1
    BY <1>1, <1>7, <2>1, EmitTo
  <2>3. CASE ~Matches(l) /\ UNCHANGED bufferVars
    BY <1>4, <2>2, <2>3, BufferSame
  <2>4. CASE Matches(l) /\ Stage(l)
    <3>1. Buffered' = Buffered \cup {l}
      BY <1>1, <2>4, StageMoves
    <3>2. l \notin 1..saved \cup Refused
      BY <1>1, <2>2, <2>4
    <3>3. UNCHANGED <<DOMAIN file, Refused, Produced, saved>>
      BY <1>2, <1>3, <2>2
    <3>4. Handoff!Take
      BY <2>2, <3>1, <3>2, <3>3 DEF Handoff!Take
    <3>5. QED
      BY <3>4 DEF Handoff!Next
  <2>5. QED
    BY <1>1, <1>7, <2>1, <2>3, <2>4, EmitTo
<1>8. CASE SavePosition
  <2> DEFINE safe == 1..tail
  <2>1. saved' = tail /\ UNCHANGED <<file, topic>> /\ Buffered' = Buffered
    BY <1>8, BufferSame DEF SavePosition, fileVars
  <2>2. safe \subseteq Buffered \cup Produced \cup Refused
    <3>1. \A p \in 1..tail : p \in DOMAIN file
      BY <1>1
    <3>2. QED
      BY <1>1, <3>1 DEF HeldInv
  <2>3. 1..saved' = 1..saved \cup safe
    BY <1>1, <2>1
  <2> HIDE DEF safe
  <2>4. UNCHANGED <<DOMAIN file, Refused, Produced>>
    BY <1>2, <1>3, <2>1
  <2>5. Handoff!Forget
    BY <2>1, <2>2, <2>3, <2>4 DEF Handoff!Forget
  <2>6. QED
    BY <2>5 DEF Handoff!Next
<1>9. CASE EnqueueStage
  BY <1>1, <1>4, <1>9, EnqueueMoves DEF EnqueueStage, fileVars, tailVars
<1>10. CASE TakeChunk
  BY <1>1, <1>4, <1>10, TakeMoves DEF TakeChunk, fileVars, tailVars
<1>11. ASSUME NEW i \in 1..FlushThreads, Acknowledge(i) \/ FlushFails(i)
       PROVE  Handoff!Deliver
  <2>1. i \in DOMAIN sending /\ UNCHANGED <<file, saved>>
    BY <1>11 DEF Acknowledge, FlushFails, fileVars, tailVars
  <2>2. \E S \in SUBSET DOMAIN sending[i].chunk : Produce(sending[i].chunk, S)
    BY <1>11 DEF Acknowledge, FlushFails
  <2>3. \E sent \in SUBSET Buffered : Produced' = Produced \cup sent
    BY <1>1, <2>1, <2>2, Delivers
  <2>4. Buffered' = Buffered
    BY <1>1, <1>11, <2>1, AcknowledgeMoves, FailMoves
  <2>5. UNCHANGED <<DOMAIN file, Refused>>
    BY <1>2, <2>1
  <2>6. QED
    BY <2>1, <2>3, <2>4, <2>5 DEF Handoff!Deliver
<1>12. ASSUME NEW i \in 1..FlushThreads, PurgeChunk(i) PROVE Handoff!Release
  <2> DEFINE sent == Buffered \ Buffered'
  <2>1. /\ i \in DOMAIN sending /\ sending[i].acked
        /\ UNCHANGED <<file, saved, topic>>
    BY <1>12 DEF PurgeChunk, fileVars, tailVars
  <2>2. Buffered = Buffered' \cup Range(sending[i].chunk)
    BY <1>1, <1>12, <2>1, PurgeMoves
  <2>3. Range(sending[i].chunk) \subseteq Produced
    BY <1>1, <2>1 DEF HeldInv
  <2>4. sent \subseteq Buffered \cap Produced /\ Buffered' = Buffered \ sent
    BY <2>2, <2>3
  <2> HIDE DEF sent
  <2>5. UNCHANGED <<DOMAIN file, Refused, Produced>>
    BY <1>2, <1>3, <2>1
  <2>6. QED
    BY <2>1, <2>4, <2>5 DEF Handoff!Release
<1>13. CASE CrashAgent
  BY <1>1, <1>4, <1>13, CrashMoves DEF CrashAgent, Die, fileVars
<1>14. QED
  BY <1>5, <1>6, <1>7, <1>8, <1>9, <1>10, <1>11, <1>12, <1>13
  DEF Next, Agent, Flush, Handoff!Next

\* The agent, its crashes included, is a reliable hand-over: it releases a chunk only
\* when Kafka has it and forgets a line only when it is on disk, in Kafka or refused.
THEOREM HandoffImplemented == Spec => ImplementsHandoff
<1>1. ASSUME Init PROVE Handoff!Init
  <2>1. Buffered = {} /\ Produced = {} /\ DOMAIN file = {} /\ 1..saved = {}
    BY <1>1, NoLines DEF Init, Buffered, Produced, LinesIn, TakenChunks
  <2>2. QED
    BY <2>1 DEF Handoff!Init
<1>2. QED
  BY <1>1, StepImplements, Invariance, PTL DEF Spec, ImplementsHandoff, Handoff!Spec

-----------------------------------------------------------------------------
(* The chaos scenario on this pipeline.                                    *)

Stopped   == "fluentd_stopped_cleanly"
Buffers   == "buffer_files_present_during_outage"
Restarted == "fluentd_restarted_cleanly"
Grown     == "kafka_offset_grew_after_recovery"

\* What each step of run() has established: an agent stopped by docker stop stays down
\* until the script starts it, a check is missing only after a failed command, and the
\* topic has not shrunk since the baseline.
RunInv ==
    /\ before \in Nat /\ before <= Total /\ faults \in Nat /\ checks \subseteq Checks
    /\ pc # "done" => Grown \notin checks
    /\ pc \in {"baseline", "stop"} => checks = {}
    /\ pc = "outage" => Stopped \in checks \/ faults > 0
    /\ pc = "outage" /\ Stopped \in checks => byHand /\ ~up
    /\ pc = "start" => {Stopped, Buffers} \subseteq checks \/ faults > 0
    /\ pc = "poll" => {Stopped, Buffers, Restarted} \subseteq checks \/ faults > 0
    /\ pc \in {"start", "poll"} /\ Stopped \in checks => downSeen

CrashInv == TypeInv /\ RunInv

LEMMA TotalType == TypeInv => IsFiniteSet(Records) /\ Total \in Nat
<1> SUFFICES ASSUME TypeInv PROVE IsFiniteSet(Records) /\ Total \in Nat
  OBVIOUS
<1> DEFINE Of(p) == {p} \X (1..topic[p])
           Pieces == {Of(p) : p \in Position}
<1>1. IsFiniteSet(Position)
  <2>1. 1 \in Int /\ MaxFile \in Int
    BY SizeAssumption
  <2>2. QED
    BY <2>1, FS_Interval DEF Position
<1>2. IsFiniteSet(Pieces)
  <2> DEFINE g == [p \in Position |-> Of(p)]
  <2> HIDE DEF Of
  <2>1. g \in Surjection(Position, Pieces)
    BY DEF Surjection
  <2> HIDE DEF g, Pieces
  <2>2. QED
    BY <1>1, <2>1, FS_Surjection
<1>3. ASSUME NEW p \in Position PROVE IsFiniteSet(Of(p))
  <2>1. 1 \in Int /\ topic[p] \in Int
    BY DEF TypeInv
  <2>2. IsFiniteSet(1..topic[p]) /\ IsFiniteSet({p})
    BY <2>1, FS_Interval, FS_Singleton
  <2>3. QED
    BY <2>2, FS_Product
<1>4. \A s \in Pieces : IsFiniteSet(s)
  <2> HIDE DEF Of
  <2>1. QED
    BY <1>3
<1>5. IsFiniteSet(UNION Pieces)
  <2> HIDE DEF Pieces
  <2>1. QED
    BY <1>2, <1>4, FS_UNION
<1>6. Records = UNION Pieces
  BY DEF Records
<1>7. QED
  BY <1>5, <1>6, FS_CardinalityType DEF Total

LEMMA TotalTypeNext == TypeInv' => (IsFiniteSet(Records) /\ Total \in Nat)'
BY TotalType, PTL

\* The end offset of a topic never goes back.
LEMMA TotalGrows ==
    ASSUME TypeInv, TypeInv', \A p \in Position : topic[p] <= topic'[p]
    PROVE  Total <= Total'
<1>1. IsFiniteSet(Records')
  BY TotalTypeNext
<1>2. Records \subseteq Records'
  <2>1. ASSUME NEW p \in Position PROVE 1..topic[p] \subseteq 1..topic'[p]
    <3>1. topic[p] \in Nat /\ topic'[p] \in Nat /\ topic[p] <= topic'[p]
      BY DEF TypeInv
    <3>2. QED
      BY <3>1
  <2>2. ASSUME NEW r \in Records PROVE r \in Records'
    <3>1. PICK p \in Position : r \in {p} \X (1..topic[p])
      BY DEF Records
    <3>2. r \in {p} \X (1..topic'[p])
      BY <2>1, <3>1
    <3>3. QED
      BY <3>2 DEF Records
  <2>3. QED
    BY <2>2
<1>3. QED
  BY <1>1, <1>2, FS_Subset DEF Total

\* Producing adds records to the topic, and no other step touches it.
LEMMA TopicStep ==
    ASSUME TypeInv, [Next]_vars \/ UNCHANGED topic
    PROVE  \A p \in Position : topic[p] <= topic'[p]
<1>1. topic \in [Position -> Nat]
  BY DEF TypeInv
<1>2. CASE UNCHANGED topic
  BY <1>1, <1>2
<1>3. ASSUME NEW i \in 1..FlushThreads, Acknowledge(i) \/ FlushFails(i)
      PROVE  \A p \in Position : topic[p] <= topic'[p]
  <2>1. i \in DOMAIN sending
    BY <1>3 DEF Acknowledge, FlushFails
  <2>2. sending[i].chunk \in Chunk
    BY <2>1, Parts
  <2>3. \E some \in SUBSET DOMAIN sending[i].chunk : Produce(sending[i].chunk, some)
    BY <1>3 DEF Acknowledge, FlushFails
  <2>4. QED
    BY <2>2, <2>3, ProduceCounts
<1>4. CASE Replay \/ RestartReplay \/ EmitLine \/ SavePosition
  BY <1>2, <1>4 DEF Replay, RestartReplay, EmitLine, SavePosition
<1>5. CASE EnqueueStage \/ TakeChunk \/ \E i \in 1..FlushThreads : PurgeChunk(i)
  BY <1>2, <1>5 DEF EnqueueStage, TakeChunk, PurgeChunk
<1>6. CASE CrashAgent \/ StartAgent \/ UNCHANGED vars
  BY <1>2, <1>6 DEF CrashAgent, Die, StartAgent, vars
<1>7. QED
  BY <1>2, <1>3, <1>4, <1>5, <1>6 DEF Next, Agent, Flush

\* What a step of the scenario does to the pipeline.
LEMMA ScenarioTypes ==
    ASSUME TypeInv, [ScenarioNext]_allVars
    PROVE  TypeInv' /\ Total \in Nat /\ Total' \in Nat /\ Total <= Total'
<1>1. [Next]_vars \/ (Die /\ UNCHANGED ncrashes)
  <2>1. CASE Pipeline
    BY <2>1 DEF Pipeline, Next
  <2>2. CASE Script
    BY <2>2 DEF Script, ReadBaseline, StopAgent, EndOutage, StartByHand, PollGrown,
                PollTimesOut, Next
  <2>3. QED
    BY <2>1, <2>2 DEF ScenarioNext, allVars
<1>2. TypeInv'
  <2>1. Die /\ UNCHANGED ncrashes => TypeInv'
    BY DieType DEF TypeInv
  <2>2. QED
    BY <1>1, <2>1, TypeKept
<1>3. \A p \in Position : topic[p] <= topic'[p]
  BY <1>1, TopicStep DEF Die
<1>4. QED
  BY <1>2, <1>3, TotalType, TotalTypeNext, TotalGrows

\* While the container is stopped by hand, no step but the script's starts the agent.
LEMMA PipelineKeepsRunInv ==
    ASSUME CrashInv, Pipeline
    PROVE  RunInv'
<1>1. Total \in Nat /\ Total' \in Nat /\ Total <= Total'
  BY ScenarioTypes DEF CrashInv, ScenarioNext
<1>2. byHand /\ ~up => ~up'
  BY DEF Pipeline, Replay, Agent, EmitLine, SavePosition, EnqueueStage, Flush, TakeChunk,
         Acknowledge, PurgeChunk, CrashAgent, Die, FlushFails, StartAgent, tailVars
<1>3. UNCHANGED scriptVars
  BY DEF Pipeline
<1>4. QED
  BY <1>1, <1>2, <1>3 DEF CrashInv, RunInv, scriptVars

LEMMA ScriptKeepsRunInv ==
    ASSUME CrashInv, Script
    PROVE  RunInv'
<1>1. Total \in Nat /\ Total' \in Nat /\ Total <= Total'
  BY ScenarioTypes DEF CrashInv, ScenarioNext
<1> USE DEF CrashInv, RunInv, Stopped, Buffers, Restarted, Grown, Check, Fault
<1>2. CASE ReadBaseline
  <2>1. UNCHANGED vars => Total' = Total
    BY DEF vars, Total, Records
  <2>2. checks' = {} /\ before' \in Nat /\ faults' \in Nat /\ pc' \in {"stop", "done"}
    BY <1>1, <1>2 DEF ReadBaseline
  <2>3. before' <= Total'
    BY <1>1, <1>2, <2>1 DEF ReadBaseline
  <2>4. QED
    BY <2>2, <2>3
<1>3. CASE StopAgent
  <2>1. pc' = "outage" /\ before' = before /\ before <= Total /\ faults' \in Nat
    BY <1>3 DEF StopAgent
  <2>2. checks = {}
    BY <1>3 DEF StopAgent
  <2>3. \/ checks' = {Stopped} /\ byHand' /\ ~up'
        \/ checks' = {} /\ faults' > 0
    BY <1>3, <2>2 DEF StopAgent, Die, vars, tailVars, TypeInv
  <2>4. QED
    BY <1>1, <2>1, <2>3 DEF Checks
<1>4. CASE EndOutage
  <2>1. /\ pc = "outage" /\ pc' = "start" /\ before' = before /\ before <= Total
        /\ faults' = faults /\ checks' = checks \cup {Buffers} /\ downSeen' = ~up
    BY <1>4 DEF EndOutage
  <2>2. Stopped \in checks' => Stopped \in checks /\ downSeen'
    BY <2>1
  <2>3. {Stopped, Buffers} \subseteq checks' \/ faults' > 0
    BY <2>1
  <2>4. checks' \subseteq Checks /\ Grown \notin checks'
    BY <2>1 DEF Checks
  <2>5. QED
    BY <1>1, <2>1, <2>2, <2>3, <2>4
<1>5. CASE StartByHand
  <2>1. /\ pc = "start" /\ pc' = "poll" /\ before' = before /\ before <= Total
        /\ downSeen' = downSeen /\ faults' \in Nat
    BY <1>5 DEF StartByHand
  <2>2. \/ checks' = checks \cup {Restarted} /\ faults' = faults
        \/ checks' = checks /\ faults' > 0
    BY <1>5 DEF StartByHand
  <2>3. checks' \subseteq Checks /\ Grown \notin checks'
    BY <2>1, <2>2 DEF Checks
  <2>4. Stopped \in checks' => downSeen'
    BY <2>1, <2>2
  <2>5. {Stopped, Buffers, Restarted} \subseteq checks' \/ faults' > 0
    BY <2>1, <2>2
  <2>6. QED
    BY <1>1, <2>1, <2>3, <2>4, <2>5
<1>6. CASE PollGrown
  BY <1>1, <1>6 DEF PollGrown, Checks
<1>7. CASE PollTimesOut
  BY <1>1, <1>7 DEF PollTimesOut
<1>8. QED
  BY <1>2, <1>3, <1>4, <1>5, <1>6, <1>7 DEF Script

\* The script and the pipeline fit together: what run() has checked so far says where
\* the agent is and how many commands failed.
THEOREM ScenarioInvariance == ScenarioSpec => []CrashInv
<1>1. ScenarioInit => CrashInv
  <2> SUFFICES ASSUME ScenarioInit PROVE CrashInv
    OBVIOUS
  <2>1. TypeInv
    BY InitHolds DEF ScenarioInit, IInv
  <2>2. RunInv
    BY <2>1, TotalType DEF ScenarioInit, RunInv
  <2>3. QED
    BY <2>1, <2>2 DEF CrashInv
<1>2. CrashInv /\ [ScenarioNext]_allVars => CrashInv'
  <2> SUFFICES ASSUME CrashInv, [ScenarioNext]_allVars PROVE CrashInv'
    OBVIOUS
  <2>1. TypeInv'
    BY ScenarioTypes DEF CrashInv
  <2>2. CASE UNCHANGED allVars
    BY <2>2 DEF allVars, scriptVars, vars, tailVars, CrashInv, RunInv, Total, Records, TypeInv,
                fileVars, bufferVars
  <2>3. QED
    BY <2>1, <2>2, PipelineKeepsRunInv, ScriptKeepsRunInv DEF CrashInv, ScenarioNext
<1>3. QED
  BY <1>1, <1>2, PTL DEF ScenarioSpec

\* fluentd_crash.py passes only after an outage in which the agent was down and lines
\* were produced, and fails only for a failed command or a topic that did not grow, however
\* the agent crashes and Docker restarts it beside the script.
THEOREM FluentdVerdictHolds == ScenarioSpec => FluentdVerdict
<1>1. ASSUME CrashInv, [ScenarioNext]_allVars, pc = "poll", pc' = "done"
      PROVE  IF checks' = Checks THEN downSeen /\ Total > before
                                 ELSE faults' > 0 \/ Total = before
  <2>1. Total \in Nat /\ before \in Nat /\ before <= Total
    BY <1>1, ScenarioTypes DEF CrashInv, RunInv
  <2>2. PollGrown \/ PollTimesOut
    BY <1>1 DEF ScenarioNext, Pipeline, Script, ReadBaseline, StopAgent, EndOutage,
                StartByHand, allVars, scriptVars
  <2> USE DEF CrashInv, RunInv, Checks, Stopped, Buffers, Restarted, Grown, Check, Fault, Grew
  <2>3. CASE PollGrown
    <3>1. checks' = checks \cup {Grown} /\ faults' = faults /\ Total > before
      BY <2>3 DEF PollGrown
    <3>2. {Stopped, Buffers, Restarted} \subseteq checks \/ faults > 0
      BY <1>1
    <3>3. checks' = Checks => Stopped \in checks
      BY <3>1
    <3>4. {Stopped, Buffers, Restarted} \subseteq checks => checks' = Checks
      BY <1>1, <3>1
    <3>5. QED
      BY <1>1, <3>1, <3>2, <3>3, <3>4
  <2>4. CASE PollTimesOut
    BY <1>1, <2>1, <2>4 DEF PollTimesOut
  <2>5. QED
    BY <2>2, <2>3, <2>4
<1>2. QED
  BY <1>1, ScenarioInvariance, PTL DEF ScenarioSpec, FluentdVerdict

=============================================================================
