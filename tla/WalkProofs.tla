----------------------------- MODULE WalkProofs -----------------------------
(***************************************************************************)
(* Theorems about the walk of a list and about what the list finds: for    *)
(* every schema, data and reverse analysis the walk misses nothing within  *)
(* MaxDepth + 1 steps of its subject; and where the walk follows all that  *)
(* the schema may grant through, a list is the page of exactly the objects *)
(* that are allowed.                                                       *)
(***************************************************************************)
EXTENDS ReverseMeaning, ListProofs, WellFoundedInduction

----------------------------------------------------------------------------
(* The invariant.  The queue holds what a breadth-first search holds, with *)
(* two twists.  What inherits from a relation is queued together with it,  *)
(* one level above its own step, and a relation that is met again is not   *)
(* followed again.                                                         *)

IsKey(k) == k = RelationKey(k.object, k.relation)

UsersetOf(k) == Userset(k.object, k.relation)

Reached(world, l, n) == Within(world, l.request.subject, n)

Queued(l, source, depth) ==
    \E i \in DOMAIN l.frontier : l.frontier[i] = Item(source, depth)

(* What the tuples of a source give is seen, or is about to be.            *)
Followed(world, l, source) ==
    \A t \in world : t.subject = source =>
      GivenBy(world, t) \subseteq l.seen \/ Holding(l.tuples, t)

(* The queue holds at most two levels, in order.                           *)
InLevels(l) ==
    /\ \A i \in DOMAIN l.frontier : l.frontier[i].depth \in {l.depth, l.depth + 1}
    /\ \A i, j \in DOMAIN l.frontier : i < j => l.frontier[i].depth <= l.frontier[j].depth

(* What waits on the next level was not within reach of this one.          *)
NewBelow(world, l) ==
    \A i \in DOMAIN l.frontier : l.frontier[i].depth = l.depth + 1 =>
      \A k \in Reached(world, l, l.depth) : l.frontier[i].subject # UsersetOf(k)

(* The subject, and all that was seen, is queued or has been followed.     *)
SourcesKept(world, l) ==
    /\ \/ l.depth = 0 /\ Queued(l, l.request.subject, 0)
       \/ Followed(world, l, l.request.subject)
    /\ \A k \in l.seen : \/ Queued(l, UsersetOf(k), l.depth)
                         \/ Queued(l, UsersetOf(k), l.depth + 1)
                         \/ Followed(world, l, UsersetOf(k))

(* The walk is on the level of depth.                                      *)
IsOpen(world, l) ==
    /\ InLevels(l)
    /\ NewBelow(world, l)
    /\ Reached(world, l, l.depth) \subseteq l.seen
    /\ SourcesKept(world, l)

(* All that is left in the queue is too deep.                              *)
IsExhausted(world, l) ==
    /\ l.phase = "walk"
    /\ \A i \in DOMAIN l.frontier : l.frontier[i].depth > MaxDepth
    /\ Reached(world, l, MaxDepth + 1) \subseteq l.seen

(* What a tuple gives is seen together with its relation.                  *)
SeenClosed(world, l) ==
    /\ \A k \in l.seen : IsKey(k)
    /\ \A t \in world : KeyOf(t) \in l.seen => GivenBy(world, t) \subseteq l.seen

WalkOK(world, l) ==
    /\ SeenClosed(world, l)
    /\ Proposed(l.request, l.seen) \subseteq l.candidates
    /\ \A i \in DOMAIN l.tuples : l.tuples[i] \in world
    /\ \A k \in l.seen : k.object \in NamedIn(world)
    /\ l.candidates \subseteq NamedIn(world)
    /\ l.phase = "walk" => l.tuples = << >>
    /\ IsOpen(world, l) \/ IsExhausted(world, l)

WalkDone(world, l) ==
    /\ Proposed(l.request, Reached(world, l, MaxDepth + 1)) \subseteq l.candidates
    /\ l.candidates \subseteq NamedIn(world)

WalkFaithful(world, l) ==
    /\ l.phase \in {"idle", "head"} =>
         l.seen = {} /\ l.candidates = {} /\ l.depth = 0 /\ l.tuples = << >>
    /\ l.phase \in {"walk", "visit"} => WalkOK(world, l)
    /\ l.phase = "verify" \/ (l.phase = "done" /\ l.error = "none") => WalkDone(world, l)

----------------------------------------------------------------------------
(* Natural numbers.                                                        *)

(* A set of natural numbers has a least one.                               *)
LEMMA LeastNatural ==
    ASSUME NEW T, T \subseteq Nat, T # {}
    PROVE  \E n \in T : \A m \in T : n <= m
<1> DEFINE R == OpToRel(<, Nat)
<1>1. IsWellFoundedOn(R, Nat)
  BY NatLessThanWellFounded
<1>2. \A x, y \in Nat : x < y => <<x, y>> \in R
  BY DEF OpToRel
<1> HIDE DEF R
<1>3. PICK n \in T : \A m \in T : ~ (<<m, n>> \in R)
  BY <1>1, WFMin
<1>4. \A m \in T : m \in Nat /\ n \in Nat /\ ~ (m < n)
  BY <1>2, <1>3
<1>5. \A m \in T : n <= m
  BY <1>4
<1> QED
  BY <1>5

(* Induction, with a set for the predicate.                                *)
LEMMA Induct ==
    ASSUME NEW S, 0 \in S, \A n \in Nat : n \in S => n + 1 \in S
    PROVE  Nat \subseteq S
<1> SUFFICES ASSUME ~ (Nat \subseteq S) PROVE FALSE
  OBVIOUS
<1>1. PICK n \in Nat \ S : \A m \in Nat \ S : n <= m
  BY LeastNatural, Nat \ S # {}
<1>2. n # 0 /\ n - 1 \in Nat /\ ~ (n <= n - 1) /\ (n - 1) + 1 = n
  BY <1>1
<1> QED
  BY <1>1, <1>2

LEMMA ElementOf ==
    ASSUME NEW S, NEW s \in Seq(S), NEW i \in DOMAIN s
    PROVE  s[i] \in S
OBVIOUS
----------------------------------------------------------------------------
(* Within, unfolded.  A recursive function exists if there is one that     *)
(* satisfies its equation; this one counts chains.                         *)

LEMMA BeyondIs ==
    ASSUME NEW world, NEW sources, NEW k
    PROVE  k \in Beyond(world, sources)
             <=> \E t \in world : t.subject \in sources /\ k \in GivenBy(world, t)
BY DEF Beyond

LEMMA SourcesAre ==
    ASSUME NEW subject, NEW keys, NEW source
    PROVE  source \in Sources(subject, keys)
             <=> source = subject \/ \E k \in keys : source = UsersetOf(k)
BY DEF Sources, UsersetOf

ReachedByAny(world) == UNION {GivenBy(world, t) : t \in world}

IsChain(world, subject, c, m) ==
    /\ c[1] \in Beyond(world, {subject})
    /\ \A i \in 1..(m - 1) : c[i + 1] \in Beyond(world, {UsersetOf(c[i])})

ChainEnds(world, subject, n) ==
    {k \in ReachedByAny(world) : \E m \in 1..n : \E c \in [1..m -> ReachedByAny(world)] :
       IsChain(world, subject, c, m) /\ c[m] = k}

(* The last link of a chain is beyond the one before it, or beyond the     *)
(* subject.                                                                *)
LEMMA ChainShortened ==
    ASSUME NEW world, NEW subject, NEW n \in Nat, NEW k \in ChainEnds(world, subject, n + 1)
    PROVE  \/ k \in ChainEnds(world, subject, n)
           \/ k \in Beyond(world, Sources(subject, ChainEnds(world, subject, n)))
<1> DEFINE K == ReachedByAny(world)
<1>1. PICK m \in 1..(n + 1) : \E c \in [1..m -> K] :
        IsChain(world, subject, c, m) /\ c[m] = k
  BY DEF ChainEnds
<1>2. PICK c \in [1..m -> K] : IsChain(world, subject, c, m) /\ c[m] = k
  BY <1>1
<1>3. k \in K
  BY DEF ChainEnds
<1>4. CASE m <= n
  <2>1. m \in 1..n
    BY <1>4
  <2> QED
    BY <1>2, <1>3, <2>1 DEF ChainEnds
<1>5. CASE m = 1
  <2>1. k \in Beyond(world, {subject})
    BY <1>2, <1>5 DEF IsChain
  <2> QED
    BY <2>1, BeyondIs, SourcesAre
<1>6. CASE ~ (m <= n) /\ m # 1
  <2>1. m - 1 \in 1..n /\ (m - 1) + 1 = m /\ m - 1 \in 1..(m - 1) /\ 1 \in 1..(m - 1)
    BY <1>6
  <2> DEFINE d == [i \in 1..(m - 1) |-> c[i]]
  <2>2. d \in [1..(m - 1) -> K]
    BY <1>2
  <2>3. d[1] = c[1] /\ d[m - 1] = c[m - 1]
    BY <2>1
  <2>4. ASSUME NEW i \in 1..((m - 1) - 1)
        PROVE  d[i + 1] \in Beyond(world, {UsersetOf(d[i])})
    <3>1. i \in 1..(m - 1) /\ i + 1 \in 1..(m - 1)
      OBVIOUS
    <3> QED
      BY <1>2, <3>1 DEF IsChain
  <2> HIDE DEF d, K
  <2>5. IsChain(world, subject, d, m - 1)
    BY <1>2, <2>3, <2>4 DEF IsChain
  <2>6. d[m - 1] \in K
    BY <2>1, <2>2
  <2>7. d[m - 1] \in ChainEnds(world, subject, n)
    BY <2>1, <2>2, <2>5, <2>6 DEF ChainEnds, K
  <2>8. k \in Beyond(world, {UsersetOf(c[m - 1])})
    BY <1>2, <2>1 DEF IsChain
  <2>9. UsersetOf(c[m - 1]) \in Sources(subject, ChainEnds(world, subject, n))
    BY <2>3, <2>7, SourcesAre
  <2> QED
    BY <2>8, <2>9, BeyondIs
<1> QED
  BY <1>4, <1>5, <1>6

(* What is beyond the end of a chain ends a longer chain.                  *)
LEMMA ChainExtended ==
    ASSUME NEW world, NEW subject, NEW n \in Nat,
           NEW k \in Beyond(world, Sources(subject, ChainEnds(world, subject, n)))
    PROVE  k \in ChainEnds(world, subject, n + 1)
<1> DEFINE K == ReachedByAny(world)
<1>1. PICK t \in world : /\ t.subject \in Sources(subject, ChainEnds(world, subject, n))
                         /\ k \in GivenBy(world, t)
  BY BeyondIs
<1>2. k \in K
  BY <1>1 DEF ReachedByAny
<1>3. CASE t.subject = subject
  <2> DEFINE c == [i \in 1..1 |-> k]
  <2>1. c \in [1..1 -> K] /\ c[1] = k
    BY <1>2
  <2>2. IsChain(world, subject, c, 1)
    <3>1. k \in Beyond(world, {subject})
      BY <1>1, <1>3, BeyondIs
    <3> QED
      BY <2>1, <3>1 DEF IsChain
  <2>3. 1 \in 1..(n + 1)
    OBVIOUS
  <2> HIDE DEF c, K
  <2> QED
    BY <1>2, <2>1, <2>2, <2>3 DEF ChainEnds, K
<1>4. CASE t.subject # subject
  <2>1. PICK j \in ChainEnds(world, subject, n) : t.subject = UsersetOf(j)
    BY <1>1, <1>4, SourcesAre
  <2>2. PICK m \in 1..n : \E b \in [1..m -> K] : IsChain(world, subject, b, m) /\ b[m] = j
    BY DEF ChainEnds
  <2>3. PICK b \in [1..m -> K] : IsChain(world, subject, b, m) /\ b[m] = j
    BY <2>2
  <2> DEFINE c == [i \in 1..(m + 1) |-> IF i = m + 1 THEN k ELSE b[i]]
  <2>4. m + 1 \in 1..(n + 1) /\ m \in Nat /\ m >= 1
    OBVIOUS
  <2>5. c \in [1..(m + 1) -> K] /\ c[m + 1] = k /\ c[1] = b[1]
        /\ \A i \in 1..m : c[i] = b[i]
    <3>1. ASSUME NEW i \in 1..(m + 1)
          PROVE  (IF i = m + 1 THEN k ELSE b[i]) \in K
      <4>1. i # m + 1 => i \in 1..m
        BY <2>4
      <4> QED
        BY <1>2, <2>3, <4>1
    <3>2. c \in [1..(m + 1) -> K]
      BY <3>1
    <3> HIDE DEF K
    <3> QED
      BY <2>4, <3>2
  <2>6. k \in Beyond(world, {UsersetOf(j)})
    BY <1>1, <2>1, BeyondIs
  <2> HIDE DEF c, K
  <2>7. ASSUME NEW i \in 1..((m + 1) - 1)
        PROVE  c[i + 1] \in Beyond(world, {UsersetOf(c[i])})
    <3>1. i \in 1..m
      BY <2>4
    <3>2. CASE i = m
      BY <2>3, <2>5, <2>6, <3>1, <3>2
    <3>3. CASE i # m
      <4>1. i \in 1..(m - 1) /\ i + 1 \in 1..m
        BY <2>4, <3>1, <3>3
      <4> QED
        BY <2>3, <2>5, <3>1, <4>1 DEF IsChain
    <3> QED
      BY <3>2, <3>3
  <2>8. IsChain(world, subject, c, m + 1)
    BY <2>3, <2>5, <2>7 DEF IsChain
  <2> QED
    BY <1>2, <2>4, <2>5, <2>8 DEF ChainEnds, K
<1> QED
  BY <1>3, <1>4

LEMMA ChainsKept ==
    ASSUME NEW world, NEW subject, NEW n \in Nat
    PROVE  ChainEnds(world, subject, n) \subseteq ChainEnds(world, subject, n + 1)
<1>1. \A m \in 1..n : m \in 1..(n + 1)
  OBVIOUS
<1> QED
  BY <1>1 DEF ChainEnds

(* So Within satisfies its equation.                                       *)
LEMMA WithinIs ==
    ASSUME NEW world, NEW subject
    PROVE  /\ Within(world, subject, 0) = {}
           /\ \A n \in Nat : Within(world, subject, n + 1)
                = Within(world, subject, n)
                    \cup Beyond(world, Sources(subject, Within(world, subject, n)))
<1> DEFINE ends(n) == ChainEnds(world, subject, n)
           step(keys) == keys \cup Beyond(world, Sources(subject, keys))
           g == [n \in Nat |-> ends(n)]
<1>1. ends(0) = {}
  BY DEF ChainEnds
<1>2. ASSUME NEW n \in Nat
      PROVE  ends(n + 1) = step(ends(n))
  BY ChainShortened, ChainExtended, ChainsKept
<1> HIDE DEF ends, step
<1>3. ASSUME NEW n \in Nat
      PROVE  g[n] = IF n = 0 THEN {} ELSE step(g[n - 1])
  <2>1. CASE n = 0
    BY <1>1, <2>1
  <2>2. CASE n # 0
    <3>1. n - 1 \in Nat /\ (n - 1) + 1 = n
      BY <2>2
    <3> QED
      BY <1>2, <2>2, <3>1
  <2> QED
    BY <2>1, <2>2
<1>4. g = [n \in Nat |-> IF n = 0 THEN {} ELSE step(g[n - 1])]
  BY <1>3
<1> DEFINE f == CHOOSE f : f = [n \in Nat |-> IF n = 0 THEN {} ELSE step(f[n - 1])]
<1>5. f = [n \in Nat |-> IF n = 0 THEN {} ELSE step(f[n - 1])]
  BY <1>4
<1>6. \A n : Within(world, subject, n) = f[n]
  BY DEF Within, step
<1> HIDE DEF f
<1>7. f[0] = {}
  BY <1>5
<1>8. ASSUME NEW n \in Nat
      PROVE  f[n + 1] = step(f[n])
  <2>1. n + 1 \in Nat /\ n + 1 # 0 /\ (n + 1) - 1 = n
    OBVIOUS
  <2> QED
    BY <1>5, <2>1
<1> QED
  BY <1>6, <1>7, <1>8 DEF step

(* A set that holds what is beyond the subject and beyond itself holds all *)
(* that is within reach.                                                   *)
LEMMA ClosedReach ==
    ASSUME NEW world, NEW subject, NEW keys,
           Beyond(world, Sources(subject, keys)) \subseteq keys
    PROVE  \A n \in Nat : Within(world, subject, n) \subseteq keys
<1> DEFINE good == {n \in Nat : Within(world, subject, n) \subseteq keys}
<1>1. 0 \in good
  BY WithinIs
<1>2. ASSUME NEW n \in Nat, n \in good
      PROVE  n + 1 \in good
  <2>1. Within(world, subject, n) \subseteq keys
    BY <1>2
  <2>2. Beyond(world, Sources(subject, Within(world, subject, n)))
          \subseteq Beyond(world, Sources(subject, keys))
    BY <2>1 DEF Beyond, Sources
  <2>3. Within(world, subject, n + 1)
          = Within(world, subject, n)
              \cup Beyond(world, Sources(subject, Within(world, subject, n)))
    BY WithinIs
  <2> QED
    BY <2>1, <2>2, <2>3
<1>3. Nat \subseteq good
  <2> HIDE DEF good
  <2> QED
    BY <1>1, <1>2, Induct
<1> QED
  BY <1>3

(* What is within reach was come to from what is within reach.             *)
LEMMA CameFrom ==
    ASSUME NEW world, NEW subject
    PROVE  \A n \in Nat : \A k \in Within(world, subject, n) :
             \E t \in world : /\ t.subject \in Sources(subject, Within(world, subject, n))
                              /\ k \in GivenBy(world, t)
<1> DEFINE reach(n) == Within(world, subject, n)
           good == {n \in Nat : reach(n) \subseteq Beyond(world, Sources(subject, reach(n)))}
<1>1. 0 \in good
  BY WithinIs
<1>2. ASSUME NEW n \in Nat, n \in good
      PROVE  n + 1 \in good
  <2>1. reach(n) \subseteq Beyond(world, Sources(subject, reach(n)))
    BY <1>2
  <2>2. reach(n + 1) = reach(n) \cup Beyond(world, Sources(subject, reach(n)))
    BY WithinIs
  <2> HIDE DEF reach
  <2>3. Beyond(world, Sources(subject, reach(n)))
          \subseteq Beyond(world, Sources(subject, reach(n + 1)))
    BY <2>2 DEF Beyond, Sources
  <2> QED
    BY <2>1, <2>2, <2>3
<1> HIDE DEF reach
<1>3. Nat \subseteq good
  <2> HIDE DEF good
  <2> QED
    BY <1>1, <1>2, Induct
<1>4. \A n \in Nat : \A k \in reach(n) : k \in Beyond(world, Sources(subject, reach(n)))
  BY <1>3
<1>5. \A n \in Nat : \A k \in reach(n) :
        \E t \in world : t.subject \in Sources(subject, reach(n)) /\ k \in GivenBy(world, t)
  BY <1>4, BeyondIs
<1> QED
  BY <1>5 DEF reach

LEMMA GivenKeys ==
    ASSUME NEW world, NEW t, NEW k \in GivenBy(world, t)
    PROVE  IsKey(k)
<1>1. \A object, relation : IsKey(RelationKey(object, relation))
  BY DEF IsKey, RelationKey
<1>2. CASE k = KeyOf(t)
  BY <1>1, <1>2 DEF KeyOf
<1>3. CASE k \in InheritedFrom(world, KeyOf(t))
  BY <1>1, <1>3 DEF InheritedFrom
<1> QED
  BY <1>2, <1>3 DEF GivenBy

----------------------------------------------------------------------------
(* The levels of a walk.                                                   *)

(* When all that is queued is on the next level, this level is complete.   *)
LEMMA LevelDone ==
    ASSUME NEW world, NEW l, IsOpen(world, l), l.depth \in Nat, l.tuples = << >>,
           \A i \in DOMAIN l.frontier : l.frontier[i].depth = l.depth + 1
    PROVE  Reached(world, l, l.depth + 1) \subseteq l.seen
<1> DEFINE s == l.request.subject
           before == Reached(world, l, l.depth)
<1>1. /\ NewBelow(world, l) /\ before \subseteq l.seen /\ SourcesKept(world, l)
  BY DEF IsOpen
<1>2. Reached(world, l, l.depth + 1) = before \cup Beyond(world, Sources(s, before))
  BY WithinIs DEF Reached
<1>3. \A source : ~ Queued(l, source, l.depth)
  <2>1. \A source : Item(source, l.depth).depth = l.depth
    BY DEF Item
  <2> QED
    BY <2>1 DEF Queued
<1>4. ASSUME NEW source, Followed(world, l, source), NEW t \in world, t.subject = source
      PROVE  GivenBy(world, t) \subseteq l.seen
  <2>1. ~ Holding(l.tuples, t)
    BY DEF Holding
  <2> QED
    BY <1>4, <2>1 DEF Followed
<1>5. Followed(world, l, s)
  BY <1>1, <1>3 DEF SourcesKept
<1>6. ASSUME NEW k \in before
      PROVE  Followed(world, l, UsersetOf(k))
  <2>1. ~ Queued(l, UsersetOf(k), l.depth + 1)
    <3>1. Item(UsersetOf(k), l.depth + 1).subject = UsersetOf(k)
      BY DEF Item
    <3> QED
      BY <1>1, <3>1 DEF Queued, NewBelow
  <2> QED
    BY <1>1, <1>3, <2>1 DEF SourcesKept
<1>7. ASSUME NEW k \in Beyond(world, Sources(s, before))
      PROVE  k \in l.seen
  <2>1. PICK t \in world : t.subject \in Sources(s, before) /\ k \in GivenBy(world, t)
    BY BeyondIs
  <2>2. Followed(world, l, t.subject)
    BY <1>5, <1>6, <2>1, SourcesAre
  <2> QED
    BY <1>4, <2>1, <2>2
<1> QED
  BY <1>1, <1>2, <1>7

(* When nothing is queued, all levels are complete.                        *)
LEMMA AllLevelsDone ==
    ASSUME NEW world, NEW l, IsOpen(world, l), l.tuples = << >>, l.frontier = << >>
    PROVE  \A n \in Nat : Reached(world, l, n) \subseteq l.seen
<1> DEFINE s == l.request.subject
<1>1. \A source, depth : ~ Queued(l, source, depth)
  BY DEF Queued
<1>2. Followed(world, l, s) /\ \A k \in l.seen : Followed(world, l, UsersetOf(k))
  BY <1>1 DEF IsOpen, SourcesKept
<1>3. ASSUME NEW k \in Beyond(world, Sources(s, l.seen))
      PROVE  k \in l.seen
  <2>1. PICK t \in world : t.subject \in Sources(s, l.seen) /\ k \in GivenBy(world, t)
    BY BeyondIs
  <2>2. Followed(world, l, t.subject)
    BY <1>2, <2>1, SourcesAre
  <2>3. ~ Holding(l.tuples, t)
    BY DEF Holding
  <2> QED
    BY <2>1, <2>2, <2>3 DEF Followed
<1>4. \A n \in Nat : Within(world, s, n) \subseteq l.seen
  BY <1>3, ClosedReach
<1> QED
  BY <1>4 DEF Reached

----------------------------------------------------------------------------
(* The steps of a walk.                                                    *)

(* The queue without its first item.                                       *)
LEMMA QueuedTail ==
    ASSUME NEW l, NEW m, IsSequence(l.frontier), l.frontier # << >>,
           m.frontier = Dequeued(l), NEW source, NEW depth, Queued(l, source, depth)
    PROVE  Queued(m, source, depth) \/ Head(l.frontier) = Item(source, depth)
<1> DEFINE s == l.frontier
<1>1. PICK S : s \in Seq(S)
  BY DEF IsSequence
<1>2. /\ Head(s) = s[1]
      /\ \A i \in DOMAIN s : i # 1 => i - 1 \in DOMAIN Tail(s) /\ s[i] = Tail(s)[i - 1]
  BY <1>1, TailOf
<1>3. PICK i \in DOMAIN s : s[i] = Item(source, depth)
  BY DEF Queued
<1> HIDE DEF s
<1>4. CASE i = 1
  BY <1>2, <1>3, <1>4 DEF s
<1>5. CASE i # 1
  <2>1. i - 1 \in DOMAIN Tail(s) /\ Tail(s)[i - 1] = Item(source, depth)
    BY <1>2, <1>3, <1>5
  <2>2. m.frontier = Tail(s)
    BY DEF Dequeued, s
  <2> QED
    BY <2>1, <2>2 DEF Queued
<1> QED
  BY <1>4, <1>5

(* The next item is read at its own level, and all of it is to be visited. *)
LEMMA PoppedOpen ==
    ASSUME NEW world, NEW l, IsSequence(l.frontier), l.frontier # << >>,
           l.tuples = << >>, l.depth \in Nat, IsOpen(world, l),
           NEW m, m.request = l.request, m.seen = l.seen,
           m.frontier = Dequeued(l), m.depth = Head(l.frontier).depth,
           \A t \in world : t.subject = Head(l.frontier).subject => Holding(m.tuples, t)
    PROVE  IsOpen(world, m)
<1> DEFINE s == l.frontier
           first == Head(s)
           rest == Tail(s)
<1>1. PICK S : s \in Seq(S)
  BY DEF IsSequence
<1>2. /\ first = s[1] /\ 1 \in DOMAIN s /\ rest \in Seq(S)
      /\ \A i \in DOMAIN rest : i + 1 \in DOMAIN s /\ rest[i] = s[i + 1]
  BY <1>1, TailOf
<1>3. InLevels(l) /\ NewBelow(world, l) /\ SourcesKept(world, l)
      /\ Reached(world, l, l.depth) \subseteq l.seen
  BY DEF IsOpen
<1>4. m.frontier = rest /\ m.depth = first.depth
  BY DEF Dequeued
<1>5. \A i \in DOMAIN rest : i \in Nat /\ i >= 1
  BY <1>2
<1>6. \A i \in DOMAIN rest : first.depth <= rest[i].depth
                               /\ rest[i].depth \in {l.depth, l.depth + 1}
  <2>1. \A i \in DOMAIN rest : 1 < i + 1
    BY <1>5
  <2> QED
    BY <1>2, <1>3, <2>1 DEF InLevels
<1>7. \A i, j \in DOMAIN rest : i < j => rest[i].depth <= rest[j].depth
  <2>1. \A i, j \in DOMAIN rest : i < j => i + 1 < j + 1
    BY <1>5
  <2> QED
    BY <1>2, <1>3, <2>1 DEF InLevels
<1>8. first.depth \in {l.depth, l.depth + 1}
  BY <1>2, <1>3 DEF InLevels
<1>9. \A source : Followed(world, l, source) => Followed(world, m, source)
  <2>1. \A t : ~ Holding(l.tuples, t)
    BY DEF Holding
  <2> QED
    BY <2>1 DEF Followed
<1>10. \A source, depth : Queued(l, source, depth)
         => Queued(m, source, depth) \/ Followed(world, m, source)
  <2>1. ASSUME NEW source, NEW depth, first = Item(source, depth)
        PROVE  Followed(world, m, source)
    <3>1. first.subject = source
      BY <2>1 DEF Item
    <3> QED
      BY <3>1 DEF Followed
  <2> QED
    BY <2>1, QueuedTail
<1> HIDE DEF first, rest, s
<1>11. CASE first.depth = l.depth
  <2>1. InLevels(m)
    BY <1>4, <1>6, <1>7, <1>11 DEF InLevels
  <2>2. Reached(world, m, m.depth) = Reached(world, l, l.depth)
    BY <1>4, <1>11 DEF Reached
  <2>3. NewBelow(world, m)
    BY <1>2, <1>3, <1>4, <1>11, <2>2 DEF NewBelow, s
  <2>4. SourcesKept(world, m)
    BY <1>3, <1>4, <1>9, <1>10, <1>11 DEF SourcesKept
  <2> QED
    BY <1>3, <2>1, <2>2, <2>3, <2>4 DEF IsOpen
<1>12. CASE first.depth = l.depth + 1
  <2>1. \A i \in DOMAIN rest : rest[i].depth = l.depth + 1
    BY <1>6, <1>12
  <2>2. \A i \in DOMAIN s : s[i].depth = l.depth + 1
    <3>1. ASSUME NEW i \in DOMAIN s
          PROVE  s[i].depth = l.depth + 1
      <4>1. s[i].depth \in {l.depth, l.depth + 1}
        BY <1>3 DEF InLevels, s
      <4>2. i = 1 \/ 1 < i
        BY <1>1
      <4>3. s[1].depth <= s[i].depth
        BY <1>3, <1>2, <4>1, <4>2 DEF InLevels, s
      <4> QED
        BY <1>2, <1>12, <4>1, <4>3
    <3> QED
      BY <3>1
  <2>3. Reached(world, l, l.depth + 1) \subseteq l.seen
    BY <2>2, LevelDone DEF s
  <2>4. Reached(world, m, m.depth) \subseteq m.seen
    BY <1>4, <1>12, <2>3 DEF Reached
  <2>5. InLevels(m)
    BY <1>4, <1>7, <1>12, <2>1 DEF InLevels
  <2>6. NewBelow(world, m)
    <3>1. \A i \in DOMAIN m.frontier : m.frontier[i].depth # m.depth + 1
      BY <1>4, <1>12, <2>1
    <3> QED
      BY <3>1 DEF NewBelow
  <2>7. \A source : ~ Queued(l, source, l.depth)
    <3>1. \A source : Item(source, l.depth).depth = l.depth
      BY DEF Item
    <3> QED
      BY <2>2, <3>1 DEF Queued, s
  <2>8. SourcesKept(world, m)
    BY <1>3, <1>4, <1>9, <1>10, <1>12, <2>7 DEF SourcesKept
  <2> QED
    BY <2>4, <2>5, <2>6, <2>8 DEF IsOpen
<1> QED
  BY <1>8, <1>11, <1>12

(* A level that is too deep is the last, and it is complete.               *)
LEMMA TooDeepExhausts ==
    ASSUME NEW world, NEW l, WalkOK(world, l), l.phase = "walk",
           IsSequence(l.frontier), l.frontier # << >>, l.depth \in 0..MaxDepth,
           Head(l.frontier).depth > MaxDepth,
           NEW m, m.request = l.request, m.seen = l.seen, m.phase = "walk",
           m.frontier = Dequeued(l)
    PROVE  IsExhausted(world, m)
<1> DEFINE s == l.frontier
<1>1. PICK S : s \in Seq(S)
  BY DEF IsSequence
<1>2. /\ Head(s) = s[1] /\ 1 \in DOMAIN s
      /\ \A i \in DOMAIN Tail(s) : i + 1 \in DOMAIN s /\ Tail(s)[i] = s[i + 1]
  BY <1>1, TailOf
<1>3. l.tuples = << >> /\ MaxDepth \in Nat /\ l.depth \in Nat /\ l.depth <= MaxDepth
  BY EngineAssumption DEF WalkOK
<1>4. IsExhausted(world, l)
  <2>1. SUFFICES ASSUME IsOpen(world, l)
                 PROVE  IsExhausted(world, l)
    BY DEF WalkOK
  <2>2. InLevels(l)
    BY <2>1 DEF IsOpen
  <2>3. s[1].depth = l.depth + 1 /\ l.depth = MaxDepth
    <3>1. s[1].depth \in {l.depth, l.depth + 1} /\ s[1].depth > MaxDepth
      BY <1>2, <2>2 DEF InLevels
    <3> QED
      BY <1>3, <3>1
  <2>4. \A i \in DOMAIN s : s[i].depth = l.depth + 1
    <3>1. ASSUME NEW i \in DOMAIN s
          PROVE  s[i].depth = l.depth + 1
      <4>1. s[i].depth \in {l.depth, l.depth + 1}
        BY <2>2 DEF InLevels
      <4>2. i = 1 \/ 1 < i
        BY <1>1
      <4>3. i = 1 \/ s[1].depth <= s[i].depth
        BY <1>2, <2>2, <4>2 DEF InLevels
      <4> QED
        BY <1>3, <2>3, <4>1, <4>3
    <3> QED
      BY <3>1
  <2>5. Reached(world, l, l.depth + 1) \subseteq l.seen
    BY <1>3, <2>1, <2>4, LevelDone
  <2>6. \A i \in DOMAIN l.frontier : l.frontier[i].depth > MaxDepth
    BY <1>3, <2>3, <2>4
  <2> QED
    BY <2>3, <2>5, <2>6 DEF IsExhausted
<1>5. \A i \in DOMAIN m.frontier : m.frontier[i].depth > MaxDepth
  BY <1>2, <1>4 DEF IsExhausted, Dequeued
<1> QED
  BY <1>4, <1>5 DEF IsExhausted, Reached

(* The edges that a walk reads are those of the world of its revision.     *)
LEMMA InheritingSame ==
    ASSUME NEW rev, NEW t
    PROVE  Inheriting(rev, t) = InheritedFrom(World(rev), KeyOf(t))
<1>1. KeyOf(t).object = t.object /\ KeyOf(t).relation = t.relation
  BY DEF KeyOf, RelationKey
<1>2. \A walk : {e \in ReadBySubject(rev, Concrete(t.object), walk.tupleset) :
                   e.object.type = walk.objectType}
                = {u \in World(rev) : /\ u.subject = Concrete(t.object)
                                      /\ walk.tupleset \in {NoRelation, u.relation}
                                      /\ u.object.type = walk.objectType}
  BY DEF ReadBySubject
<1> QED
  BY <1>1, <1>2 DEF Inheriting, InheritedFrom

LEMMA InheritedKeys ==
    ASSUME NEW world, NEW key, NEW k \in InheritedFrom(world, key)
    PROVE  IsKey(k) /\ k.object \in NamedIn(world)
<1>1. \A object, relation : /\ IsKey(RelationKey(object, relation))
                            /\ RelationKey(object, relation).object = object
  BY DEF IsKey, RelationKey
<1>2. PICK u \in world : \E permission : k = RelationKey(u.object, permission)
  BY DEF InheritedFrom
<1> QED
  BY <1>1, <1>2 DEF NamedIn

IsJoined(both, s, r) ==
    /\ Len(s) \in Nat
    /\ \A i \in DOMAIN s : i \in DOMAIN both /\ both[i] = s[i]
    /\ \A j \in DOMAIN r : Len(s) + j \in DOMAIN both /\ both[Len(s) + j] = r[j]
    /\ \A i \in DOMAIN both :
         /\ i \in Nat
         /\ i <= Len(s) => i \in DOMAIN s
         /\ i > Len(s) => i - Len(s) \in DOMAIN r /\ both[i] = r[i - Len(s)]

(* Two sequences, one behind the other.                                    *)
LEMMA JoinedAre ==
    ASSUME NEW s, NEW r, IsSequence(s), IsSequence(r)
    PROVE  IsJoined(s \o r, s, r)
<1>1. PICK S : s \in Seq(S)
  BY DEF IsSequence
<1>2. PICK R : r \in Seq(R)
  BY DEF IsSequence
<1> DEFINE T == S \cup R
<1>3. s \in Seq(T) /\ r \in Seq(T)
  BY <1>1, <1>2
<1> HIDE DEF T
<1>4. /\ s \o r \in Seq(T) /\ Len(s) \in Nat /\ Len(r) \in Nat
      /\ DOMAIN s = 1..Len(s) /\ DOMAIN r = 1..Len(r)
      /\ DOMAIN (s \o r) = 1..(Len(s) + Len(r))
      /\ \A i \in 1..(Len(s) + Len(r)) :
           (s \o r)[i] = IF i <= Len(s) THEN s[i] ELSE r[i - Len(s)]
  BY <1>3
<1> DEFINE n == Len(s)
           q == Len(r)
           both == s \o r
<1>5. /\ n \in Nat /\ q \in Nat /\ DOMAIN s = 1..n /\ DOMAIN r = 1..q
      /\ DOMAIN both = 1..(n + q)
      /\ \A i \in 1..(n + q) : both[i] = IF i <= n THEN s[i] ELSE r[i - n]
  BY <1>4
<1> HIDE DEF n, q, both
<1>7. \A i \in DOMAIN s : i \in DOMAIN both /\ both[i] = s[i]
  BY <1>5
<1>8. ASSUME NEW j \in DOMAIN r
      PROVE  n + j \in DOMAIN both /\ both[n + j] = r[j]
  <2>1. n + j \in 1..(n + q) /\ ~ (n + j <= n) /\ (n + j) - n = j
    BY <1>5
  <2> QED
    BY <1>5, <2>1
<1>9. ASSUME NEW i \in DOMAIN both
      PROVE  /\ i \in Nat
             /\ i <= n => i \in DOMAIN s
             /\ i > n => i - n \in DOMAIN r /\ both[i] = r[i - n]
  BY <1>5
<1> QED
  BY <1>5, <1>7, <1>8, <1>9 DEF n, both, IsJoined

(* One tuple less is to be visited, and what it gives has been seen.       *)
LEMMA FollowedOn ==
    ASSUME NEW world, NEW l, NEW m, l.tuples \in Seq(world), l.tuples # << >>,
           m.tuples = Tail(l.tuples), l.seen \subseteq m.seen,
           GivenBy(world, Head(l.tuples)) \subseteq m.seen,
           NEW source, Followed(world, l, source)
    PROVE  Followed(world, m, source)
<1>1. ASSUME NEW t \in world, Holding(l.tuples, t)
      PROVE  t = Head(l.tuples) \/ Holding(m.tuples, t)
  <2>1. PICK i \in DOMAIN l.tuples : l.tuples[i] = t
    BY <1>1 DEF Holding
  <2>2. /\ Head(l.tuples) = l.tuples[1]
        /\ i # 1 => i - 1 \in DOMAIN Tail(l.tuples) /\ l.tuples[i] = Tail(l.tuples)[i - 1]
    BY TailOf
  <2> QED
    BY <2>1, <2>2 DEF Holding
<1> QED
  BY <1>1 DEF Followed

(* A relation that is met again gives nothing new.                         *)
LEMMA VisitSeenOK ==
    ASSUME NEW world, NEW l, WalkOK(world, l), l.phase = "visit",
           l.tuples \in Seq(world), l.tuples # << >>, KeyOf(Head(l.tuples)) \in l.seen,
           NEW m, m.phase = "visit", m.request = l.request, m.seen = l.seen,
           m.frontier = l.frontier, m.depth = l.depth, m.candidates = l.candidates,
           m.tuples = Tail(l.tuples)
    PROVE  WalkOK(world, m)
<1>1. Head(l.tuples) \in world /\ Tail(l.tuples) \in Seq(world)
  BY TailOf
<1>2. GivenBy(world, Head(l.tuples)) \subseteq m.seen
  BY <1>1 DEF WalkOK, SeenClosed
<1>3. \A source : Followed(world, l, source) => Followed(world, m, source)
  BY <1>2, FollowedOn
<1>4. IsOpen(world, l)
  BY DEF WalkOK, IsExhausted
<1>5. \A source, depth : Queued(m, source, depth) = Queued(l, source, depth)
  BY DEF Queued
<1>6. SourcesKept(world, m)
  BY <1>3, <1>4, <1>5 DEF IsOpen, SourcesKept
<1>7. InLevels(m) /\ NewBelow(world, m) /\ Reached(world, m, m.depth) \subseteq m.seen
  BY <1>4 DEF IsOpen, InLevels, NewBelow, Reached
<1>8. \A i \in DOMAIN m.tuples : m.tuples[i] \in world
  BY <1>1
<1>9. /\ SeenClosed(world, m) /\ Proposed(m.request, m.seen) \subseteq m.candidates
      /\ \A k \in m.seen : k.object \in NamedIn(world)
      /\ m.candidates \subseteq NamedIn(world)
  BY DEF WalkOK, SeenClosed
<1> QED
  BY <1>6, <1>7, <1>8, <1>9 DEF WalkOK, IsOpen

(* A new relation is visited.                                              *)
IsVisit(world, l, reached, more, m) ==
    /\ WalkOK(world, l) /\ l.phase = "visit" /\ l.depth \in Nat
    /\ IsSequence(l.frontier) /\ l.tuples \in Seq(world) /\ l.tuples # << >>
    /\ KeyOf(Head(l.tuples)) \notin l.seen
    /\ reached = {KeyOf(Head(l.tuples))}
                   \cup (InheritedFrom(world, KeyOf(Head(l.tuples)))
                           \ (l.seen \cup {KeyOf(Head(l.tuples))}))
    /\ IsSequence(more)
    /\ \A i \in DOMAIN more : \E k \in reached : more[i] = Item(UsersetOf(k), l.depth + 1)
    /\ \A k \in reached : \E i \in DOMAIN more : more[i] = Item(UsersetOf(k), l.depth + 1)
    /\ m.phase = "visit" /\ m.request = l.request /\ m.seen = l.seen \cup reached
    /\ m.frontier = l.frontier \o more /\ m.depth = l.depth
    /\ m.candidates = l.candidates \cup Proposed(l.request, reached)
    /\ m.tuples = Tail(l.tuples)

(* What a tuple leads to is new: it is queued behind all that is queued.   *)
LEMMA VisitNewOK ==
    ASSUME NEW world, NEW l, NEW reached, NEW more, NEW m, IsVisit(world, l, reached, more, m)
    PROVE  WalkOK(world, m)
<1> USE DEF IsVisit
<1> DEFINE t0 == Head(l.tuples)
           s == l.frontier
           both == s \o more
<1>1. t0 \in world /\ Tail(l.tuples) \in Seq(world)
  BY TailOf
<1>2. \A k \in reached : IsKey(k) /\ k \notin l.seen
  <2>0. \A object, relation : IsKey(RelationKey(object, relation))
    BY DEF IsKey, RelationKey
  <2>1. IsKey(KeyOf(t0))
    BY <2>0 DEF KeyOf
  <2>2. \A k \in InheritedFrom(world, KeyOf(t0)) : IsKey(k)
    BY InheritedKeys
  <2> QED
    BY <2>1, <2>2
<1>named. \A k \in reached : k.object \in NamedIn(world)
  <2>1. KeyOf(t0).object \in NamedIn(world)
    BY <1>1 DEF KeyOf, RelationKey, NamedIn
  <2>2. \A k \in InheritedFrom(world, KeyOf(t0)) : k.object \in NamedIn(world)
    BY InheritedKeys
  <2> QED
    BY <2>1, <2>2
<1>3. InheritedFrom(world, KeyOf(t0)) \subseteq m.seen
  OBVIOUS
<1>4. IsOpen(world, l) /\ SeenClosed(world, l) /\ Proposed(l.request, l.seen) \subseteq l.candidates
  BY DEF WalkOK, IsExhausted
<1>5. InLevels(l) /\ NewBelow(world, l) /\ SourcesKept(world, l)
      /\ Reached(world, l, l.depth) \subseteq l.seen
  BY <1>4 DEF IsOpen
<1> HIDE DEF t0, s, both
<1>6. /\ Len(s) \in Nat
      /\ \A i \in DOMAIN s : i \in DOMAIN both /\ both[i] = s[i]
      /\ \A j \in DOMAIN more : Len(s) + j \in DOMAIN both /\ both[Len(s) + j] = more[j]
      /\ \A i \in DOMAIN both :
           /\ i \in Nat
           /\ i <= Len(s) => i \in DOMAIN s
           /\ i > Len(s) => i - Len(s) \in DOMAIN more /\ both[i] = more[i - Len(s)]
  <2>1. IsJoined(l.frontier \o more, l.frontier, more)
    BY JoinedAre
  <2>2. IsJoined(both, s, more)
    BY <2>1 DEF both, s
  <2> QED
    BY ONLY <2>2 DEF IsJoined
<1>7. m.frontier = both
  BY DEF s, both
<1>8. \A subject, depth : Item(subject, depth).subject = subject
                            /\ Item(subject, depth).depth = depth
  BY DEF Item
<1>9. \A j \in DOMAIN more : more[j].depth = l.depth + 1
                               /\ \E k \in reached : more[j].subject = UsersetOf(k)
  BY <1>8
<1>10. SeenClosed(world, m)
  <2>1. \A k \in m.seen : IsKey(k)
    BY <1>2, <1>4 DEF SeenClosed
  <2>2. ASSUME NEW t \in world, KeyOf(t) \in m.seen
        PROVE  GivenBy(world, t) \subseteq m.seen
    <3>1. CASE KeyOf(t) \in l.seen
      BY <1>4, <3>1 DEF SeenClosed
    <3>2. CASE KeyOf(t) = KeyOf(t0)
      BY <1>3, <2>2, <3>2 DEF GivenBy
    <3>3. CASE KeyOf(t) \in InheritedFrom(world, KeyOf(t0))
      <4>1. IsInherited(world, KeyOf(t))
        BY <1>1, <3>3 DEF IsInherited
      <4> QED
        BY <2>2, <4>1 DEF GivenBy
    <3> QED
      BY <2>2, <3>1, <3>2, <3>3 DEF t0
  <2> QED
    BY <2>1, <2>2 DEF SeenClosed
<1>11. \A source : Followed(world, l, source) => Followed(world, m, source)
  <2>1. GivenBy(world, t0) \subseteq m.seen
    BY <1>1, <1>10 DEF SeenClosed, t0
  <2> QED
    BY <2>1, FollowedOn DEF t0
<1>12. \A source, depth : Queued(l, source, depth) => Queued(m, source, depth)
  BY <1>6, <1>7 DEF Queued, s
<1>13. \A k \in reached : Queued(m, UsersetOf(k), l.depth + 1)
  BY <1>6, <1>7 DEF Queued
<1>14. SourcesKept(world, m)
  BY <1>5, <1>11, <1>12, <1>13 DEF SourcesKept
<1>15. InLevels(m)
  <2>1. \A i \in DOMAIN both : both[i].depth \in {l.depth, l.depth + 1}
    BY <1>5, <1>6, <1>9 DEF InLevels, s
  <2>2. ASSUME NEW i \in DOMAIN both, NEW j \in DOMAIN both, i < j
        PROVE  both[i].depth <= both[j].depth
    <3>1. CASE j <= Len(s)
      <4>1. i <= Len(s)
        BY <1>6, <2>2, <3>1
      <4> QED
        BY <1>5, <1>6, <2>2, <3>1, <4>1 DEF InLevels, s
    <3>2. CASE j > Len(s)
      <4>1. both[j].depth = l.depth + 1
        BY <1>6, <1>9, <3>2
      <4> QED
        BY <2>1, <4>1
    <3> QED
      BY <1>6, <3>1, <3>2
  <2> QED
    BY <1>7, <2>1, <2>2 DEF InLevels
<1>16. Reached(world, m, m.depth) = Reached(world, l, l.depth)
  BY DEF Reached
<1>17. NewBelow(world, m)
  <2>1. ASSUME NEW i \in DOMAIN both, both[i].depth = l.depth + 1,
               NEW k \in Reached(world, l, l.depth)
        PROVE  both[i].subject # UsersetOf(k)
    <3>1. CASE i <= Len(s)
      <4>1. i \in DOMAIN s /\ s[i] = both[i] /\ s[i].depth = l.depth + 1
        BY <1>6, <2>1, <3>1
      <4> QED
        BY <1>5, <4>1 DEF NewBelow, s
    <3>2. CASE i > Len(s)
      <4>1. PICK j \in reached : both[i].subject = UsersetOf(j)
        <5>1. i - Len(s) \in DOMAIN more /\ both[i] = more[i - Len(s)]
          BY <1>6, <3>2
        <5>2. PICK j \in reached : more[i - Len(s)].subject = UsersetOf(j)
          BY <1>9, <5>1
        <5> QED
          BY <5>1, <5>2
      <4>2. k \in l.seen /\ j \notin l.seen /\ IsKey(k) /\ IsKey(j)
        BY <1>2, <1>4, <1>5 DEF SeenClosed
      <4>3. j = UsersetOf(j) /\ k = UsersetOf(k)
        BY <4>2 DEF IsKey, UsersetOf, Userset, RelationKey
      <4> QED
        BY <4>1, <4>2, <4>3
    <3> QED
      BY <1>6, <3>1, <3>2
  <2> QED
    BY <1>7, <1>16, <2>1 DEF NewBelow
<1>18. IsOpen(world, m)
  BY <1>5, <1>14, <1>15, <1>16, <1>17 DEF IsOpen
<1>19. Proposed(m.request, m.seen) \subseteq m.candidates
  <2>1. Proposed(l.request, l.seen \cup reached)
          = Proposed(l.request, l.seen) \cup Proposed(l.request, reached)
    BY DEF Proposed
  <2> QED
    BY <1>4, <2>1
<1>20. \A i \in DOMAIN m.tuples : m.tuples[i] \in world
  BY <1>1
<1>21. \A k \in m.seen : k.object \in NamedIn(world)
  BY <1>named DEF WalkOK
<1>22. m.candidates \subseteq NamedIn(world)
  <2>1. Proposed(l.request, reached) \subseteq NamedIn(world)
    BY <1>named DEF Proposed
  <2> QED
    BY <2>1 DEF WalkOK
<1> QED
  BY <1>10, <1>18, <1>19, <1>20, <1>21, <1>22 DEF WalkOK

----------------------------------------------------------------------------
(* All walks.                                                              *)

WalksFaithful == \A c \in Calls : WalkFaithful(World(list[c].revision), list[c])

(* A step of one list.                                                     *)
LEMMA BecomesFaithful ==
    ASSUME ListInv, WalksFaithful, NEW c \in Calls, NEW m, ListBecomes(c, m),
           WalkFaithful(World(m.revision), m)
    PROVE  WalksFaithful'
<1>1. list' = [list EXCEPT ![c] = m] /\ head' = head /\ history' = history
  BY DEF ListBecomes, storeVars
<1>2. \A rev : World(rev)' = World(rev)
  BY <1>1, SameWorlds
<1>3. ASSUME NEW d \in Calls
      PROVE  WalkFaithful(World(list[d].revision), list[d])'
  <2>1. d = c => list'[d] = m
    BY <1>1 DEF ListInv
  <2>2. d # c => list'[d] = list[d]
    BY <1>1 DEF ListInv
  <2> QED
    BY <1>2, <2>1, <2>2 DEF WalksFaithful
<1> QED
  BY <1>3 DEF WalksFaithful

(* Steps in which no list takes part, or only a check.                     *)
LEMMA UnconcernedFaithful ==
    ASSUME ListInv, WalksFaithful, list' = list,
           \A rev \in 0..head : World(rev)' = World(rev)
    PROVE  WalksFaithful'
<1>1. ASSUME NEW d \in Calls
      PROVE  WalkFaithful(World(list[d].revision), list[d])'
  <2>1. list[d].revision \in 0..head
    BY DEF ListInv, ListOK
  <2>2. World(list[d].revision)' = World(list[d].revision)
    BY <2>1
  <2> QED
    BY <2>2 DEF WalksFaithful
<1> QED
  BY <1>1 DEF WalksFaithful

LEMMA IdleFaithful ==
    ASSUME NEW world
    PROVE  WalkFaithful(world, IdleList)
BY DEF IdleList, WalkFaithful

(* One lemma for each step of a list.                                      *)
LEMMA ReceiveListFaithful ==
    ASSUME ListInv, WalksFaithful, NEW c \in Calls, ReceiveList(c)
    PROVE  WalksFaithful'
<1>1. PICK request :
        ListBecomes(c, [IdleList EXCEPT !.phase = "head", !.began = head, !.request = request])
  BY DEF ReceiveList
<1> DEFINE m == [IdleList EXCEPT !.phase = "head", !.began = head, !.request = request]
<1>2. /\ m.phase = "head" /\ m.seen = {} /\ m.candidates = {} /\ m.depth = 0
      /\ m.tuples = << >>
  BY DEF IdleList
<1> HIDE DEF m
<1>3. WalkFaithful(World(m.revision), m)
  BY <1>2 DEF WalkFaithful
<1>4. ListBecomes(c, m)
  BY <1>1 DEF m
<1> QED
  BY <1>3, <1>4, BecomesFaithful

(* A walk begins with its subject alone.                                   *)
LEMMA FirstOpen ==
    ASSUME NEW world, NEW l, l.seen = {}, l.depth = 0, l.tuples = << >>,
           l.frontier = <<Item(l.request.subject, 0)>>
    PROVE  IsOpen(world, l) /\ SeenClosed(world, l) /\ Proposed(l.request, l.seen) = {}
<1> DEFINE item == Item(l.request.subject, 0)
<1>1. item.depth = 0
  BY DEF Item
<1>2. l.frontier = <<item>>
  OBVIOUS
<1> HIDE DEF item
<1>3. DOMAIN l.frontier = {1} /\ l.frontier[1] = item
  BY <1>2
<1>4. InLevels(l)
  BY <1>1, <1>3 DEF InLevels
<1>5. Queued(l, l.request.subject, 0)
  BY <1>3 DEF Queued, item
<1>6. SourcesKept(world, l)
  BY <1>5 DEF SourcesKept
<1>7. Reached(world, l, l.depth) = {}
  BY WithinIs DEF Reached
<1>8. NewBelow(world, l)
  BY <1>7 DEF NewBelow
<1> QED
  BY <1>4, <1>6, <1>7, <1>8 DEF IsOpen, SeenClosed, Proposed

LEMMA ResolveListFaithful ==
    ASSUME ListInv, WalksFaithful, NEW c \in Calls, ResolveList(c)
    PROVE  WalksFaithful'
<1> DEFINE l == list[c]
           first == <<Item(l.request.subject, 0)>>
           m == [l EXCEPT !.phase = "walk", !.revision = head, !.frontier = first]
<1>1. l.phase = "head" /\ IsList(l) /\ ListBecomes(c, m)
  BY DEF ListInv, ListOK, ResolveList
<1>2. l.seen = {} /\ l.candidates = {} /\ l.depth = 0 /\ l.tuples = << >>
  BY <1>1 DEF WalksFaithful, WalkFaithful
<1> HIDE DEF first, m
<1>3. /\ m.phase = "walk" /\ m.request = l.request /\ m.seen = l.seen
      /\ m.frontier = first /\ m.tuples = l.tuples /\ m.depth = l.depth
      /\ m.candidates = l.candidates
  <2>1. m = [l EXCEPT !.phase = "walk", !.revision = head, !.frontier = first]
    BY DEF m
  <2> HIDE DEF l
  <2> QED
    BY ONLY <1>1, <2>1 DEF IsList
<1>4. m.frontier = <<Item(m.request.subject, 0)>>
  BY <1>3 DEF first
<1> DEFINE world == World(m.revision)
<1>5. IsOpen(world, m) /\ SeenClosed(world, m) /\ Proposed(m.request, m.seen) = {}
  BY <1>2, <1>3, <1>4, FirstOpen
<1> HIDE DEF world
<1>6. WalkOK(world, m)
  BY <1>2, <1>3, <1>5 DEF WalkOK
<1>7. WalkFaithful(world, m)
  BY <1>3, <1>6 DEF WalkFaithful
<1> QED
  BY <1>1, <1>7, BecomesFaithful DEF m, world

(* What the invariants say of a walk.                                      *)
LEMMA WalkingIs ==
    ASSUME ListInv, WalksFaithful, NEW c \in Calls, list[c].phase \in {"walk", "visit"}
    PROVE  /\ IsList(list[c]) /\ IsSequence(list[c].frontier)
           /\ list[c].depth \in 0..MaxDepth /\ list[c].depth \in Nat
           /\ list[c].revision \in 0..head
           /\ WalkOK(World(list[c].revision), list[c])
           /\ list[c].tuples \in Seq(World(list[c].revision))
<1> DEFINE l == list[c]
           world == World(l.revision)
<1>1. /\ IsList(l) /\ IsSequence(l.frontier) /\ l.depth \in 0..MaxDepth
      /\ l.revision \in 0..head /\ l.tuples \in Seq(Tuples)
  BY DEF ListInv, ListOK
<1>2. WalkOK(world, l)
  BY DEF WalksFaithful, WalkFaithful
<1>3. \A i \in DOMAIN l.tuples : l.tuples[i] \in world
  BY <1>2 DEF WalkOK
<1> HIDE DEF l, world
<1>4. l.tuples \in Seq(world)
  BY <1>1, <1>3
<1>5. l.depth \in Nat
  BY <1>1, EngineAssumption
<1> QED
  BY <1>1, <1>2, <1>4, <1>5 DEF l, world

LEMMA TooDeepFaithful ==
    ASSUME ListInv, WalksFaithful, NEW c \in Calls, TooDeep(c)
    PROVE  WalksFaithful'
<1> DEFINE l == list[c]
           world == World(l.revision)
           m == [l EXCEPT !.frontier = Dequeued(l)]
<1>1. /\ l.phase = "walk" /\ l.frontier # << >> /\ Head(l.frontier).depth > MaxDepth
      /\ ListBecomes(c, m)
  BY DEF TooDeep, Walking
<1>2. /\ IsList(l) /\ IsSequence(l.frontier) /\ l.depth \in 0..MaxDepth
      /\ WalkOK(world, l)
  BY <1>1, WalkingIs
<1>3. /\ m.phase = "walk" /\ m.request = l.request /\ m.seen = l.seen
      /\ m.frontier = Dequeued(l) /\ m.tuples = l.tuples /\ m.candidates = l.candidates
      /\ m.revision = l.revision
  BY <1>1, <1>2 DEF IsList
<1> HIDE DEF m, world, l
<1>4. IsExhausted(world, m)
  BY <1>1, <1>2, <1>3, TooDeepExhausts
<1>5. WalkOK(world, m)
  <2>1. /\ SeenClosed(world, l) /\ Proposed(l.request, l.seen) \subseteq l.candidates
        /\ l.tuples = << >>
        /\ \A k \in l.seen : k.object \in NamedIn(world)
        /\ l.candidates \subseteq NamedIn(world)
    BY <1>1, <1>2 DEF WalkOK
  <2>2. SeenClosed(world, m)
    BY <1>3, <2>1 DEF SeenClosed
  <2>3. DOMAIN m.tuples = {}
    BY <1>3, <2>1
  <2> QED
    BY <1>3, <1>4, <2>1, <2>2, <2>3 DEF WalkOK
<1>6. WalkFaithful(world, m)
  BY <1>3, <1>5 DEF WalkFaithful
<1> QED
  BY <1>1, <1>3, <1>6, BecomesFaithful DEF world

LEMMA ReadFrontierFaithful ==
    ASSUME ListInv, WalksFaithful, NEW c \in Calls, ReadFrontier(c)
    PROVE  WalksFaithful'
<1> DEFINE l == list[c]
           world == World(l.revision)
           item == Head(l.frontier)
           found == ReadBySubject(l.revision, item.subject, NoRelation)
<1>1. PICK tuples \in Orders(found) :
        ListBecomes(c, [l EXCEPT !.phase = "visit", !.frontier = Dequeued(l),
                                 !.tuples = tuples, !.depth = item.depth])
  BY DEF ReadFrontier
<1> DEFINE m == [l EXCEPT !.phase = "visit", !.frontier = Dequeued(l),
                          !.tuples = tuples, !.depth = item.depth]
<1>2. l.phase = "walk" /\ l.frontier # << >> /\ item.depth <= MaxDepth
  BY DEF ReadFrontier, Walking
<1>3. /\ IsList(l) /\ IsSequence(l.frontier) /\ l.depth \in Nat /\ WalkOK(world, l)
      /\ l.revision \in 0..head
  BY <1>2, WalkingIs
<1>4. found = {t \in world : t.subject = item.subject}
  BY DEF ReadBySubject
<1>5. /\ tuples \in Seq(found)
      /\ \A t \in found : \E i \in DOMAIN tuples : tuples[i] = t
  <2>1. IsFiniteSet(world)
    BY <1>3, WorldInTuples DEF ListInv
  <2>2. IsFiniteSet(found)
    BY <1>4, <2>1, FS_Subset
  <2> QED
    BY <1>1, <2>2, OrderOf
<1>6. IsOpen(world, l)
  <2>1. ~ IsExhausted(world, l)
    <3>1. PICK S : l.frontier \in Seq(S)
      BY <1>3 DEF IsSequence
    <3>2. Head(l.frontier) = l.frontier[1] /\ 1 \in DOMAIN l.frontier
      BY <1>2, <3>1, TailOf
    <3>3. item.depth \in 0..(MaxDepth + 1)
      BY <3>2 DEF ListInv, ListOK
    <3>4. ~ (item.depth > MaxDepth)
      BY <1>2, <3>3, EngineAssumption
    <3> QED
      BY <3>2, <3>4 DEF IsExhausted
  <2> QED
    BY <1>3, <2>1 DEF WalkOK
<1>7. ListBecomes(c, m)
  BY <1>1
<1> HIDE DEF m, item, found
<1>8. /\ m.phase = "visit" /\ m.request = l.request /\ m.seen = l.seen
      /\ m.frontier = Dequeued(l) /\ m.tuples = tuples /\ m.depth = item.depth
      /\ m.candidates = l.candidates /\ m.revision = l.revision
  <2>1. m = [l EXCEPT !.phase = "visit", !.frontier = Dequeued(l),
                      !.tuples = tuples, !.depth = item.depth]
    BY DEF m
  <2> HIDE DEF l
  <2> QED
    BY ONLY <1>3, <2>1 DEF IsList
<1> HIDE DEF world, l
<1>9. \A t \in world : t.subject = item.subject => Holding(m.tuples, t)
  BY <1>4, <1>5, <1>8 DEF Holding
<1>10. \A i \in DOMAIN m.tuples : m.tuples[i] \in world
  BY <1>4, <1>5, <1>8
<1>11. l.tuples = << >>
  BY <1>2, <1>3 DEF WalkOK
<1>12. IsOpen(world, m)
  BY <1>2, <1>3, <1>6, <1>8, <1>9, <1>11, PoppedOpen DEF item
<1>13. WalkOK(world, m)
  BY <1>3, <1>8, <1>10, <1>12 DEF WalkOK, SeenClosed
<1>14. WalkFaithful(world, m)
  BY <1>8, <1>13 DEF WalkFaithful
<1> QED
  BY <1>7, <1>8, <1>14, BecomesFaithful DEF world

LEMMA VisitSeenFaithful ==
    ASSUME ListInv, WalksFaithful, NEW c \in Calls, VisitSeen(c)
    PROVE  WalksFaithful'
<1> DEFINE l == list[c]
           world == World(l.revision)
           m == Visited(l)
<1>1. /\ l.phase = "visit" /\ l.tuples # << >> /\ KeyOf(Head(l.tuples)) \in l.seen
      /\ ListBecomes(c, m)
  BY DEF VisitSeen
<1>2. IsList(l) /\ WalkOK(world, l) /\ l.tuples \in Seq(world)
  BY <1>1, WalkingIs
<1>3. /\ m.phase = "visit" /\ m.request = l.request /\ m.seen = l.seen
      /\ m.frontier = l.frontier /\ m.tuples = Tail(l.tuples) /\ m.depth = l.depth
      /\ m.candidates = l.candidates /\ m.revision = l.revision
  BY <1>1, <1>2, VisitedFields
<1> HIDE DEF m, world, l
<1>4. WalkOK(world, m)
  BY <1>1, <1>2, <1>3, VisitSeenOK
<1>5. WalkFaithful(world, m)
  BY <1>3, <1>4 DEF WalkFaithful
<1> QED
  BY <1>1, <1>3, <1>5, BecomesFaithful DEF world

LEMMA EndOfVisitFaithful ==
    ASSUME ListInv, WalksFaithful, NEW c \in Calls, EndOfVisit(c)
    PROVE  WalksFaithful'
<1> DEFINE l == list[c]
           world == World(l.revision)
           m == [l EXCEPT !.phase = "walk"]
<1>1. l.phase = "visit" /\ l.tuples = << >> /\ ListBecomes(c, m)
  BY DEF EndOfVisit
<1>2. IsList(l) /\ WalkOK(world, l)
  BY <1>1, WalkingIs
<1>3. /\ m.phase = "walk" /\ m.request = l.request /\ m.seen = l.seen
      /\ m.frontier = l.frontier /\ m.tuples = l.tuples /\ m.depth = l.depth
      /\ m.candidates = l.candidates /\ m.revision = l.revision
  BY <1>1, <1>2 DEF IsList
<1> HIDE DEF m, world, l
<1>4. IsOpen(world, m)
  <2>1. IsOpen(world, l)
    BY <1>1, <1>2 DEF WalkOK, IsExhausted
  <2> QED
    BY <1>3, <2>1 DEF IsOpen, InLevels, NewBelow, Reached, SourcesKept, Queued, Followed
<1>5. WalkOK(world, m)
  BY <1>1, <1>2, <1>3, <1>4 DEF WalkOK, SeenClosed
<1>6. WalkFaithful(world, m)
  BY <1>3, <1>5 DEF WalkFaithful
<1> QED
  BY <1>1, <1>3, <1>6, BecomesFaithful DEF world

LEMMA VisitNewFaithful ==
    ASSUME ListInv, WalksFaithful, NEW c \in Calls, VisitNew(c)
    PROVE  WalksFaithful'
<1> DEFINE l == list[c]
           world == World(l.revision)
           first == Head(l.tuples)
           key == KeyOf(first)
           inherited == InheritedFrom(world, key) \ (l.seen \cup {key})
           reached == {key} \cup inherited
           more(order) == [i \in 1..(1 + Len(order)) |->
                             LET k == (<<key>> \o order)[i]
                             IN Item(Userset(k.object, k.relation), l.depth + 1)]
<1>1. inherited = Inheriting(l.revision, first) \ (l.seen \cup {key})
  BY InheritingSame
<1>2. PICK order \in Orders(inherited) :
        ListBecomes(c, [Visited(l) EXCEPT
                          !.seen = @ \cup reached,
                          !.candidates = @ \cup Proposed(l.request, reached),
                          !.frontier = @ \o more(order)])
  BY <1>1 DEF VisitNew
<1>3. l.phase = "visit" /\ l.tuples # << >> /\ key \notin l.seen
  BY DEF VisitNew
<1>4. /\ IsList(l) /\ IsSequence(l.frontier) /\ l.depth \in Nat /\ l.revision \in 0..head
      /\ WalkOK(world, l) /\ l.tuples \in Seq(world)
  BY <1>3, WalkingIs
<1>5. first \in world
  BY <1>3, <1>4, TailOf
<1>6. IsFiniteSet(inherited)
  <2>1. first \in Tuples
    BY <1>4, <1>5, WorldInTuples DEF ListInv
  <2>2. IsFiniteSet(Inheriting(l.revision, first))
    BY <1>4, <2>1, InheritingIs DEF ListInv
  <2> QED
    BY <1>1, <2>2, FS_Subset
<1>7. /\ order \in Seq(inherited) /\ Len(order) \in Nat
      /\ \A k \in inherited : \E i \in DOMAIN order : order[i] = k
  <2>1. order \in Orders(inherited)
    BY <1>2
  <2> HIDE DEF inherited
  <2> QED
    BY <1>6, <2>1, OrderOf
<1> DEFINE a == more(order)
           proposed == Proposed(l.request, reached)
           v == Visited(l)
           m == [v EXCEPT !.seen = @ \cup reached, !.candidates = @ \cup proposed,
                          !.frontier = @ \o a]
<1>8. ListBecomes(c, m)
  BY <1>2
<1>9. /\ IsSequence(a)
      /\ \A i \in DOMAIN a : \E k \in reached : a[i] = Item(UsersetOf(k), l.depth + 1)
      /\ \A k \in reached : \E i \in DOMAIN a : a[i] = Item(UsersetOf(k), l.depth + 1)
  <2> DEFINE both == <<key>> \o order
             n == 1 + Len(order)
  <2>1. IsSequence(<<key>>) /\ IsSequence(order) /\ Len(order) \in Nat
    <3> HIDE DEF inherited, key
    <3>1. <<key>> \in Seq({key})
      OBVIOUS
    <3>2. IsSequence(<<key>>)
      BY <3>1 DEF IsSequence
    <3>3. IsSequence(order)
      BY <1>7 DEF IsSequence
    <3> QED
      BY <1>7, <3>2, <3>3
  <2>2. both \in Seq(reached) /\ DOMAIN both = 1..n
    <3> HIDE DEF inherited, key
    <3>1. <<key>> \in Seq(reached) /\ order \in Seq(reached)
      BY <1>7
    <3> HIDE DEF reached
    <3> QED
      BY <3>1
  <2>3. IsJoined(both, <<key>>, order)
    BY <2>1, JoinedAre
  <2>4. ASSUME NEW k \in reached
        PROVE  \E i \in 1..n : both[i] = k
    <3>1. CASE k = key
      <4>1. 1 \in DOMAIN <<key>> /\ <<key>>[1] = key
        OBVIOUS
      <4> HIDE DEF both, n, key
      <4>2. 1 \in DOMAIN both /\ both[1] = key
        BY <2>3, <4>1 DEF IsJoined
      <4> QED
        BY <2>2, <3>1, <4>2
    <3>2. CASE k \in inherited
      <4>1. PICK i \in DOMAIN order : order[i] = k
        BY <1>7, <3>2
      <4> DEFINE p == Len(<<key>>) + i
      <4>2. p \in DOMAIN both /\ both[p] = k
        <5> HIDE DEF both, n, key
        <5> QED
          BY <2>3, <4>1 DEF IsJoined
      <4> QED
        BY <2>2, <4>2
    <3> QED
      BY <3>1, <3>2
  <2>5. DOMAIN a = 1..n
    OBVIOUS
  <2>6. \A i \in 1..n : a[i] = Item(UsersetOf(both[i]), l.depth + 1)
    BY DEF UsersetOf
  <2>7. IsSequence(a)
    <3> DEFINE T == {a[i] : i \in 1..n}
    <3>1. a \in [1..n -> T]
      OBVIOUS
    <3>2. n \in Nat
      BY <2>1
    <3> HIDE DEF a, n, T
    <3>3. a \in Seq(T)
      BY <3>1, <3>2
    <3> QED
      BY <3>3 DEF IsSequence
  <2>8. \A i \in 1..n : both[i] \in reached
    <3> HIDE DEF n, both, reached
    <3> QED
      BY <2>2, ElementOf
  <2> HIDE DEF a, n, both, reached
  <2> QED
    BY <2>4, <2>5, <2>6, <2>7, <2>8
<1>10. IsList(v) /\ v.phase = l.phase /\ v.request = l.request /\ v.frontier = l.frontier
       /\ v.tuples = Tail(l.tuples) /\ v.depth = l.depth /\ v.seen = l.seen
       /\ v.candidates = l.candidates /\ v.revision = l.revision
  BY <1>4, VisitedFields
<1> HIDE DEF m, v, a, more, proposed
<1>11. /\ m.phase = v.phase /\ m.request = v.request /\ m.seen = v.seen \cup reached
       /\ m.frontier = v.frontier \o a /\ m.tuples = v.tuples /\ m.depth = v.depth
       /\ m.candidates = v.candidates \cup proposed /\ m.revision = v.revision
  <2> DEFINE seen == v.seen \cup reached
             candidates == v.candidates \cup proposed
             longer == v.frontier \o a
  <2>1. m = [v EXCEPT !.seen = seen, !.candidates = candidates, !.frontier = longer]
    BY DEF m
  <2> HIDE DEF seen, candidates, longer
  <2>2. /\ m.phase = v.phase /\ m.request = v.request /\ m.seen = seen
        /\ m.frontier = longer /\ m.tuples = v.tuples /\ m.depth = v.depth
        /\ m.candidates = candidates /\ m.revision = v.revision
    BY ONLY <1>10, <2>1 DEF IsList
  <2> QED
    BY <2>2 DEF seen, candidates, longer
<1>12. reached = {KeyOf(Head(l.tuples))}
                   \cup (InheritedFrom(world, KeyOf(Head(l.tuples)))
                           \ (l.seen \cup {KeyOf(Head(l.tuples))}))
  OBVIOUS
<1>13. KeyOf(Head(l.tuples)) \notin l.seen
  BY <1>3
<1>phase. l.phase = "visit" /\ l.tuples # << >>
  BY <1>3
<1> HIDE DEF reached, inherited, key, first, world, l
<1>14. /\ m.phase = "visit" /\ m.request = l.request /\ m.seen = l.seen \cup reached
       /\ m.frontier = l.frontier \o a /\ m.tuples = Tail(l.tuples) /\ m.depth = l.depth
       /\ m.candidates = l.candidates \cup Proposed(l.request, reached)
       /\ m.revision = l.revision
  BY <1>phase, <1>10, <1>11 DEF proposed
<1>15. WalkOK(world, m)
  <2>1. /\ WalkOK(world, l) /\ l.phase = "visit" /\ l.depth \in Nat
        /\ IsSequence(l.frontier) /\ l.tuples \in Seq(world) /\ l.tuples # << >>
        /\ KeyOf(Head(l.tuples)) \notin l.seen
    BY ONLY <1>phase, <1>4, <1>13
  <2>2. /\ m.phase = "visit" /\ m.request = l.request /\ m.seen = l.seen \cup reached
        /\ m.frontier = l.frontier \o a /\ m.depth = l.depth
        /\ m.candidates = l.candidates \cup Proposed(l.request, reached)
        /\ m.tuples = Tail(l.tuples)
    BY ONLY <1>14
  <2>3. IsVisit(world, l, reached, a, m)
    BY ONLY <1>9, <1>12, <2>1, <2>2 DEF IsVisit
  <2> QED
    BY ONLY <2>3, VisitNewOK
<1>16. WalkFaithful(world, m)
  BY <1>14, <1>15 DEF WalkFaithful
<1> QED
  BY <1>8, <1>14, <1>16, BecomesFaithful DEF world

LEMMA StartVerifyingFaithful ==
    ASSUME ListInv, WalksFaithful, NEW c \in Calls, StartVerifying(c)
    PROVE  WalksFaithful'
<1> DEFINE l == list[c]
           world == World(l.revision)
<1>1. PICK todo : ListBecomes(c, [l EXCEPT !.phase = "verify", !.todo = todo])
  BY DEF StartVerifying
<1> DEFINE m == [l EXCEPT !.phase = "verify", !.todo = todo]
<1>2. l.phase = "walk" /\ l.frontier = << >>
  BY DEF StartVerifying
<1>3. IsList(l) /\ WalkOK(world, l)
  BY <1>2, WalkingIs
<1>4. /\ m.phase = "verify" /\ m.request = l.request /\ m.revision = l.revision
      /\ m.candidates = l.candidates
  <2> HIDE DEF l
  <2> QED
    BY <1>3 DEF IsList
<1>5. ListBecomes(c, m)
  BY <1>1
<1> HIDE DEF m, world, l
<1>6. Reached(world, l, MaxDepth + 1) \subseteq l.seen
  <2>1. CASE IsOpen(world, l)
    <3>1. l.tuples = << >> /\ MaxDepth + 1 \in Nat
      BY <1>2, <1>3, EngineAssumption DEF WalkOK
    <3> QED
      BY <1>2, <2>1, <3>1, AllLevelsDone
  <2>2. CASE IsExhausted(world, l)
    BY <2>2 DEF IsExhausted
  <2> QED
    BY <1>3, <2>1, <2>2 DEF WalkOK
<1>7. Proposed(l.request, Reached(world, l, MaxDepth + 1)) \subseteq Proposed(l.request, l.seen)
  BY <1>6 DEF Proposed
<1>8. WalkDone(world, m)
  BY <1>3, <1>4, <1>7 DEF WalkDone, WalkOK, Reached
<1>9. WalkFaithful(world, m)
  BY <1>4, <1>8 DEF WalkFaithful
<1> QED
  BY <1>4, <1>5, <1>9, BecomesFaithful DEF world

LEMMA VerifiedFaithful ==
    ASSUME ListInv, WalksFaithful, NEW c \in Calls, Verified(c)
    PROVE  WalksFaithful'
<1> DEFINE l == list[c]
           e == call[c]
<1>1. /\ UNCHANGED <<head, history>>
      /\ list' = [list EXCEPT ![c] = Taken(l, e)] /\ e.phase = "done"
  BY DEF Verified, storeVars
<1>2. l.phase = "verify" /\ IsList(l) /\ ListOK(head, l) /\ head \in Nat
  BY <1>1, UnderWay, HeadTypes DEF ListInv, ListOK
<1> DEFINE m == Taken(l, e)
<1>3. WalkFaithful(World(m.revision), m)
  <2>1. CASE e.error # "none"
    <3>1. m.phase = "done" /\ m.error # "none"
      BY <1>2, <2>1, FailedOK DEF Taken
    <3> HIDE DEF m
    <3> QED
      BY <3>1 DEF WalkFaithful
  <2>2. CASE e.error = "none"
    <3>1. /\ m.phase = "verify" /\ m.request = l.request /\ m.revision = l.revision
          /\ m.candidates = l.candidates
      BY <1>2, <2>2, TakenFields
    <3>2. WalkDone(World(l.revision), l)
      BY <1>2 DEF WalksFaithful, WalkFaithful
    <3> HIDE DEF m, l
    <3> QED
      BY <3>1, <3>2 DEF WalkFaithful, WalkDone, Reached
  <2> QED
    BY <2>1, <2>2
<1> HIDE DEF m
<1>4. \A rev : World(rev)' = World(rev)
  BY <1>1, SameWorlds
<1>5. ASSUME NEW d \in Calls
      PROVE  WalkFaithful(World(list[d].revision), list[d])'
  <2>1. d = c => list'[d] = m
    BY <1>1 DEF ListInv, m
  <2>2. d # c => list'[d] = list[d]
    BY <1>1 DEF ListInv
  <2> QED
    BY <1>3, <1>4, <2>1, <2>2 DEF WalksFaithful
<1> QED
  BY <1>5 DEF WalksFaithful

LEMMA EndOfListFaithful ==
    ASSUME ListInv, WalksFaithful, NEW c \in Calls, EndOfList(c)
    PROVE  WalksFaithful'
<1> DEFINE l == list[c]
<1>1. PICK m :
        /\ ListBecomes(c, m) /\ m.phase = "done" /\ m.error = "none"
        /\ m.request = l.request /\ m.revision = l.revision
        /\ m.candidates = l.candidates /\ l.phase = "verify"
  BY EndOfListIs
<1>2. WalkDone(World(l.revision), l)
  BY <1>1 DEF WalksFaithful, WalkFaithful
<1>3. WalkFaithful(World(m.revision), m)
  <2> HIDE DEF l
  <2> QED
    BY <1>1, <1>2 DEF WalkFaithful, WalkDone, Reached
<1> QED
  BY <1>1, <1>3, BecomesFaithful

LEMMA ListFailsFaithful ==
    ASSUME ListInv, WalksFaithful, NEW c \in Calls, ListFails(c)
    PROVE  WalksFaithful'
<1>1. PICK error \in {"store", "canceled"} : ListBecomes(c, ListFailed(list[c], error))
  BY DEF ListFails
<1> DEFINE m == ListFailed(list[c], error)
<1>2. m.phase = "done" /\ m.error # "none"
  BY HeadTypes, FailedOK DEF ListInv
<1> HIDE DEF m
<1>3. WalkFaithful(World(m.revision), m)
  BY <1>2 DEF WalkFaithful
<1> QED
  BY <1>1, <1>3, BecomesFaithful DEF m

LEMMA WalkInit == Init => WalksFaithful
BY IdleFaithful DEF Init, WalksFaithful

LEMMA WalkStep == ListInv /\ WalksFaithful /\ [Next]_vars => WalksFaithful'
<1> SUFFICES ASSUME ListInv, WalksFaithful, [Next]_vars
             PROVE  WalksFaithful'
  OBVIOUS
<1>1. ASSUME NEW c \in Calls, ReceiveList(c) \/ ResolveList(c) \/ ListFails(c)
      PROVE  WalksFaithful'
  BY <1>1, ReceiveListFaithful, ResolveListFaithful, ListFailsFaithful
<1>2. ASSUME NEW c \in Calls,
             \/ TooDeep(c) \/ ReadFrontier(c)
             \/ VisitSeen(c) \/ VisitNew(c) \/ EndOfVisit(c)
      PROVE  WalksFaithful'
  BY <1>2, TooDeepFaithful, ReadFrontierFaithful, VisitSeenFaithful, VisitNewFaithful,
     EndOfVisitFaithful
<1>3. ASSUME NEW c \in Calls, StartVerifying(c) \/ Verified(c) \/ EndOfList(c)
      PROVE  WalksFaithful'
  BY <1>3, StartVerifyingFaithful, VerifiedFaithful, EndOfListFaithful
<1>4. ASSUME NEW c \in Calls, RespondList(c)
      PROVE  WalksFaithful'
  <2>1. ListBecomes(c, IdleList)
    BY <1>4 DEF RespondList
  <2> QED
    BY <2>1, IdleFaithful, BecomesFaithful
<1>5. ASSUME NEW c \in Calls, VerifyNext(c) \/ VerifyStep(c)
      PROVE  WalksFaithful'
  <2>1. list' = list /\ head' = head /\ history' = history
    BY <1>5 DEF VerifyNext, VerifyStep, storeVars
  <2> QED
    BY <2>1, SameWorlds, UnconcernedFaithful
<1>6. CASE WriteArrives
  <2>1. PICK write \in Writes : Commit(write.add, write.remove)
    BY <1>6 DEF WriteArrives
  <2>2. list' = list
    BY <1>6 DEF WriteArrives
  <2>3. \A rev \in 0..head : World(rev)' = World(rev)
    BY <2>1, CommitKeepsWorlds DEF ListInv
  <2> QED
    BY <2>2, <2>3, UnconcernedFaithful
<1>7. CASE UNCHANGED vars
  <2>1. list' = list /\ head' = head /\ history' = history
    BY <1>7 DEF vars
  <2> QED
    BY <2>1, SameWorlds, UnconcernedFaithful
<1> QED
  BY <1>1, <1>2, <1>3, <1>4, <1>5, <1>6, <1>7 DEF Next, ListStep

(* The queue of every walk stands for what is still to be reached:         *)
(* Engine.candidates keeps this invariant at each step, whatever writes    *)
(* and other lists do.                                                     *)
THEOREM WalkInvariance == Spec => []WalksFaithful
<1>1. Init => WalksFaithful
  BY WalkInit
<1>2. ListInv /\ WalksFaithful /\ [Next]_vars => WalksFaithful'
  BY WalkStep
<1> QED
  BY <1>1, <1>2, ListInvariance, PTL DEF Spec

(* TypeOK: no page is longer than the cap, the walk never goes deeper than *)
(* one level below MaxDepth, and all that it follows, has seen and         *)
(* proposes is of the one revision of the list, which exists.              *)
THEOREM ListTypeCorrect == Spec => []TypeOK
<1>1. ASSUME ListInv, WalksFaithful
      PROVE  TypeOK
  <2>1. ASSUME NEW c \in Calls
        PROVE  LET l == list[c]
               IN /\ l.phase \in {"idle", "head", "walk", "visit", "verify", "done"}
                  /\ l.request.limit \in 1..MaxPage
                  /\ Len(l.objects) <= l.request.limit
                  /\ l.revision \in 0..head /\ l.began \in 0..head
                  /\ \A i \in DOMAIN l.frontier : l.frontier[i].depth \in 0..(MaxDepth + 1)
                  /\ call[c].phase # "idle" => l.phase = "verify"
    BY <1>1 DEF ListInv, ListOK, ListPhases, CheckFor
  <2>2. ASSUME NEW c \in Calls
        PROVE  LET l == list[c]
               IN /\ l.phase \in {"walk", "visit"} =>
                       /\ \A i \in DOMAIN l.tuples : l.tuples[i] \in World(l.revision)
                       /\ \A k \in l.seen : k.object \in NamedIn(World(l.revision))
                  /\ l.error = "none" => l.candidates \subseteq NamedIn(World(l.revision))
    <3>1. WalkFaithful(World(list[c].revision), list[c])
      BY <1>1 DEF WalksFaithful
    <3> QED
      BY <2>1, <3>1 DEF WalkFaithful, WalkOK, WalkDone
  <2> QED
    BY <1>1, <2>1, <2>2 DEF ListInv, TypeOK
<1> QED
  BY <1>1, ListInvariance, WalkInvariance, PTL

(* "Candidate generation explores at most MaxDepth levels of reverse       *)
(* edges", and misses nothing on them: for any data and reverse analysis,  *)
(* in whatever order the store returns tuples, and although a relation     *)
(* that is met again is not followed again.                                *)
THEOREM WalkCorrect == Spec => []WalkComplete
<1>1. WalksFaithful => WalkComplete
  BY DEF WalksFaithful, WalkFaithful, WalkDone, Reached, WalkComplete, Verifying, Listed
<1> QED
  BY <1>1, WalkInvariance, PTL

----------------------------------------------------------------------------
(* What a reach that is complete contains, by the meaning of the schema.   *)

Reach(world, subject) == Within(world, subject, MaxDepth + 1)

(* The schema has a meaning in a world in which the walk may rely on       *)
(* stored relations, for a subject with short chains.                      *)
Walkable(world, height, subject) ==
    /\ RewritesClosed /\ ReverseSound(height)
    /\ Explained(world) /\ world \subseteq Tuples
    /\ IsPlain(world, height)
    /\ subject \in Subjects /\ IsShallow(world, subject)

LEMMA ReachClosed ==
    ASSUME NEW world, NEW subject, IsShallow(world, subject),
           NEW t \in world, t.subject \in Sources(subject, Reach(world, subject))
    PROVE  GivenBy(world, t) \subseteq Reach(world, subject)
<1>1. MaxDepth + 1 \in Nat /\ (MaxDepth + 1) + 1 = MaxDepth + 2
  BY EngineAssumption
<1>2. Within(world, subject, MaxDepth + 2)
        = Reach(world, subject) \cup Beyond(world, Sources(subject, Reach(world, subject)))
  BY <1>1, WithinIs DEF Reach
<1>3. Beyond(world, Sources(subject, Reach(world, subject))) \subseteq Reach(world, subject)
  BY <1>2 DEF IsShallow, Reach
<1> QED
  BY <1>3, BeyondIs

(* Of the subproblems that are out of reach, one has the least rank.       *)
LEMMA LeastRank ==
    ASSUME NEW world, RankedGrounded(world), NEW bad, bad \subseteq Keys, bad # {}
    PROVE  \E key \in bad : \A other \in bad : ~ (Rank(world, other) < Rank(world, key))
<1> DEFINE ranks == {Rank(world, key) : key \in bad}
<1>1. \A key \in Keys : Rank(world, key) \in Nat
  BY DEF RankedGrounded
<1>2. ranks \subseteq Nat /\ ranks # {}
  BY <1>1
<1> HIDE DEF ranks
<1>3. PICK n \in ranks : \A m \in ranks : n <= m
  BY <1>2, LeastNatural
<1>4. PICK key \in bad : Rank(world, key) = n
  BY <1>3 DEF ranks
<1>5. ASSUME NEW other \in bad
      PROVE  ~ (Rank(world, other) < Rank(world, key))
  <2>1. Rank(world, other) \in ranks
    BY DEF ranks
  <2>2. n <= Rank(world, other) /\ Rank(world, other) \in Nat /\ n \in Nat
    BY <1>2, <1>3, <2>1
  <2> QED
    BY <1>4, <2>2
<1> QED
  BY <1>5

(* What stored tuples grant: to the subject itself, or to a userset.       *)
LEMMA StoredGrants ==
    ASSUME NEW world, Compositional(world), RewritesClosed, NEW subject \in Subjects,
           NEW key \in Keys, NEW part, <<key, part>> \in Occurrences, part.op = "this",
           Satisfied(world, key, part, subject)
    PROVE  \E t \in world :
             /\ KeyOf(t) = key
             /\ \/ t.subject = subject
                \/ /\ IsUserset(t.subject)
                   /\ KeyOfMember(t.subject) \in Asked(world, key, part)
                   /\ Holds(world, KeyOfMember(t.subject), subject)
<1>1. AskedIs(world, key, part) /\ SatisfiedIs(world, key, part, subject)
  BY DEF Compositional
<1>2. PICK t \in Stored(world, key.object, key.relation) :
        MemberHolds(world, t.subject, subject)
  BY <1>1 DEF SatisfiedIs
<1>3. t \in world /\ KeyOf(t) = key
  BY <1>2 DEF Stored, RewritesClosed
<1>4. IsUserset(t.subject) => KeyOfMember(t.subject) \in Asked(world, key, part)
  BY <1>1, <1>2 DEF AskedIs
<1> QED
  BY <1>2, <1>3, <1>4 DEF MemberHolds

(* A stored relation that holds is within reach.                           *)
LEMMA DirectReached ==
    ASSUME NEW world, NEW height, NEW subject, Walkable(world, height, subject),
           NEW key \in Keys, IsDirect(key), Ranked(world, key), Holds(world, key, subject)
    PROVE  key \in Reach(world, subject)
<1> DEFINE bad == {k \in Keys : /\ IsDirect(k) /\ Ranked(world, k)
                                /\ Holds(world, k, subject)
                                /\ k \notin Reach(world, subject)}
<1>1. SUFFICES ASSUME bad # {} PROVE FALSE
  OBVIOUS
<1>2. PICK k \in bad : \A other \in bad : ~ (Rank(world, other) < Rank(world, k))
  <2> HIDE DEF bad
  <2>1. bad \subseteq Keys
    BY DEF bad
  <2> QED
    BY <1>1, <2>1, LeastRank DEF Walkable, Explained
<1> DEFINE rewrite == RewriteOf(k)
<1>3. k \in DefinedKeys /\ rewrite.op = "this"
  BY <1>2 DEF Walkable, ReverseSound, IsDirect
<1>4. <<k, rewrite>> \in Occurrences
  BY <1>2, <1>3 DEF Walkable, RewritesClosed, Occurrences
<1>5. /\ Settled(world, k, rewrite)
      /\ Satisfied(world, k, rewrite, subject)
  BY <1>2, <1>3 DEF Walkable, Explained, RankedGrounded
<1>6. AskedIs(world, k, rewrite)
  BY <1>4 DEF Walkable, Explained, Compositional
<1> HIDE DEF rewrite, bad
<1>7. k \in Keys
  BY <1>2 DEF bad
<1>8. PICK t \in world :
        /\ KeyOf(t) = k
        /\ \/ t.subject = subject
           \/ /\ IsUserset(t.subject)
              /\ KeyOfMember(t.subject) \in Asked(world, k, rewrite)
              /\ Holds(world, KeyOfMember(t.subject), subject)
  BY <1>3, <1>4, <1>5, <1>7, StoredGrants DEF Walkable, Explained
<1>9. t.subject \in Sources(subject, Reach(world, subject))
  <2>1. CASE t.subject = subject
    BY <2>1, SourcesAre
  <2>2. CASE /\ IsUserset(t.subject)
             /\ KeyOfMember(t.subject) \in Asked(world, k, rewrite)
             /\ Holds(world, KeyOfMember(t.subject), subject)
    <3> DEFINE member == KeyOfMember(t.subject)
    <3>1. t.subject = member /\ IsDirect(member)
      BY <2>2 DEF Walkable, IsPlain
    <3>2. member \in Keys /\ Ranked(world, member) /\ Rank(world, member) < Rank(world, k)
      BY <1>5, <1>6, <2>2 DEF Settled, AskedIs
    <3>3. member \in Reach(world, subject)
      <4>1. member \notin bad
        BY <1>2, <3>2
      <4> QED
        BY <2>2, <3>1, <3>2, <4>1 DEF bad
    <3>4. UsersetOf(member) = t.subject
      BY <3>1 DEF UsersetOf, KeyOfMember, RelationKey, Userset
    <3> QED
      BY <3>3, <3>4, SourcesAre
  <2> QED
    BY <1>8, <2>1, <2>2
<1>10. k \in Reach(world, subject)
  <2>1. GivenBy(world, t) \subseteq Reach(world, subject)
    BY <1>8, <1>9, ReachClosed DEF Walkable
  <2> QED
    BY <1>8, <2>1 DEF GivenBy
<1> QED
  BY <1>2, <1>10 DEF bad

(* What inherits from a stored relation within reach is within reach.      *)
LEMMA InheritsReached ==
    ASSUME NEW world, NEW height, NEW subject, Walkable(world, height, subject),
           NEW far \in Keys, IsDirect(far), far \in Reach(world, subject)
    PROVE  InheritedFrom(world, far) \subseteq Reach(world, subject)
<1>1. MaxDepth + 1 \in Nat
  BY EngineAssumption
<1>2. PICK t \in world : /\ t.subject \in Sources(subject, Reach(world, subject))
                         /\ far \in GivenBy(world, t)
  BY <1>1, CameFrom DEF Reach
<1>3. ~ IsInherited(world, far)
  <2> SUFFICES ASSUME NEW u \in world, far \in InheritedFrom(world, KeyOf(u))
               PROVE  FALSE
    BY DEF IsInherited
  <2>1. PICK walk \in WalksTo(u.relation) : \E edge \in world :
          edge.object.type = walk.objectType /\ far = RelationKey(edge.object, walk.permission)
    BY DEF InheritedFrom, KeyOf, RelationKey
  <2>2. far.object.type = walk.objectType /\ far.relation = walk.permission
    BY <2>1 DEF RelationKey
  <2>3. u \in Tuples
    BY DEF Walkable
  <2> QED
    BY <2>2, <2>3 DEF Walkable, ReverseSound
<1>4. far = KeyOf(t)
  <2>1. CASE far = KeyOf(t)
    BY <2>1
  <2>2. CASE far \in InheritedFrom(world, KeyOf(t))
    BY <1>3, <2>2 DEF IsInherited
  <2> QED
    BY <1>2, <2>1, <2>2 DEF GivenBy
<1>5. InheritedFrom(world, far) \subseteq GivenBy(world, t)
  BY <1>3, <1>4 DEF GivenBy
<1>6. GivenBy(world, t) \subseteq Reach(world, subject)
  BY <1>2, ReachClosed DEF Walkable
<1> QED
  BY <1>5, <1>6

(* A part that grants has a leaf that grants.                              *)
IsLeafOf(world, height, subject, key, part, leaf) ==
    /\ <<key, leaf>> \in DOMAIN height
    /\ leaf.op \in {"this", "computed", "tupleToUserset"}
    /\ Satisfied(world, key, leaf, subject)
    /\ Asked(world, key, leaf) \subseteq Asked(world, key, part)

LEMMA GrantingLeaf ==
    ASSUME NEW world, NEW height, NEW subject, Walkable(world, height, subject),
           NEW key \in Keys, NEW part, <<key, part>> \in DOMAIN height,
           Satisfied(world, key, part, subject)
    PROVE  \E leaf : IsLeafOf(world, height, subject, key, part, leaf)
<1> DEFINE MayGrant(p) == <<key, p>> \in DOMAIN height /\ Satisfied(world, key, p, subject)
           HasLeaf(p) == \E leaf : IsLeafOf(world, height, subject, key, p, leaf)
           bad == {o \in DOMAIN height : /\ o = <<key, o[2]>>
                                         /\ MayGrant(o[2]) /\ ~ HasLeaf(o[2])}
           heights == {height[o] : o \in bad}
<1>1. SUFFICES ASSUME bad # {} PROVE FALSE
  <2>1. <<key, part>>[2] = part
    OBVIOUS
  <2>2. MayGrant(part)
    OBVIOUS
  <2> HIDE DEF MayGrant, HasLeaf
  <2>3. ~ HasLeaf(part) => <<key, part>> \in bad
    BY <2>1, <2>2
  <2> QED
    BY <1>1, <2>3 DEF HasLeaf
<1>2. PICK n \in heights : \A m \in heights : n <= m
  <2>1. heights \subseteq Nat
    BY DEF Walkable, ReverseSound
  <2>2. heights # {}
    BY <1>1
  <2> HIDE DEF heights
  <2> QED
    BY <2>1, <2>2, LeastNatural
<1>3. PICK o \in bad : height[o] = n
  BY <1>2
<1> DEFINE p == o[2]
<1>4. o = <<key, p>> /\ <<key, p>> \in DOMAIN height /\ Satisfied(world, key, p, subject)
      /\ ~ HasLeaf(p)
  BY <1>3
<1>5. ASSUME NEW q, MayGrant(q), height[<<key, q>>] < height[<<key, p>>]
      PROVE  HasLeaf(q)
  <2> SUFFICES ASSUME ~ HasLeaf(q) PROVE FALSE
    <3> HIDE DEF HasLeaf
    <3> QED
      OBVIOUS
  <2>1. <<key, q>>[2] = q /\ <<key, q>> \in DOMAIN height
    BY <1>5
  <2>2. <<key, q>> \in bad
    <3> HIDE DEF HasLeaf
    <3> QED
      BY <1>5, <2>1
  <2>3. n <= height[<<key, q>>] /\ height[<<key, q>>] \in Nat /\ n \in Nat
    <3>1. height[<<key, q>>] \in heights
      BY <2>2
    <3>2. heights \subseteq Nat
      BY DEF Walkable, ReverseSound
    <3> HIDE DEF heights
    <3> QED
      BY <1>2, <3>1, <3>2
  <2> QED
    BY <1>3, <1>4, <1>5, <2>3
<1> HIDE DEF bad, heights, p, HasLeaf
<1>6. /\ <<key, p>> \in Occurrences
      /\ AskedIs(world, key, p) /\ SatisfiedIs(world, key, p, subject)
  <2>1. <<key, p>> \in Occurrences
    BY <1>4 DEF Walkable, ReverseSound
  <2> QED
    BY <2>1 DEF Walkable, Explained, Compositional
<1>7. /\ p.op \in {"union", "intersection"} => p.children \in Seq(Rewrites(key))
      /\ p.op \in {"this", "computed", "tupleToUserset", "union", "intersection", "exclusion"}
      /\ p.op \in {"union", "intersection"} => \A i \in DOMAIN p.children :
           /\ <<key, p.children[i]>> \in DOMAIN height
           /\ height[<<key, p.children[i]>>] < height[<<key, p>>]
      /\ p.op = "exclusion" => /\ <<key, p.base>> \in DOMAIN height
                               /\ height[<<key, p.base>>] < height[<<key, p>>]
  <2>1. <<key, p>>[1] = key /\ <<key, p>>[2] = p
    OBVIOUS
  <2>2. p \in Rewrites(key)
    BY <1>6 DEF Occurrences
  <2>3. p.op \in {"union", "intersection"} => p.children \in Seq(Rewrites(key))
    BY <2>2 DEF Walkable, RewritesClosed
  <2> QED
    BY <1>4, <2>1, <2>3 DEF Walkable, ReverseSound
<1>8. ASSUME NEW q, HasLeaf(q), Asked(world, key, q) \subseteq Asked(world, key, p)
      PROVE  FALSE
  BY <1>4, <1>8 DEF HasLeaf, IsLeafOf
<1>9. CASE p.op \in {"this", "computed", "tupleToUserset"}
  BY <1>4, <1>9 DEF HasLeaf, IsLeafOf
<1>10. CASE p.op \in {"union", "intersection"}
  <2>1. PICK i \in DOMAIN p.children : Satisfied(world, key, p.children[i], subject)
    <3>1. CASE p.op = "union"
      BY <1>4, <1>6, <3>1 DEF SatisfiedIs
    <3>2. CASE p.op = "intersection"
      <4>1. p.children # << >>
            /\ \A i \in DOMAIN p.children : Satisfied(world, key, p.children[i], subject)
        BY <1>4, <1>6, <3>2 DEF SatisfiedIs
      <4>2. 1 \in DOMAIN p.children
        BY <1>7, <3>2, <4>1
      <4> QED
        BY <4>1, <4>2
    <3> QED
      BY <1>10, <3>1, <3>2
  <2> DEFINE q == p.children[i]
  <2>2. Asked(world, key, q) \subseteq Asked(world, key, p)
    BY <1>6, <1>10 DEF AskedIs
  <2>3. <<key, q>> \in DOMAIN height /\ height[<<key, q>>] < height[<<key, p>>]
    BY <1>7, <1>10, <2>1
  <2>4. MayGrant(q)
    BY <2>1, <2>3
  <2> HIDE DEF q, MayGrant
  <2>5. HasLeaf(q)
    BY <1>5, <2>3, <2>4
  <2> QED
    BY <1>8, <2>2, <2>5
<1>11. CASE p.op = "exclusion"
  <2>1. Satisfied(world, key, p.base, subject)
    <3>1. /\ Satisfied(world, key, p, subject)
             = (Satisfied(world, key, p.base, subject)
                  /\ ~ Satisfied(world, key, p.subtract, subject))
      BY <1>6, <1>11 DEF SatisfiedIs
    <3>2. /\ <<key, p.base>> \in Occurrences
          /\ Satisfied(world, key, p.base, subject) \in BOOLEAN
      BY <1>7, <1>11 DEF Walkable, ReverseSound, Explained, Compositional
    <3> QED
      BY <1>4, <3>1, <3>2
  <2>2. Asked(world, key, p.base) \subseteq Asked(world, key, p)
    BY <1>6, <1>11 DEF AskedIs
  <2>3. HasLeaf(p.base)
    BY <1>5, <1>7, <1>11, <2>1
  <2> QED
    BY <1>8, <2>2, <2>3
<1> QED
  BY <1>7, <1>9, <1>10, <1>11

(* A permission that holds is proposed by something within reach: by       *)
(* induction on its rank.                                                  *)
LEMMA PermissionReached ==
    ASSUME NEW world, NEW height, NEW subject, Walkable(world, height, subject),
           NEW key \in Keys, Ranked(world, key), Holds(world, key, subject)
    PROVE  \E relation \in Contributing(key.object.type, key.relation) :
             RelationKey(key.object, relation) \in Reach(world, subject)
<1> DEFINE IsMet(k) == \E relation \in Contributing(k.object.type, k.relation) :
                         RelationKey(k.object, relation) \in Reach(world, subject)
           bad == {k \in Keys : /\ Ranked(world, k) /\ Holds(world, k, subject)
                                /\ ~ IsMet(k)}
<1>1. SUFFICES ASSUME bad # {} PROVE FALSE
  OBVIOUS
<1>2. PICK k \in bad : \A other \in bad : ~ (Rank(world, other) < Rank(world, k))
  <2> HIDE DEF bad
  <2>1. bad \subseteq Keys
    BY DEF bad
  <2> QED
    BY <1>1, <2>1, LeastRank DEF Walkable, Explained
<1>3. k \in Keys /\ Ranked(world, k) /\ Holds(world, k, subject) /\ ~ IsMet(k)
  BY <1>2
<1>4. ASSUME NEW other \in Keys, Ranked(world, other), Holds(world, other, subject),
             Rank(world, other) < Rank(world, k)
      PROVE  IsMet(other)
  <2> HIDE DEF IsMet
  <2> QED
    BY <1>2, <1>4
<1> HIDE DEF bad
<1>5. k = RelationKey(k.object, k.relation)
  BY <1>3 DEF Walkable, RewritesClosed
<1>6. k \notin Reach(world, subject)
  <2>1. k.relation \in Contributing(k.object.type, k.relation)
    BY <1>3 DEF Walkable, ReverseSound
  <2> QED
    BY <1>3, <1>5, <2>1
<1> DEFINE rewrite == RewriteOf(k)
<1>7. /\ <<k, rewrite>> \in DOMAIN height
      /\ Settled(world, k, rewrite)
      /\ Satisfied(world, k, rewrite, subject)
  BY <1>3 DEF Walkable, ReverseSound, Explained, RankedGrounded
<1> HIDE DEF rewrite
<1>8. PICK leaf : IsLeafOf(world, height, subject, k, rewrite, leaf)
  BY <1>3, <1>7, GrantingLeaf
<1>9. /\ <<k, leaf>> \in Occurrences
      /\ AskedIs(world, k, leaf) /\ SatisfiedIs(world, k, leaf, subject)
  <2>1. <<k, leaf>> \in Occurrences
    BY <1>8 DEF Walkable, ReverseSound, IsLeafOf
  <2> QED
    BY <2>1 DEF Walkable, Explained, Compositional
<1>10. ASSUME NEW asked \in Asked(world, k, leaf)
       PROVE  asked \in Keys /\ Ranked(world, asked) /\ Rank(world, asked) < Rank(world, k)
  BY <1>7, <1>8, <1>9 DEF Settled, AskedIs, IsLeafOf
<1>11. CASE leaf.op = "this"
  <2>1. PICK t \in world :
          /\ KeyOf(t) = k
          /\ \/ t.subject = subject
             \/ /\ IsUserset(t.subject)
                /\ KeyOfMember(t.subject) \in Asked(world, k, leaf)
                /\ Holds(world, KeyOfMember(t.subject), subject)
    BY <1>3, <1>8, <1>9, <1>11, StoredGrants DEF Walkable, Explained, IsLeafOf
  <2>2. t.subject \in Sources(subject, Reach(world, subject))
    <3>1. CASE t.subject = subject
      BY <3>1, SourcesAre
    <3>2. CASE /\ IsUserset(t.subject)
               /\ KeyOfMember(t.subject) \in Asked(world, k, leaf)
               /\ Holds(world, KeyOfMember(t.subject), subject)
      <4> DEFINE member == KeyOfMember(t.subject)
      <4>1. t.subject = member /\ IsDirect(member)
        BY <3>2 DEF Walkable, IsPlain
      <4>2. member \in Keys /\ Ranked(world, member)
        BY <1>10, <3>2
      <4>3. member \in Reach(world, subject)
        BY <3>2, <4>1, <4>2, DirectReached
      <4>4. UsersetOf(member) = t.subject
        BY <4>1 DEF UsersetOf, KeyOfMember, RelationKey, Userset
      <4> QED
        BY <4>3, <4>4, SourcesAre
    <3> QED
      BY <2>1, <3>1, <3>2
  <2>3. GivenBy(world, t) \subseteq Reach(world, subject)
    BY <2>1, <2>2, ReachClosed DEF Walkable
  <2> QED
    BY <1>6, <2>1, <2>3 DEF GivenBy
<1>12. CASE leaf.op = "computed"
  <2> DEFINE other == RelationKey(k.object, leaf.relation)
  <2>1. other \in Asked(world, k, leaf) /\ Holds(world, other, subject)
    BY <1>8, <1>9, <1>12 DEF AskedIs, SatisfiedIs, IsLeafOf
  <2>2. IsMet(other)
    <3> HIDE DEF other, IsMet
    <3> QED
      BY <1>4, <1>10, <2>1
  <2>3. other.object = k.object /\ other.relation = leaf.relation
    BY DEF RelationKey
  <2>4. Contributing(k.object.type, leaf.relation)
          \subseteq Contributing(k.object.type, k.relation)
    <3>1. <<k, leaf>>[1] = k /\ <<k, leaf>>[2] = leaf
      OBVIOUS
    <3> QED
      BY <1>8, <1>12, <3>1 DEF Walkable, ReverseSound, IsLeafOf
  <2> HIDE DEF other
  <2> QED
    BY <1>3, <2>2, <2>3, <2>4
<1>13. CASE leaf.op = "tupleToUserset"
  <2>1. PICK t \in Stored(world, k.object, leaf.tupleset) :
          Holds(world, FarEnd(t, leaf.computed), subject)
    BY <1>8, <1>9, <1>13 DEF SatisfiedIs, IsLeafOf
  <2> DEFINE far == FarEnd(t, leaf.computed)
  <2>2. far \in Asked(world, k, leaf)
    BY <1>9, <1>13, <2>1 DEF AskedIs
  <2>3. <<k, leaf>>[1] = k /\ <<k, leaf>>[2] = leaf
    OBVIOUS
  <2>4. t.subject = Concrete(t.subject.object) /\ IsDirect(far)
    BY <1>8, <1>13, <2>1, <2>3 DEF Walkable, IsPlain, IsLeafOf
  <2>5. far \in Reach(world, subject)
    <3> HIDE DEF far
    <3> QED
      BY <1>10, <2>1, <2>2, <2>4, DirectReached DEF far
  <2>6. InheritedFrom(world, far) \subseteq Reach(world, subject)
    <3>1. far \in Keys
      BY <1>10, <2>2
    <3> HIDE DEF far
    <3> QED
      BY <2>4, <2>5, <3>1, InheritsReached
  <2>7. PICK walk \in WalksTo(leaf.computed) :
          /\ walk.objectType = k.object.type
          /\ walk.permission = k.relation
          /\ walk.tupleset = leaf.tupleset
    BY <1>8, <1>13, <2>3 DEF Walkable, ReverseSound, IsLeafOf
  <2>8. far.object = t.subject.object /\ far.relation = leaf.computed
    BY DEF FarEnd, RelationKey
  <2>9. t \in world /\ t.object = k.object /\ t.relation = leaf.tupleset
    BY <2>1 DEF Stored, KeyOf, RelationKey
  <2>10. RelationKey(t.object, walk.permission) \in InheritedFrom(world, far)
    <3> HIDE DEF far
    <3> QED
      BY <2>4, <2>7, <2>8, <2>9 DEF InheritedFrom
  <2>11. RelationKey(t.object, walk.permission) = k
    BY <1>5, <2>7, <2>9
  <2> QED
    BY <1>6, <2>6, <2>10, <2>11
<1> QED
  BY <1>8, <1>11, <1>12, <1>13 DEF IsLeafOf

----------------------------------------------------------------------------
(* Lists.                                                                  *)

(* A list whose world the walk may rely on.                                *)
IsWalkable(l, height) ==
    LET world == World(l.revision)
    IN IsPlain(world, height) /\ IsShallow(world, l.request.subject)

(* The page of all that is allowed, if no cycle is in the way.             *)
IsRankedExact(l) ==
    IsPageOf(l, {object \in Range(Ordered) : IsAllowed(l, object) /\ IsRanked(l, object)})

(* An allowed object is a candidate.                                       *)
LEMMA AllowedProposed ==
    ASSUME NEW worlds, Interpreted(worlds), ObjectsKnown, NEW height, ReverseSound(height),
           ListInv, ListRight(worlds), WalkComplete,
           NEW c \in Calls, Listed(c), IsWalkable(list[c], height),
           NEW object \in Range(Ordered), IsAllowed(list[c], object), IsRanked(list[c], object)
    PROVE  object \in list[c].candidates
<1> DEFINE l == list[c]
           world == World(l.revision)
           subject == l.request.subject
           key == RelationKey(object, l.request.permission)
<1>1. RequestKnown(l) /\ l.phase = "done" /\ l.revision \in 0..head /\ object.type = l.request.type
  BY DEF ListInv, ListOK, ListRight, Listed, IsAllowed
<1>2. subject \in Subjects /\ key \in Keys
  <2>1. PICK request \in Requests : /\ l.request.permission = request.permission
                                    /\ l.request.type = request.type
    BY <1>1 DEF RequestKnown, IsGiven
  <2> QED
    BY <1>1, <2>1 DEF RequestKnown, ObjectsKnown
<1>3. Ranked(world, key) /\ Holds(world, key, subject)
  BY DEF IsAllowed, IsRanked
<1>4. Walkable(world, height, subject)
  <2>1. RewritesClosed /\ Explained(world)
    BY <1>1 DEF Interpreted, ListRight, WorldsKnown, World
  <2>2. world \subseteq Tuples
    BY <1>1, WorldInTuples DEF ListInv
  <2> QED
    BY <1>2, <2>1, <2>2 DEF Walkable, IsWalkable
<1>5. key.object = object /\ key.relation = l.request.permission
  BY DEF RelationKey
<1> HIDE DEF key, world, subject
<1>6. PICK relation \in Contributing(key.object.type, key.relation) :
        RelationKey(key.object, relation) \in Reach(world, subject)
  BY <1>2, <1>3, <1>4, PermissionReached
<1>7. object \in Proposed(l.request, Reach(world, subject))
  <2> DEFINE met == RelationKey(object, relation)
  <2>1. met \in Reach(world, subject) /\ met.object = object /\ met.relation = relation
    BY <1>5, <1>6 DEF RelationKey
  <2>2. relation \in Contributing(l.request.type, l.request.permission)
    BY <1>1, <1>5, <1>6
  <2> HIDE DEF met
  <2> QED
    BY <1>1, <2>1, <2>2 DEF Proposed
<1>8. Proposed(l.request, Reach(world, subject)) \subseteq l.candidates
  BY DEF WalkComplete, Reach, world, subject
<1> QED
  BY <1>7, <1>8

(* So the page is that of all allowed objects.                             *)
LEMMA RankedListed ==
    ASSUME NEW worlds, Interpreted(worlds), ObjectsKnown, NEW height, ReverseSound(height),
           ListInv, ListRight(worlds), WalkComplete, PageExact,
           NEW c \in Calls, Listed(c), IsWalkable(list[c], height)
    PROVE  IsRankedExact(list[c])
<1> DEFINE l == list[c]
           ought == {object \in Range(Ordered) : IsAllowed(l, object) /\ IsRanked(l, object)}
           proposed == {object \in l.candidates : IsAllowed(l, object) /\ IsRanked(l, object)}
<1>1. ought \subseteq proposed
  BY AllowedProposed
<1>2. IsPageOf(l, proposed)
  BY DEF PageExact
<1> HIDE DEF l, ought, proposed
<1>3. IsPageOf(l, ought)
  BY <1>1, <1>2 DEF IsPageOf
<1> QED
  BY <1>3 DEF IsRankedExact, l, ought

(* Of the permissions that lead into no cycle, "ListObjects and Check must *)
(* never disagree": in a world where groups are made of, and objects       *)
(* inherit, stored relations of plain objects, and no chain of memberships *)
(* of the subject is longer than the limit, a list that is answered is the *)
(* first page, in order, of exactly the allowed objects, whatever other    *)
(* lists, checks and writes do meanwhile.                                  *)
THEOREM RankedListsExact ==
    ASSUME NEW worlds, Interpreted(worlds), ClosedUnder(worlds, Writes),
           RequestsKnown, ObjectsKnown, NEW height, ReverseSound(height)
    PROVE  Spec => [](\A c \in Calls : Listed(c) /\ IsWalkable(list[c], height)
                                         => IsRankedExact(list[c]))
<1> DEFINE Exact == \A c \in Calls : Listed(c) /\ IsWalkable(list[c], height)
                                       => IsRankedExact(list[c])
<1>1. ListInv /\ ListRight(worlds) /\ WalkComplete /\ PageExact => Exact
  BY RankedListed
<1>2. Spec => []ListRight(worlds)
  BY ListRightInvariance
<1>3. Spec => []PageExact
  BY PageCorrect
<1> HIDE DEF Exact
<1>4. Spec => []Exact
  BY <1>1, <1>2, <1>3, ListInvariance, WalkCorrect, PTL
<1> QED
  BY <1>4 DEF Exact

(* Where every world that writes bring about is one that the walk may rely *)
(* on, for every subject that is asked about, and has no cycle, every list *)
(* is exact.                                                               *)
THEOREM ListCorrect ==
    ASSUME NEW worlds, Interpreted(worlds), ClosedUnder(worlds, Writes),
           RequestsKnown, ObjectsKnown, NEW height, ReverseSound(height),
           \A world \in worlds :
             /\ Acyclic(world) /\ IsPlain(world, height)
             /\ \A request \in Requests : IsShallow(world, request.subject)
    PROVE  Spec => []ListExact
<1>1. ASSUME ListInv, ListRight(worlds), WalkComplete, PageExact
      PROVE  ListExact
  <2>1. ASSUME NEW c \in Calls, Listed(c)
        PROVE  IsExact(list[c])
    <3> DEFINE l == list[c]
               world == World(l.revision)
    <3>1. RequestKnown(l) /\ l.phase = "done" /\ l.revision \in 0..head
      BY <1>1, <2>1 DEF ListInv, ListOK, ListRight, Listed
    <3>2. PICK request \in Requests : /\ l.request.subject = request.subject
                                      /\ l.request.permission = request.permission
                                      /\ l.request.type = request.type
      BY <3>1 DEF RequestKnown, IsGiven
    <3>3. world \in worlds
      BY <1>1, <3>1 DEF ListRight, WorldsKnown, World
    <3>4. IsWalkable(l, height)
      BY <3>2, <3>3 DEF IsWalkable
    <3>5. IsRankedExact(l)
      BY <1>1, <2>1, <3>4, RankedListed
    <3>6. ASSUME NEW object \in Range(Ordered), IsAllowed(l, object)
          PROVE  IsRanked(l, object)
      <4>1. RelationKey(object, l.request.permission) \in Keys
        BY <3>2, <3>6 DEF ObjectsKnown, IsAllowed
      <4> QED
        BY <3>3, <4>1 DEF Acyclic, IsRanked
    <3>7. {object \in Range(Ordered) : IsAllowed(l, object) /\ IsRanked(l, object)}
            = {object \in Range(Ordered) : IsAllowed(l, object)}
      BY <3>6
    <3> QED
      BY <3>5, <3>7 DEF IsRankedExact, IsExact
  <2> QED
    BY <2>1 DEF ListExact
<1>2. Spec => []ListRight(worlds)
  BY ListRightInvariance
<1>3. Spec => []PageExact
  BY PageCorrect
<1> QED
  BY <1>1, <1>2, <1>3, ListInvariance, WalkCorrect, PTL
=============================================================================
