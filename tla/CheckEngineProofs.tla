------------------------- MODULE CheckEngineProofs -------------------------
(***************************************************************************)
(* Theorems about one evaluation of the check engine.                      *)
(*                                                                         *)
(* The first is about its stack, whatever the schema means.  The invariant *)
(* relates the depth of each pending call to the distinct subproblems that *)
(* it is nested in; it is stated frame by frame, so that a push or a pop   *)
(* disturbs one frame only.                                                *)
(*                                                                         *)
(* The others are about what it computes, which is what the equations of   *)
(* Meaning say.  Every pending call waits for a value and owes one to the  *)
(* call below it.  What is owed is a claim: the truth of a subproblem or   *)
(* of a rewrite, and whether the value must be that truth (it is sure) or  *)
(* may be a denial of it.  A frame links the claim that it waits for to    *)
(* the claim that it owes.  The claims are a second stack beside the stack *)
(* of frames.  There is one lemma for each way through check and eval, on  *)
(* evaluations alone, and last come the steps of the engine.               *)
(***************************************************************************)
EXTENDS CheckEngine, Meaning, FiniteSetTheorems, SequenceTheorems, TLAPS

----------------------------------------------------------------------------
(* The stack.                                                              *)

(* The subproblems that are pending below the first n frames.              *)
Below(s, n) == {KeyOfGoal(s[i].goal) : i \in {j \in DOMAIN s : j > n /\ s[j].kind = "check"}}

IsStack(s) == \E F : s \in Seq(F)

FrameInv(f) ==
    /\ f = Frame(f.kind, f.goal, f.todo)
    /\ f.kind \in FrameKinds
    /\ f.goal.depth \in 0..MaxDepth
    /\ f.kind \in {"check", "subtract"} => f.todo = << >>
    /\ f.kind = "base" => Len(f.todo) = 1

(* A pending check is nested in as many others as its depth says, and none *)
(* of them is of the same subproblem; a loop is nested in one more, the    *)
(* check that it evaluates.                                                *)
NestedAt(f, below) ==
    /\ IsFiniteSet(below)
    /\ IF f.kind = "check"
         THEN KeyOfGoal(f.goal) \notin below /\ f.goal.depth = Cardinality(below)
         ELSE f.goal.depth + 1 = Cardinality(below)

StackInv(s) ==
    /\ IsStack(s)
    /\ IsFiniteSet(Below(s, 0))
    /\ \A i \in 1..Len(s) : FrameInv(s[i]) /\ NestedAt(s[i], Below(s, i))

----------------------------------------------------------------------------
(* Stacks.                                                                 *)

LEMMA StackShape ==
    ASSUME NEW s, IsStack(s)
    PROVE  /\ Len(s) \in Nat
           /\ DOMAIN s = 1..Len(s)
           /\ s # << >> => Len(s) > 0 /\ Head(s) = s[1]
<1>1. PICK F : s \in Seq(F)
  BY DEF IsStack
<1>2. Len(s) \in Nat /\ DOMAIN s = 1..Len(s)
  BY <1>1, LenProperties
<1>3. s # << >> => Len(s) > 0 /\ Head(s) = s[1]
  BY <1>1, EmptySeq
<1> QED
  BY <1>2, <1>3

LEMMA PushShape ==
    ASSUME NEW s, IsStack(s), NEW f
    PROVE  LET t == <<f>> \o s
           IN  /\ IsStack(t)
               /\ t # << >>
               /\ Len(t) = Len(s) + 1
               /\ t[1] = f
               /\ \A i \in 1..Len(s) : t[i + 1] = s[i]
<1>1. PICK F : s \in Seq(F)
  BY DEF IsStack
<1> DEFINE G == F \cup {f}
           t == <<f>> \o s
<1>2. s \in Seq(G)
  BY <1>1, SeqMonotonic
<1>3. <<f>> \in Seq(G) /\ Len(<<f>>) = 1 /\ <<f>>[1] = f
  OBVIOUS
<1>4. /\ t \in Seq(G)
      /\ Len(t) = Len(<<f>>) + Len(s)
      /\ \A i \in 1..Len(<<f>>) + Len(s) :
            t[i] = IF i <= Len(<<f>>) THEN <<f>>[i] ELSE s[i - Len(<<f>>)]
  BY <1>2, <1>3, ConcatProperties
<1>5. Len(s) \in Nat
  BY <1>1, LenProperties
<1> HIDE DEF t
<1>6. Len(t) = Len(s) + 1
  BY <1>3, <1>4, <1>5
<1>7. t[1] = f
  BY <1>3, <1>4, <1>5
<1>8. \A i \in 1..Len(s) : t[i + 1] = s[i]
  BY <1>3, <1>4, <1>5
<1>9. t # << >>
  BY <1>5, <1>6, EmptySeq
<1> QED
  BY <1>4, <1>6, <1>7, <1>8, <1>9 DEF t, IsStack

LEMMA PopShape ==
    ASSUME NEW s, IsStack(s), s # << >>
    PROVE  /\ IsStack(Tail(s))
           /\ Len(Tail(s)) = Len(s) - 1
           /\ \A i \in 1..Len(Tail(s)) : Tail(s)[i] = s[i + 1]
<1>1. PICK F : s \in Seq(F)
  BY DEF IsStack
<1> QED
  BY <1>1, HeadTailProperties DEF IsStack

LEMMA ReplaceShape ==
    ASSUME NEW s, IsStack(s), s # << >>, NEW f
    PROVE  LET t == [s EXCEPT ![1] = f]
           IN  /\ IsStack(t)
               /\ t # << >>
               /\ Len(t) = Len(s)
               /\ t[1] = f
               /\ \A i \in 2..Len(s) : t[i] = s[i]
<1>1. PICK F : s \in Seq(F)
  BY DEF IsStack
<1> DEFINE G == F \cup {f}
           t == [s EXCEPT ![1] = f]
<1>2. s \in Seq(G) /\ f \in G
  BY <1>1, SeqMonotonic
<1>3. Len(s) \in Nat /\ 1 \in 1..Len(s)
  BY StackShape
<1>4. /\ t \in Seq(G)
      /\ Len(t) = Len(s)
      /\ \A j \in 1..Len(s) : t[j] = IF j = 1 THEN f ELSE s[j]
  BY <1>2, <1>3, ExceptSeq
<1> HIDE DEF t
<1>5. t # << >>
  BY <1>3, <1>4, EmptySeq
<1>6. t[1] = f /\ \A i \in 2..Len(s) : t[i] = s[i]
  BY <1>3, <1>4
<1> QED
  BY <1>4, <1>5, <1>6 DEF t, IsStack

----------------------------------------------------------------------------
(* What is pending below a frame.                                          *)

LEMMA BelowIs ==
    ASSUME NEW s, IsStack(s), NEW n
    PROVE  Below(s, n) = {KeyOfGoal(s[i].goal) :
                            i \in {j \in 1..Len(s) : j > n /\ s[j].kind = "check"}}
BY StackShape DEF Below

LEMMA BelowTop ==
    ASSUME NEW s, IsStack(s), s # << >>
    PROVE  Below(s, 0) = IF s[1].kind = "check"
                           THEN Below(s, 1) \cup {KeyOfGoal(s[1].goal)}
                           ELSE Below(s, 1)
<1> DEFINE above(n) == {j \in 1..Len(s) : j > n /\ s[j].kind = "check"}
<1>1. Len(s) \in Nat /\ Len(s) > 0
  BY StackShape
<1>2. above(0) = IF s[1].kind = "check" THEN above(1) \cup {1} ELSE above(1)
  BY <1>1
<1>3. /\ Below(s, 0) = {KeyOfGoal(s[i].goal) : i \in above(0)}
      /\ Below(s, 1) = {KeyOfGoal(s[i].goal) : i \in above(1)}
  BY BelowIs
<1> HIDE DEF above
<1> QED
  BY <1>2, <1>3

LEMMA BelowPush ==
    ASSUME NEW s, IsStack(s), NEW f, NEW n \in Nat
    PROVE  LET t == <<f>> \o s
           IN  /\ Below(t, n + 1) = Below(s, n)
               /\ Below(t, 0) = IF f.kind = "check"
                                  THEN Below(s, 0) \cup {KeyOfGoal(f.goal)}
                                  ELSE Below(s, 0)
<1> DEFINE t == <<f>> \o s
<1>1. /\ IsStack(t) /\ t # << >>
      /\ Len(s) \in Nat
      /\ Len(t) = Len(s) + 1
      /\ t[1] = f
      /\ \A i \in 1..Len(s) : t[i + 1] = s[i]
  BY PushShape, StackShape
<1> HIDE DEF t
<1>2. ASSUME NEW m \in Nat
      PROVE  Below(t, m + 1) = Below(s, m)
  <2>1. ASSUME NEW i \in 1..Len(s), i > m, s[i].kind = "check"
        PROVE  KeyOfGoal(s[i].goal) \in Below(t, m + 1)
    <3>1. i + 1 \in 1..Len(t) /\ i + 1 > m + 1 /\ t[i + 1] = s[i]
      BY <1>1, <2>1
    <3> QED
      BY <1>1, <2>1, <3>1, BelowIs
  <2>2. ASSUME NEW i \in 1..Len(t), i > m + 1, t[i].kind = "check"
        PROVE  KeyOfGoal(t[i].goal) \in Below(s, m)
    <3>1. i - 1 \in 1..Len(s) /\ i - 1 > m /\ t[i] = s[i - 1]
      BY <1>1, <2>2
    <3> QED
      BY <2>2, <3>1, BelowIs
  <2>3. /\ Below(t, m + 1) = {KeyOfGoal(t[i].goal) :
                              i \in {j \in 1..Len(t) : j > m + 1 /\ t[j].kind = "check"}}
        /\ Below(s, m) = {KeyOfGoal(s[i].goal) :
                            i \in {j \in 1..Len(s) : j > m /\ s[j].kind = "check"}}
    BY <1>1, BelowIs
  <2> QED
    BY <2>1, <2>2, <2>3
<1>3. Below(t, 0) = IF f.kind = "check" THEN Below(t, 1) \cup {KeyOfGoal(f.goal)}
                                        ELSE Below(t, 1)
  BY <1>1, BelowTop
<1>4. Below(t, 1) = Below(s, 0)
  BY <1>2
<1> QED
  BY <1>2, <1>3, <1>4 DEF t

LEMMA BelowPop ==
    ASSUME NEW s, IsStack(s), s # << >>, NEW n \in Nat
    PROVE  Below(Tail(s), n) = Below(s, n + 1)
<1> DEFINE t == Tail(s)
<1>1. /\ IsStack(t)
      /\ Len(s) \in Nat
      /\ Len(t) = Len(s) - 1
      /\ \A i \in 1..Len(t) : t[i] = s[i + 1]
  BY PopShape, StackShape
<1> HIDE DEF t
<1>2. ASSUME NEW i \in 1..Len(t), i > n, t[i].kind = "check"
      PROVE  KeyOfGoal(t[i].goal) \in Below(s, n + 1)
  <2>1. i + 1 \in 1..Len(s) /\ i + 1 > n + 1 /\ t[i] = s[i + 1]
    BY <1>1, <1>2
  <2> QED
    BY <1>2, <2>1, BelowIs
<1>3. ASSUME NEW i \in 1..Len(s), i > n + 1, s[i].kind = "check"
      PROVE  KeyOfGoal(s[i].goal) \in Below(t, n)
  <2>1. i - 1 \in 1..Len(t) /\ i - 1 > n /\ s[i] = t[i - 1]
    BY <1>1, <1>3
  <2> QED
    BY <1>1, <1>3, <2>1, BelowIs
<1>4. /\ Below(t, n) = {KeyOfGoal(t[i].goal) :
                          i \in {j \in 1..Len(t) : j > n /\ t[j].kind = "check"}}
      /\ Below(s, n + 1) = {KeyOfGoal(s[i].goal) :
                              i \in {j \in 1..Len(s) : j > n + 1 /\ s[j].kind = "check"}}
  BY <1>1, BelowIs
<1>5. Below(t, n) = Below(s, n + 1)
  BY <1>2, <1>3, <1>4
<1> QED
  BY <1>5 DEF t

LEMMA BelowReplace ==
    ASSUME NEW s, IsStack(s), s # << >>, NEW f, NEW n \in Nat, n > 0
    PROVE  Below([s EXCEPT ![1] = f], n) = Below(s, n)
<1> DEFINE t == [s EXCEPT ![1] = f]
<1>1. /\ IsStack(t)
      /\ Len(s) \in Nat
      /\ Len(t) = Len(s)
      /\ \A i \in 2..Len(s) : t[i] = s[i]
  BY ReplaceShape, StackShape
<1> HIDE DEF t
<1>2. \A i \in 1..Len(s) : i > n => t[i] = s[i]
  BY <1>1
<1> DEFINE above(u) == {j \in 1..Len(u) : j > n /\ u[j].kind = "check"}
<1>3. above(t) = above(s) /\ \A i \in above(s) : t[i] = s[i]
  BY <1>1, <1>2
<1>4. /\ Below(t, n) = {KeyOfGoal(t[i].goal) : i \in above(t)}
      /\ Below(s, n) = {KeyOfGoal(s[i].goal) : i \in above(s)}
  BY <1>1, BelowIs
<1> HIDE DEF above
<1>5. Below(t, n) = Below(s, n)
  BY <1>3, <1>4
<1> QED
  BY <1>5 DEF t

----------------------------------------------------------------------------
(* The invariant of the stack.                                             *)

LEMMA EmptyStackInv == StackInv(<< >>) /\ Below(<< >>, 0) = {}
<1>1. IsStack(<< >>)
  <2>1. << >> \in Seq({})
    BY EmptySeq
  <2> QED
    BY <2>1 DEF IsStack
<1>2. Len(<< >>) = 0
  BY EmptySeq
<1>3. Below(<< >>, 0) = {}
  BY <1>2 DEF Below
<1>4. IsFiniteSet(Below(<< >>, 0))
  BY <1>3, FS_EmptySet
<1>5. \A i \in 1..Len(<< >>) : FALSE
  BY <1>2
<1> QED
  BY <1>1, <1>3, <1>4, <1>5, Zenon DEF StackInv

(* A frame knows how many subproblems are pending with it and below it.    *)
LEMMA NestedUpTo ==
    ASSUME NEW f, NEW below, NestedAt(f, below), f.goal.depth \in Nat
    PROVE  LET upTo == IF f.kind = "check" THEN below \cup {KeyOfGoal(f.goal)} ELSE below
           IN  IsFiniteSet(upTo) /\ Cardinality(upTo) = f.goal.depth + 1
<1>1. CASE f.kind = "check"
  BY <1>1, FS_AddElement DEF NestedAt
<1>2. CASE f.kind # "check"
  BY <1>2 DEF NestedAt
<1> QED
  BY <1>1, <1>2

LEMMA TopInv ==
    ASSUME NEW s, StackInv(s), s # << >>
    PROVE  /\ Head(s) = s[1]
           /\ FrameInv(s[1])
           /\ NestedAt(s[1], Below(s, 1))
           /\ Cardinality(Below(s, 0)) = s[1].goal.depth + 1
<1>1. IsStack(s) /\ Len(s) \in Nat /\ Len(s) > 0 /\ Head(s) = s[1]
  BY StackShape DEF StackInv
<1>2. FrameInv(s[1]) /\ NestedAt(s[1], Below(s, 1))
  BY <1>1 DEF StackInv
<1>3. s[1].goal.depth \in Nat
  BY <1>2, EngineAssumption DEF FrameInv
<1> QED
  BY <1>1, <1>2, <1>3, NestedUpTo, BelowTop

LEMMA PushInv ==
    ASSUME NEW s, StackInv(s), NEW f, FrameInv(f), NestedAt(f, Below(s, 0))
    PROVE  LET t == <<f>> \o s
           IN  StackInv(t) /\ t # << >> /\ t[1] = f
<1> DEFINE t == <<f>> \o s
<1>1. /\ IsStack(s) /\ IsStack(t)
      /\ t # << >>
      /\ Len(s) \in Nat
      /\ Len(t) = Len(s) + 1
      /\ t[1] = f
      /\ \A i \in 1..Len(s) : t[i + 1] = s[i]
  BY PushShape, StackShape DEF StackInv
<1>2. \A n \in Nat : Below(t, n + 1) = Below(s, n)
  BY <1>1, BelowPush
<1>3. IsFiniteSet(Below(t, 0))
  <2>1. Below(t, 0) = IF f.kind = "check" THEN Below(s, 0) \cup {KeyOfGoal(f.goal)}
                                          ELSE Below(s, 0)
    BY <1>1, BelowPush
  <2>2. f.goal.depth \in Nat
    BY EngineAssumption DEF FrameInv
  <2> QED
    BY <2>1, <2>2, NestedUpTo
<1> HIDE DEF t
<1>4. ASSUME NEW i \in 1..Len(t)
      PROVE  FrameInv(t[i]) /\ NestedAt(t[i], Below(t, i))
  <2>1. CASE i = 1
    <3>1. Below(t, 1) = Below(s, 0)
      BY <1>2
    <3> QED
      BY <1>1, <2>1, <3>1
  <2>2. CASE i # 1
    <3>1. i - 1 \in 1..Len(s) /\ (i - 1) + 1 = i
      BY <1>1, <2>2
    <3>2. t[i] = s[i - 1]
      BY <1>1, <3>1
    <3>3. Below(t, i) = Below(s, i - 1)
      BY <1>2, <3>1
    <3> QED
      BY <3>1, <3>2, <3>3 DEF StackInv
  <2> QED
    BY <2>1, <2>2
<1> QED
  BY <1>1, <1>3, <1>4 DEF t, StackInv

LEMMA PopInv ==
    ASSUME NEW s, StackInv(s), s # << >>
    PROVE  StackInv(Tail(s))
<1> DEFINE t == Tail(s)
<1>1. /\ IsStack(s) /\ IsStack(t)
      /\ Len(s) \in Nat
      /\ Len(t) = Len(s) - 1
      /\ \A i \in 1..Len(t) : t[i] = s[i + 1]
  BY PopShape, StackShape DEF StackInv
<1>2. \A n \in Nat : Below(t, n) = Below(s, n + 1)
  BY <1>1, BelowPop
<1> HIDE DEF t
<1>3. IsFiniteSet(Below(t, 0))
  <2>1. Below(t, 0) = Below(s, 1)
    BY <1>2
  <2> QED
    BY <2>1, TopInv DEF NestedAt
<1>4. ASSUME NEW i \in 1..Len(t)
      PROVE  FrameInv(t[i]) /\ NestedAt(t[i], Below(t, i))
  <2>1. i + 1 \in 1..Len(s) /\ t[i] = s[i + 1]
    BY <1>1
  <2>2. Below(t, i) = Below(s, i + 1)
    BY <1>1, <1>2
  <2> QED
    BY <2>1, <2>2 DEF StackInv
<1> QED
  BY <1>1, <1>3, <1>4 DEF t, StackInv

(* The top frame may change what is left to do, and its kind between loops *)
(* or halves of an exclusion, as long as it waits for the same goal.       *)
LEMMA ReplaceInv ==
    ASSUME NEW s, StackInv(s), s # << >>, NEW f, FrameInv(f),
           f.goal = s[1].goal, f.kind # "check", s[1].kind # "check"
    PROVE  LET t == [s EXCEPT ![1] = f]
           IN  StackInv(t) /\ t # << >> /\ t[1] = f
<1> DEFINE t == [s EXCEPT ![1] = f]
<1>1. /\ IsStack(s) /\ IsStack(t)
      /\ t # << >>
      /\ Len(s) \in Nat /\ Len(s) > 0
      /\ Len(t) = Len(s)
      /\ t[1] = f
      /\ \A i \in 2..Len(s) : t[i] = s[i]
  BY ReplaceShape, StackShape DEF StackInv
<1>2. ASSUME NEW n \in 1..Len(s)
      PROVE  Below(t, n) = Below(s, n)
  <2>1. n \in Nat /\ n > 0
    BY <1>1
  <2> QED
    BY <1>1, <2>1, BelowReplace
<1> HIDE DEF t
<1>3. Below(t, 0) = Below(s, 0)
  <2>1. Below(t, 1) = Below(s, 1)
    BY <1>1, <1>2
  <2> QED
    BY <1>1, <2>1, BelowTop
<1>4. ASSUME NEW i \in 1..Len(t)
      PROVE  FrameInv(t[i]) /\ NestedAt(t[i], Below(t, i))
  <2>1. CASE i = 1
    BY <1>1, <1>2, <2>1, TopInv DEF NestedAt
  <2>2. CASE i # 1
    BY <1>1, <1>2, <2>2 DEF StackInv
  <2> QED
    BY <2>1, <2>2
<1> QED
  BY <1>1, <1>3, <1>4 DEF t, StackInv

----------------------------------------------------------------------------
(* The invariant of an evaluation.                                         *)

Phases == {"idle", "resolve", "check", "eval", "loop", "return", "done"}

Errors == {"none", "canceled", "depth", "lookup", "store"}

IsEvaluation(e) ==
    e = [phase |-> e.phase, request |-> e.request, revision |-> e.revision,
         goal |-> e.goal, rewrite |-> e.rewrite, value |-> e.value,
         stack |-> e.stack, memo |-> e.memo, error |-> e.error]

Decisions(f) == \A k \in DOMAIN f : f[k] \in BOOLEAN

(* What holds also in the middle of a step.                                *)
EvalBase(e) ==
    /\ IsEvaluation(e)
    /\ StackInv(e.stack)
    /\ Decisions(e.memo)
    /\ e.value \in BOOLEAN
    /\ e.error \in Errors

Depth(e) == Cardinality(Below(e.stack, 0))

EvalInv(e) ==
    /\ EvalBase(e)
    /\ e.phase \in Phases
    /\ e.phase = "check" => e.goal.depth = Depth(e)
    /\ e.phase = "eval" => /\ e.stack # << >>
                           /\ e.goal.depth \in 0..MaxDepth
                           /\ e.goal.depth + 1 = Depth(e)
    /\ e.phase = "loop" => e.stack # << >>
    /\ e.phase \in {"idle", "resolve", "done"} => e.stack = << >>

(* The request and its revision stay as they are.                          *)
Keeps(e, f) == f.request = e.request /\ f.revision = e.revision

LEMMA DepthIsVisiting ==
    ASSUME NEW e, StackInv(e.stack)
    PROVE  Depth(e) = Cardinality(Visiting(e)) /\ Visiting(e) = Below(e.stack, 0)
<1>1. IsStack(e.stack)
  BY DEF StackInv
<1>2. \A j \in DOMAIN e.stack : j > 0
  BY <1>1, StackShape
<1>3. Visiting(e) = Below(e.stack, 0)
  BY <1>2 DEF Visiting, Below
<1> QED
  BY <1>3 DEF Depth

----------------------------------------------------------------------------
(* The operators that a step is composed of.                               *)

LEMMA EvaluationFields ==
    ASSUME NEW p, NEW q, NEW r, NEW g, NEW w, NEW v, NEW s, NEW m, NEW x, NEW f,
           f = [phase |-> p, request |-> q, revision |-> r, goal |-> g, rewrite |-> w,
                value |-> v, stack |-> s, memo |-> m, error |-> x]
    PROVE  /\ IsEvaluation(f)
           /\ f.phase = p /\ f.request = q /\ f.revision = r /\ f.goal = g
           /\ f.value = v /\ f.stack = s /\ f.memo = m /\ f.error = x
BY DEF IsEvaluation

LEMMA MovedBase ==
    ASSUME NEW e, EvalBase(e), NEW phase, NEW goal, NEW rewrite, NEW value \in BOOLEAN,
           NEW f, f = Moved(e, phase, goal, rewrite, value)
    PROVE  /\ EvalBase(f)
           /\ f.phase = phase /\ f.goal = goal /\ f.value = value
           /\ f.stack = e.stack
           /\ Keeps(e, f)
<1> DEFINE e1 == [e EXCEPT !.phase = phase]
           e2 == [e1 EXCEPT !.goal = goal]
           e3 == [e2 EXCEPT !.rewrite = rewrite]
<1>1. e1 = [phase |-> phase, request |-> e.request, revision |-> e.revision,
            goal |-> e.goal, rewrite |-> e.rewrite, value |-> e.value,
            stack |-> e.stack, memo |-> e.memo, error |-> e.error]
  BY DEF EvalBase, IsEvaluation
<1>2. f = [e3 EXCEPT !.value = value]
  BY DEF Moved
<1> HIDE DEF e1
<1>3. f = [phase |-> phase, request |-> e.request, revision |-> e.revision,
           goal |-> goal, rewrite |-> rewrite, value |-> value,
           stack |-> e.stack, memo |-> e.memo, error |-> e.error]
  BY <1>1, <1>2
<1>4. /\ f.phase = phase /\ f.goal = goal /\ f.value = value /\ f.stack = e.stack
      /\ f.memo = e.memo /\ f.error = e.error
      /\ f.request = e.request /\ f.revision = e.revision
      /\ IsEvaluation(f)
  BY <1>3, EvaluationFields
<1> QED
  BY <1>4 DEF EvalBase, Keeps

LEMMA CheckInv ==
    ASSUME NEW e, EvalBase(e), NEW goal, goal.depth = Depth(e),
           NEW f, f = Check(e, goal)
    PROVE  EvalInv(f) /\ Keeps(e, f)
<1> DEFINE no == FALSE
<1>1. f = Moved(e, "check", goal, NoRewrite, no) /\ no \in BOOLEAN
  BY DEF Check
<1> HIDE DEF no
<1>2. /\ EvalBase(f) /\ Keeps(e, f)
      /\ f.phase = "check" /\ f.goal = goal /\ f.stack = e.stack
  BY <1>1, MovedBase
<1> QED
  BY <1>2 DEF EvalInv, Depth, Phases

LEMMA EvalStepInv ==
    ASSUME NEW e, EvalBase(e), NEW goal, NEW rewrite, e.stack # << >>,
           goal.depth \in 0..MaxDepth, goal.depth + 1 = Depth(e),
           NEW f, f = Eval(e, goal, rewrite)
    PROVE  EvalInv(f) /\ Keeps(e, f)
<1> DEFINE no == FALSE
<1>1. f = Moved(e, "eval", goal, rewrite, no) /\ no \in BOOLEAN
  BY DEF Eval
<1> HIDE DEF no
<1>2. /\ EvalBase(f) /\ Keeps(e, f)
      /\ f.phase = "eval" /\ f.goal = goal /\ f.stack = e.stack
  BY <1>1, MovedBase
<1> QED
  BY <1>2 DEF EvalInv, Depth, Phases

LEMMA ContinueInv ==
    ASSUME NEW e, EvalBase(e), e.stack # << >>, NEW f, f = Continue(e)
    PROVE  EvalInv(f) /\ Keeps(e, f)
<1> DEFINE no == FALSE
<1>1. f = Moved(e, "loop", NoGoal, NoRewrite, no) /\ no \in BOOLEAN
  BY DEF Continue
<1> HIDE DEF no
<1>2. EvalBase(f) /\ Keeps(e, f) /\ f.phase = "loop" /\ f.stack = e.stack
  BY <1>1, MovedBase
<1> QED
  BY <1>2 DEF EvalInv, Phases

LEMMA ReturnInv ==
    ASSUME NEW e, EvalBase(e), NEW value \in BOOLEAN, NEW f, f = Return(e, value)
    PROVE  EvalInv(f) /\ Keeps(e, f)
<1>1. f = Moved(e, "return", NoGoal, NoRewrite, value)
  BY DEF Return
<1>2. EvalBase(f) /\ Keeps(e, f) /\ f.phase = "return"
  BY <1>1, MovedBase
<1> QED
  BY <1>2 DEF EvalInv, Phases

(* Another stack in the same evaluation.                                   *)
Restack(e, s) == [e EXCEPT !.stack = s]

LEMMA RestackBase ==
    ASSUME NEW e, EvalBase(e), NEW s, StackInv(s), NEW f, f = Restack(e, s)
    PROVE  /\ EvalBase(f)
           /\ f.stack = s /\ f.phase = e.phase /\ f.goal = e.goal /\ f.value = e.value
           /\ Keeps(e, f)
<1>1. f = [phase |-> e.phase, request |-> e.request, revision |-> e.revision,
           goal |-> e.goal, rewrite |-> e.rewrite, value |-> e.value,
           stack |-> s, memo |-> e.memo, error |-> e.error]
  BY DEF EvalBase, IsEvaluation, Restack
<1>2. /\ f.phase = e.phase /\ f.goal = e.goal /\ f.value = e.value /\ f.stack = s
      /\ f.memo = e.memo /\ f.error = e.error
      /\ f.request = e.request /\ f.revision = e.revision
      /\ IsEvaluation(f)
  BY ONLY <1>1, EvaluationFields
<1> QED
  BY <1>2 DEF EvalBase, Keeps

LEMMA MemoBase ==
    ASSUME NEW e, EvalBase(e), NEW k, NEW value \in BOOLEAN,
           NEW f, f = [e EXCEPT !.memo = Put(@, k, value)]
    PROVE  /\ EvalBase(f)
           /\ f.stack = e.stack /\ f.phase = e.phase /\ f.value = e.value
           /\ Keeps(e, f)
<1> DEFINE memo == Put(e.memo, k, value)
<1>1. f = [phase |-> e.phase, request |-> e.request, revision |-> e.revision,
           goal |-> e.goal, rewrite |-> e.rewrite, value |-> e.value,
           stack |-> e.stack, memo |-> memo, error |-> e.error]
  BY DEF EvalBase, IsEvaluation
<1>2. Decisions(memo)
  BY DEF EvalBase, Decisions, Put
<1> HIDE DEF memo
<1>3. /\ f.phase = e.phase /\ f.goal = e.goal /\ f.value = e.value /\ f.stack = e.stack
      /\ f.memo = memo /\ f.error = e.error
      /\ f.request = e.request /\ f.revision = e.revision
      /\ IsEvaluation(f)
  BY ONLY <1>1, EvaluationFields
<1> QED
  BY <1>2, <1>3 DEF EvalBase, Keeps

LEMMA FrameFields ==
    ASSUME NEW kind, NEW goal, NEW todo, NEW f, f = Frame(kind, goal, todo)
    PROVE  f.kind = kind /\ f.goal = goal /\ f.todo = todo
BY DEF Frame

LEMMA FrameTodo ==
    ASSUME NEW f, f = Frame(f.kind, f.goal, f.todo), NEW todo
    PROVE  [f EXCEPT !.todo = todo] = Frame(f.kind, f.goal, todo)
BY DEF Frame

LEMMA PushBase ==
    ASSUME NEW e, EvalBase(e), NEW kind, NEW todo,
           FrameInv(Frame(kind, e.goal, todo)),
           NestedAt(Frame(kind, e.goal, todo), Below(e.stack, 0)),
           NEW f, f = Push(e, kind, todo)
    PROVE  /\ EvalBase(f)
           /\ f.stack # << >>
           /\ Depth(f) = e.goal.depth + 1
           /\ Keeps(e, f)
<1> DEFINE new == Frame(kind, e.goal, todo)
           s == <<new>> \o e.stack
<1>1. StackInv(s) /\ s # << >> /\ s[1] = new
  BY PushInv DEF EvalBase
<1>2. f = Restack(e, s)
  BY DEF Push, Restack
<1>3. new.goal = e.goal
  BY FrameFields
<1> HIDE DEF s, new
<1>4. EvalBase(f) /\ f.stack = s /\ Keeps(e, f)
  BY <1>1, <1>2, RestackBase
<1>5. Depth(f) = e.goal.depth + 1
  BY <1>1, <1>3, <1>4, TopInv DEF Depth
<1> QED
  BY <1>1, <1>4, <1>5

LEMMA PushEvalInv ==
    ASSUME NEW e, EvalBase(e), NEW kind, NEW todo, NEW rewrite,
           e.goal.depth \in 0..MaxDepth,
           FrameInv(Frame(kind, e.goal, todo)),
           NestedAt(Frame(kind, e.goal, todo), Below(e.stack, 0)),
           NEW f, f = Eval(Push(e, kind, todo), e.goal, rewrite)
    PROVE  EvalInv(f) /\ Keeps(e, f)
<1> DEFINE g == Push(e, kind, todo)
<1>1. EvalBase(g) /\ g.stack # << >> /\ Depth(g) = e.goal.depth + 1 /\ Keeps(e, g)
  BY PushBase
<1> HIDE DEF g
<1>2. f = Eval(g, e.goal, rewrite)
  BY DEF g
<1>3. EvalInv(f) /\ Keeps(g, f)
  BY <1>1, <1>2, EvalStepInv
<1> QED
  BY <1>1, <1>3 DEF Keeps

LoopKinds == {"members", "union", "intersection"}

(* A frame that is pushed by eval waits for the goal of the check below.   *)
LEMMA EvalFrame ==
    ASSUME NEW e, EvalInv(e), e.phase = "eval", NEW kind, NEW todo,
           kind \in LoopKinds \/ (kind = "base" /\ Len(todo) = 1)
    PROVE  /\ FrameInv(Frame(kind, e.goal, todo))
           /\ NestedAt(Frame(kind, e.goal, todo), Below(e.stack, 0))
<1> DEFINE new == Frame(kind, e.goal, todo)
<1>1. new.kind = kind /\ new.goal = e.goal /\ new.todo = todo
  BY FrameFields
<1>2. new = Frame(new.kind, new.goal, new.todo)
  BY <1>1
<1> HIDE DEF new
<1>3. e.goal.depth \in 0..MaxDepth /\ e.goal.depth + 1 = Cardinality(Below(e.stack, 0))
  BY DEF EvalInv, Depth
<1>4. IsFiniteSet(Below(e.stack, 0))
  BY DEF EvalInv, EvalBase, StackInv
<1>5. FrameInv(new)
  BY <1>1, <1>2, <1>3 DEF FrameInv, LoopKinds, FrameKinds
<1>6. NestedAt(new, Below(e.stack, 0))
  BY <1>1, <1>3, <1>4 DEF NestedAt, LoopKinds
<1> QED
  BY <1>5, <1>6 DEF new

LEMMA LoopInv ==
    ASSUME NEW e, EvalInv(e), e.phase = "eval", NEW kind \in LoopKinds, NEW todo,
           NEW f, f = Loop(e, kind, todo)
    PROVE  EvalInv(f) /\ Keeps(e, f)
<1> DEFINE g == Push(e, kind, todo)
<1>1. EvalBase(g) /\ g.stack # << >> /\ Keeps(e, g)
  BY EvalFrame, PushBase DEF EvalInv
<1>2. f = Continue(g)
  BY DEF Loop
<1> HIDE DEF g
<1>3. EvalInv(f) /\ Keeps(g, f)
  BY <1>1, <1>2, ContinueInv
<1> QED
  BY <1>1, <1>3 DEF Keeps

LEMMA PopBase ==
    ASSUME NEW e, EvalBase(e), e.stack # << >>, NEW f, f = Pop(e)
    PROVE  EvalBase(f) /\ f.phase = e.phase /\ f.value = e.value /\ Keeps(e, f)
<1>1. StackInv(Tail(e.stack))
  BY PopInv DEF EvalBase
<1>2. f = Restack(e, Tail(e.stack))
  BY DEF Pop, Restack
<1> QED
  BY <1>1, <1>2, RestackBase

LEMMA PopReturningInv ==
    ASSUME NEW e, EvalBase(e), e.stack # << >>, e.phase = "return", NEW f, f = Pop(e)
    PROVE  EvalInv(f) /\ Keeps(e, f)
<1>1. EvalBase(f) /\ f.phase = "return" /\ Keeps(e, f)
  BY PopBase
<1> QED
  BY <1>1 DEF EvalInv, Phases

LEMMA PopReturnInv ==
    ASSUME NEW e, EvalBase(e), e.stack # << >>, NEW value \in BOOLEAN,
           NEW f, f = Return(Pop(e), value)
    PROVE  EvalInv(f) /\ Keeps(e, f)
<1> DEFINE g == Pop(e)
<1>1. EvalBase(g) /\ Keeps(e, g)
  BY PopBase
<1>2. f = Return(g, value)
  OBVIOUS
<1> HIDE DEF g
<1>3. EvalInv(f) /\ Keeps(g, f)
  BY <1>1, <1>2, ReturnInv
<1> QED
  BY <1>1, <1>3 DEF Keeps

LEMMA TopOf ==
    ASSUME NEW e, EvalBase(e), e.stack # << >>
    PROVE  /\ Top(e) = e.stack[1]
           /\ FrameInv(Top(e))
           /\ Top(e).goal.depth \in 0..MaxDepth
           /\ Top(e).goal.depth + 1 = Depth(e)
<1>1. /\ Head(e.stack) = e.stack[1]
      /\ FrameInv(e.stack[1])
      /\ Cardinality(Below(e.stack, 0)) = e.stack[1].goal.depth + 1
  BY TopInv DEF EvalBase
<1> QED
  BY <1>1 DEF Top, Depth, FrameInv

(* The top frame is replaced by one that waits for the same goal.          *)
LEMMA RetopBase ==
    ASSUME NEW e, EvalBase(e), e.stack # << >>, Top(e).kind # "check",
           NEW new, FrameInv(new), new.goal = Top(e).goal, new.kind # "check",
           NEW s, s = [e.stack EXCEPT ![1] = new], NEW f, f = Restack(e, s)
    PROVE  /\ EvalBase(f)
           /\ f.stack # << >>
           /\ Depth(f) = Depth(e)
           /\ Keeps(e, f)
<1>1. Top(e) = e.stack[1] /\ StackInv(e.stack)
  BY TopOf DEF EvalBase
<1>2. StackInv(s) /\ s # << >> /\ s[1] = new
  BY <1>1, ReplaceInv
<1>3. EvalBase(f) /\ f.stack = s /\ Keeps(e, f)
  BY <1>2, RestackBase
<1>4. Depth(f) = Top(e).goal.depth + 1
  <2>1. Cardinality(Below(s, 0)) = s[1].goal.depth + 1
    BY ONLY <1>2, TopInv
  <2> QED
    BY <1>2, <1>3, <2>1 DEF Depth
<1> QED
  BY <1>2, <1>3, <1>4, TopOf

LEMMA AdvanceBase ==
    ASSUME NEW e, EvalBase(e), e.stack # << >>, Top(e).kind \in LoopKinds,
           NEW f, f = Advance(e)
    PROVE  EvalBase(f) /\ f.stack # << >> /\ Depth(f) = Depth(e) /\ Keeps(e, f)
<1> DEFINE top == e.stack[1]
           new == Frame(top.kind, top.goal, Tail(top.todo))
<1>1. Top(e) = top /\ FrameInv(top) /\ top.kind \in LoopKinds
  BY TopOf
<1>2. new.kind = top.kind /\ new.goal = top.goal /\ new.todo = Tail(top.todo)
  BY FrameFields
<1>3. new = Frame(new.kind, new.goal, new.todo)
  BY <1>2
<1>4. [top EXCEPT !.todo = Tail(top.todo)] = new
  BY <1>1, FrameTodo DEF FrameInv
<1> DEFINE s == [e.stack EXCEPT ![1] = new]
<1>5. f = Restack(e, s)
  <2>1. [e.stack EXCEPT ![1].todo = Tail(@)] = s
    BY <1>4
  <2> QED
    BY <2>1 DEF Advance, Restack
<1> HIDE DEF new
<1>6. FrameInv(new) /\ new.kind # "check"
  BY <1>1, <1>2, <1>3 DEF FrameInv, LoopKinds
<1>7. new.goal = Top(e).goal /\ Top(e).kind # "check"
  BY <1>1, <1>2 DEF LoopKinds
<1> QED
  BY <1>5, <1>6, <1>7, RetopBase

LEMMA SubtractingBase ==
    ASSUME NEW e, EvalBase(e), e.stack # << >>, Top(e).kind = "base",
           NEW f, f = Subtracting(e)
    PROVE  EvalBase(f) /\ f.stack # << >> /\ Depth(f) = Depth(e) /\ Keeps(e, f)
<1> DEFINE new == Frame("subtract", Top(e).goal, << >>)
<1>1. new.kind = "subtract" /\ new.goal = Top(e).goal /\ new.todo = << >>
  BY FrameFields
<1>2. new = Frame(new.kind, new.goal, new.todo)
  BY <1>1
<1> DEFINE s == [e.stack EXCEPT ![1] = new]
<1>3. f = Restack(e, s)
  BY DEF Subtracting, Restack
<1> HIDE DEF new
<1>4. FrameInv(new)
  BY <1>1, <1>2, TopOf DEF FrameInv, FrameKinds
<1> QED
  BY <1>1, <1>3, <1>4, RetopBase

----------------------------------------------------------------------------
(* The steps.                                                              *)

Deciding == {"check", "eval", "loop", "return"}

(* How a step treats the snapshot: it resolves it, keeps it, or fails.     *)
StepRevision(e, f) ==
    \/ e.phase = "resolve" /\ f.request = e.request /\ f.revision = SnapshotFor(e.request)
    \/ e.phase \in Deciding /\ Keeps(e, f)
    \/ /\ e.phase # "idle"
       /\ f.phase = "done" /\ f.error # "none"
       /\ f.request = NoRequest /\ f.revision = 0

CallsOK ==
    /\ call = [c \in Calls |-> call[c]]
    /\ \A c \in Calls : EvalInv(call[c])
    /\ Decisions(cache)

(* What every step of a check establishes.                                 *)
Stepped(c) ==
    /\ call' = [call EXCEPT ![c] = call'[c]]
    /\ EvalInv(call'[c])
    /\ StepRevision(call[c], call'[c])
    /\ Decisions(cache')

LEMMA IdleInv == EvalInv(IdleCall)
<1> DEFINE e == IdleCall
<1>1. IsEvaluation(e)
  BY DEF IdleCall, IsEvaluation
<1>2. /\ e.phase = "idle" /\ e.stack = << >> /\ e.memo = Empty
      /\ e.value = FALSE /\ e.error = "none"
  BY DEF IdleCall
<1> HIDE DEF e
<1>3. StackInv(e.stack)
  BY <1>2, EmptyStackInv
<1>4. Decisions(e.memo)
  BY <1>2 DEF Decisions, Empty
<1>5. e.value \in BOOLEAN
  BY <1>2
<1>6. EvalBase(e)
  BY <1>1, <1>2, <1>3, <1>4, <1>5 DEF EvalBase, Errors
<1>7. EvalInv(e)
  BY <1>2, <1>6 DEF EvalInv, Phases
<1> QED
  BY <1>7 DEF e

LEMMA FailedInv ==
    ASSUME NEW error \in Errors \ {"none"}, NEW f, f = Failed(error)
    PROVE  /\ EvalInv(f)
           /\ f.phase = "done" /\ f.error # "none"
           /\ f.request = NoRequest /\ f.revision = 0
<1>1. f = [phase |-> "done", request |-> NoRequest, revision |-> 0,
           goal |-> NoGoal, rewrite |-> NoRewrite, value |-> FALSE,
           stack |-> << >>, memo |-> Empty, error |-> error]
  BY DEF Failed, IdleCall
<1>2. /\ IsEvaluation(f)
      /\ f.phase = "done" /\ f.request = NoRequest /\ f.revision = 0
      /\ f.stack = << >> /\ f.memo = Empty /\ f.error = error
  BY ONLY <1>1, EvaluationFields
<1>3. f.value \in BOOLEAN
  BY <1>1
<1>4. StackInv(f.stack) /\ Decisions(f.memo)
  BY <1>2, EmptyStackInv DEF Decisions, Empty
<1>5. EvalBase(f)
  BY <1>2, <1>3, <1>4 DEF EvalBase
<1> QED
  BY <1>2, <1>5 DEF EvalInv, Phases

LEMMA BecomesStepped ==
    ASSUME CallsOK, NEW c \in Calls, NEW f, Becomes(c, f),
           EvalInv(f), StepRevision(call[c], f)
    PROVE  Stepped(c)
<1>1. call' = [call EXCEPT ![c] = f] /\ cache' = cache
  BY DEF Becomes
<1>2. call'[c] = f
  BY <1>1 DEF CallsOK
<1> QED
  BY <1>1, <1>2 DEF Stepped, CallsOK

(* A step that keeps the request and the snapshot of a pending check.      *)
LEMMA BecomesKept ==
    ASSUME CallsOK, NEW c \in Calls, call[c].phase \in Deciding,
           NEW f, Becomes(c, f), EvalInv(f), Keeps(call[c], f)
    PROVE  Stepped(c)
BY BecomesStepped DEF StepRevision

LEMMA BecomesFailed ==
    ASSUME CallsOK, NEW c \in Calls, call[c].phase # "idle",
           NEW error \in Errors \ {"none"}, Becomes(c, Failed(error))
    PROVE  Stepped(c)
<1> DEFINE f == Failed(error)
<1>1. /\ EvalInv(f)
      /\ f.phase = "done" /\ f.error # "none"
      /\ f.request = NoRequest /\ f.revision = 0
  BY FailedInv
<1>2. Becomes(c, f)
  OBVIOUS
<1> HIDE DEF f
<1> QED
  BY <1>1, <1>2, BecomesStepped DEF StepRevision

LEMMA CallTypes ==
    ASSUME CallsOK, NEW c \in Calls
    PROVE  EvalInv(call[c]) /\ EvalBase(call[c])
BY DEF CallsOK, EvalInv

LEMMA FailuresStepped ==
    ASSUME CallsOK, NEW c \in Calls,
           Canceled(c) \/ DepthExceeded(c) \/ UnknownRelation(c) \/ StoreFails(c)
    PROVE  Stepped(c)
<1>1. CASE Canceled(c)
  BY <1>1, BecomesFailed DEF Canceled, Checking, Errors
<1>2. CASE DepthExceeded(c)
  BY <1>2, BecomesFailed DEF DepthExceeded, Checking, Errors
<1>3. CASE UnknownRelation(c)
  BY <1>3, BecomesFailed DEF UnknownRelation, Unanswered, WithinDepth, Checking, Errors
<1>4. CASE StoreFails(c)
  BY <1>4, BecomesFailed DEF StoreFails, Evaluating, Errors
<1> QED
  BY <1>1, <1>2, <1>3, <1>4

(* The first subproblem of a check is nested in nothing.                   *)
LEMMA ResolveStepped ==
    ASSUME CallsOK, NEW c \in Calls, ResolveRevision(c)
    PROVE  Stepped(c)
<1> DEFINE e == call[c]
           rev == SnapshotFor(e.request)
           g == [e EXCEPT !.revision = rev]
           goal == Goal(e.request.key.object, e.request.key.relation, 0)
           f == Check(g, goal)
<1>1. EvalInv(e) /\ EvalBase(e) /\ e.phase = "resolve" /\ Becomes(c, f)
  BY CallTypes DEF ResolveRevision
<1>2. e.stack = << >>
  BY <1>1 DEF EvalInv
<1>3. g = [phase |-> e.phase, request |-> e.request, revision |-> rev,
           goal |-> e.goal, rewrite |-> e.rewrite, value |-> e.value,
           stack |-> e.stack, memo |-> e.memo, error |-> e.error]
  BY <1>1 DEF EvalBase, IsEvaluation
<1>4. goal.depth = 0
  BY DEF Goal
<1> HIDE DEF g, e, goal, rev
<1>5. /\ IsEvaluation(g) /\ g.request = e.request /\ g.revision = rev
      /\ g.value = e.value /\ g.stack = e.stack /\ g.memo = e.memo /\ g.error = e.error
  BY ONLY <1>3, EvaluationFields
<1>6. EvalBase(g)
  BY <1>1, <1>5 DEF EvalBase
<1>7. goal.depth = Depth(g)
  BY <1>2, <1>4, <1>5, EmptyStackInv, FS_EmptySet DEF Depth
<1>8. EvalInv(f) /\ Keeps(g, f)
  BY <1>6, <1>7, CheckInv
<1>9. f.request = e.request /\ f.revision = rev
  BY <1>5, <1>8 DEF Keeps
<1> HIDE DEF f
<1>10. StepRevision(e, f)
  BY <1>1, <1>9 DEF StepRevision, rev
<1> QED
  BY <1>1, <1>8, <1>10, BecomesStepped DEF e

----------------------------------------------------------------------------
(* The ways through check.                                                 *)

LEMMA MemoHitStepped ==
    ASSUME CallsOK, NEW c \in Calls, MemoHit(c)
    PROVE  Stepped(c)
<1> DEFINE e == call[c]
           value == e.memo[KeyOfGoal(e.goal)]
           f == Return(e, value)
<1>1. /\ EvalInv(e) /\ EvalBase(e) /\ e.phase = "check" /\ Becomes(c, f)
      /\ value \in BOOLEAN
  BY CallTypes DEF MemoHit, WithinDepth, Checking, Memoised, EvalBase, Decisions
<1> HIDE DEF value
<1>2. EvalInv(f) /\ Keeps(e, f)
  BY <1>1, ReturnInv
<1> HIDE DEF f
<1> QED
  BY <1>1, <1>2, BecomesKept DEF Deciding

LEMMA CacheHitStepped ==
    ASSUME CallsOK, NEW c \in Calls, CacheHit(c)
    PROVE  Stepped(c)
<1> DEFINE e == call[c]
           got == cache[CacheKey(e, e.goal)]
           g == [e EXCEPT !.memo = Put(@, KeyOfGoal(e.goal), got)]
           f == Return(g, got)
<1>1. /\ EvalInv(e) /\ EvalBase(e) /\ e.phase = "check" /\ Becomes(c, f)
      /\ got \in BOOLEAN
  BY CallTypes DEF CacheHit, WithinDepth, Checking, Cached, CallsOK, Decisions
<1>2. EvalBase(g) /\ Keeps(e, g)
  <2> HIDE DEF got
  <2> QED
    BY <1>1, MemoBase
<1> HIDE DEF got, g
<1>3. EvalInv(f) /\ Keeps(g, f)
  BY <1>1, <1>2, ReturnInv
<1>4. Keeps(e, f)
  BY <1>2, <1>3 DEF Keeps
<1> HIDE DEF f
<1> QED
  BY <1>1, <1>3, <1>4, BecomesKept DEF Deciding

LEMMA CutCycleStepped ==
    ASSUME CallsOK, NEW c \in Calls, CutCycle(c)
    PROVE  Stepped(c)
<1> DEFINE e == call[c]
           no == FALSE
           f == Return(e, no)
<1>1. EvalBase(e) /\ e.phase = "check" /\ Becomes(c, f) /\ no \in BOOLEAN
  BY CallTypes DEF CutCycle, Unanswered, WithinDepth, Checking
<1> HIDE DEF no
<1>2. EvalInv(f) /\ Keeps(e, f)
  BY <1>1, ReturnInv
<1> HIDE DEF f
<1> QED
  BY <1>1, <1>2, BecomesKept DEF Deciding

(* The only step that nests a check in another: the visited set excludes   *)
(* that its subproblem is pending, so its depth counts distinct ones.      *)
LEMMA ExpandStepped ==
    ASSUME CallsOK, NEW c \in Calls, Expand(c)
    PROVE  Stepped(c)
<1> DEFINE e == call[c]
           new == Frame("check", e.goal, << >>)
           f == Eval(Push(e, "check", << >>), e.goal, RewriteOf(e.goal))
<1>1. /\ EvalInv(e) /\ EvalBase(e) /\ e.phase = "check" /\ Becomes(c, f)
      /\ e.goal.depth <= MaxDepth
      /\ KeyOfGoal(e.goal) \notin Visiting(e)
  BY CallTypes DEF Expand, Unanswered, WithinDepth, Checking, OnStack
<1>2. e.goal.depth = Depth(e) /\ StackInv(e.stack)
  BY <1>1 DEF EvalInv, EvalBase
<1>3. IsFiniteSet(Below(e.stack, 0))
  BY <1>2 DEF StackInv
<1>4. Depth(e) \in Nat
  BY <1>3, FS_CardinalityType DEF Depth
<1>5. e.goal.depth \in 0..MaxDepth
  BY <1>1, <1>2, <1>4, EngineAssumption
<1>6. new.kind = "check" /\ new.goal = e.goal /\ new.todo = << >>
  BY FrameFields
<1>7. new = Frame(new.kind, new.goal, new.todo)
  BY <1>6
<1> HIDE DEF new, e
<1>8. FrameInv(new)
  BY <1>5, <1>6, <1>7 DEF FrameInv, FrameKinds
<1>9. NestedAt(new, Below(e.stack, 0))
  BY <1>1, <1>2, <1>3, <1>6, DepthIsVisiting DEF NestedAt
<1>10. EvalInv(f) /\ Keeps(e, f)
  BY <1>1, <1>5, <1>8, <1>9, PushEvalInv DEF new
<1> HIDE DEF f
<1> QED
  BY <1>1, <1>10, BecomesKept DEF Deciding, e

----------------------------------------------------------------------------
(* The cases of eval.                                                      *)

LEMMA LoopStepped ==
    ASSUME CallsOK, NEW c \in Calls, call[c].phase = "eval",
           NEW kind \in LoopKinds, NEW todo, Becomes(c, Loop(call[c], kind, todo))
    PROVE  Stepped(c)
<1> DEFINE f == Loop(call[c], kind, todo)
<1>1. Becomes(c, f)
  OBVIOUS
<1>2. EvalInv(f) /\ Keeps(call[c], f)
  BY CallTypes, LoopInv
<1> HIDE DEF f
<1> QED
  BY <1>1, <1>2, BecomesKept DEF Deciding

LEMMA EvalThisStepped ==
    ASSUME CallsOK, NEW c \in Calls, EvalThis(c)
    PROVE  Stepped(c)
<1>1. PICK tuples \in Orders(ReadRelation(call[c], call[c].goal.relation)) :
        Becomes(c, Loop(call[c], "members", [i \in DOMAIN tuples |-> tuples[i].subject]))
  BY DEF EvalThis
<1>2. call[c].phase = "eval" /\ "members" \in LoopKinds
  BY DEF EvalThis, Evaluating, LoopKinds
<1> QED
  BY <1>1, <1>2, LoopStepped

LEMMA EvalTupleToUsersetStepped ==
    ASSUME CallsOK, NEW c \in Calls, EvalTupleToUserset(c)
    PROVE  Stepped(c)
<1> DEFINE farEnd(t) == Userset(t.subject.object, call[c].rewrite.computed)
<1>1. PICK tuples \in Orders(ReadRelation(call[c], call[c].rewrite.tupleset)) :
        Becomes(c, Loop(call[c], "members", [i \in DOMAIN tuples |-> farEnd(tuples[i])]))
  BY DEF EvalTupleToUserset
<1>2. call[c].phase = "eval" /\ "members" \in LoopKinds
  BY DEF EvalTupleToUserset, Evaluating, LoopKinds
<1> QED
  BY <1>1, <1>2, LoopStepped

LEMMA EvalUnionStepped ==
    ASSUME CallsOK, NEW c \in Calls, EvalUnion(c)
    PROVE  Stepped(c)
<1>1. /\ call[c].phase = "eval" /\ "union" \in LoopKinds
      /\ Becomes(c, Loop(call[c], "union", call[c].rewrite.children))
  BY DEF EvalUnion, Evaluating, LoopKinds
<1> QED
  BY <1>1, LoopStepped

LEMMA EvalIntersectionStepped ==
    ASSUME CallsOK, NEW c \in Calls, EvalIntersection(c)
    PROVE  Stepped(c)
<1> DEFINE e == call[c]
           no == FALSE
           children == e.rewrite.children
           f == Return(e, no)
<1>1. /\ EvalBase(e) /\ e.phase = "eval" /\ no \in BOOLEAN
      /\ "intersection" \in LoopKinds
      /\ Becomes(c, f) \/ Becomes(c, Loop(e, "intersection", children))
  BY CallTypes DEF EvalIntersection, Evaluating, LoopKinds
<1> HIDE DEF no
<1>2. EvalInv(f) /\ Keeps(e, f)
  BY <1>1, ReturnInv
<1> HIDE DEF f
<1> QED
  BY <1>1, <1>2, BecomesKept, LoopStepped DEF Deciding

LEMMA EvalComputedUsersetStepped ==
    ASSUME CallsOK, NEW c \in Calls, EvalComputedUserset(c)
    PROVE  Stepped(c)
<1> DEFINE e == call[c]
           goal == Goal(e.goal.object, e.rewrite.relation, e.goal.depth + 1)
           f == Check(e, goal)
<1>1. EvalInv(e) /\ EvalBase(e) /\ e.phase = "eval" /\ Becomes(c, f)
  BY CallTypes DEF EvalComputedUserset, Evaluating
<1>2. goal.depth = Depth(e)
  BY <1>1 DEF EvalInv, Goal
<1> HIDE DEF goal
<1>3. EvalInv(f) /\ Keeps(e, f)
  BY <1>1, <1>2, CheckInv
<1> HIDE DEF f
<1> QED
  BY <1>1, <1>3, BecomesKept DEF Deciding

LEMMA EvalExclusionStepped ==
    ASSUME CallsOK, NEW c \in Calls, EvalExclusion(c)
    PROVE  Stepped(c)
<1> DEFINE e == call[c]
           todo == <<e.rewrite.subtract>>
           f == Eval(Push(e, "base", todo), e.goal, e.rewrite.base)
<1>1. EvalInv(e) /\ EvalBase(e) /\ e.phase = "eval" /\ Becomes(c, f)
  BY CallTypes DEF EvalExclusion, Evaluating
<1>2. Len(todo) = 1
  OBVIOUS
<1>3. e.goal.depth \in 0..MaxDepth
  BY <1>1 DEF EvalInv
<1> HIDE DEF todo, e
<1>4. /\ FrameInv(Frame("base", e.goal, todo))
      /\ NestedAt(Frame("base", e.goal, todo), Below(e.stack, 0))
  BY <1>1, <1>2, EvalFrame
<1>5. EvalInv(f) /\ Keeps(e, f)
  BY <1>1, <1>3, <1>4, PushEvalInv
<1> HIDE DEF f
<1> QED
  BY <1>1, <1>5, BecomesKept DEF Deciding, e

----------------------------------------------------------------------------
(* The loops.                                                              *)

LEMMA LoopingTop ==
    ASSUME CallsOK, NEW c \in Calls, NEW kinds, Looping(c, kinds)
    PROVE  /\ EvalBase(call[c])
           /\ call[c].phase = "loop"
           /\ call[c].stack # << >>
           /\ Top(call[c]).kind \in kinds
BY CallTypes DEF Looping, EvalInv

LEMMA NextMemberStepped ==
    ASSUME CallsOK, NEW c \in Calls, NextMember(c)
    PROVE  Stepped(c)
<1> DEFINE e == call[c]
           g == Advance(e)
           yes == TRUE
           member == Head(Top(e).todo)
           goal == Goal(member.object, member.relation, Top(e).goal.depth + 1)
<1>1. EvalBase(e) /\ e.phase = "loop" /\ e.stack # << >> /\ Top(e).kind = "members"
  BY LoopingTop DEF NextMember
<1>2. Top(e).kind \in LoopKinds /\ Top(e).goal.depth + 1 = Depth(e)
  BY <1>1, TopOf DEF LoopKinds
<1>3. EvalBase(g) /\ g.stack # << >> /\ Depth(g) = Depth(e) /\ Keeps(e, g)
  BY <1>1, <1>2, AdvanceBase
<1>4. goal.depth = Depth(g)
  BY <1>2, <1>3 DEF Goal
<1>5. \/ Becomes(c, Check(g, goal))
      \/ Becomes(c, Return(Pop(e), yes))
      \/ Becomes(c, g)
  BY DEF NextMember
<1>6. yes \in BOOLEAN
  OBVIOUS
<1> HIDE DEF goal, yes
<1>7. CASE Becomes(c, Check(g, goal))
  <2> DEFINE f == Check(g, goal)
  <2>1. EvalInv(f) /\ Keeps(g, f) /\ Becomes(c, f)
    BY <1>3, <1>4, <1>7, CheckInv
  <2>2. Keeps(e, f)
    BY <1>3, <2>1 DEF Keeps
  <2> HIDE DEF f
  <2> QED
    BY <1>1, <2>1, <2>2, BecomesKept DEF Deciding
<1>8. CASE Becomes(c, Return(Pop(e), yes))
  <2> DEFINE f == Return(Pop(e), yes)
  <2>1. EvalInv(f) /\ Keeps(e, f) /\ Becomes(c, f)
    BY <1>1, <1>6, <1>8, PopReturnInv
  <2> HIDE DEF f
  <2> QED
    BY <1>1, <2>1, BecomesKept DEF Deciding
<1>9. CASE Becomes(c, g)
  <2>1. g.phase = "loop"
    BY <1>1 DEF Advance, EvalBase, IsEvaluation
  <2> HIDE DEF g
  <2>2. EvalInv(g)
    BY <1>3, <2>1 DEF EvalInv, Phases
  <2> QED
    BY <1>1, <1>3, <1>9, <2>2, BecomesKept DEF Deciding
<1> QED
  BY <1>5, <1>7, <1>8, <1>9

LEMMA NextChildStepped ==
    ASSUME CallsOK, NEW c \in Calls, NextChild(c)
    PROVE  Stepped(c)
<1> DEFINE e == call[c]
           g == Advance(e)
           goal == Top(e).goal
           rewrite == Head(Top(e).todo)
           f == Eval(g, goal, rewrite)
<1>1. /\ EvalBase(e) /\ e.phase = "loop" /\ e.stack # << >>
      /\ Top(e).kind \in LoopKinds
      /\ Becomes(c, f)
  BY LoopingTop DEF NextChild, LoopKinds
<1>2. goal.depth \in 0..MaxDepth /\ goal.depth + 1 = Depth(e)
  BY <1>1, TopOf
<1>3. EvalBase(g) /\ g.stack # << >> /\ Depth(g) = Depth(e) /\ Keeps(e, g)
  BY <1>1, AdvanceBase
<1> HIDE DEF goal, g, rewrite
<1>4. EvalInv(f) /\ Keeps(g, f)
  BY <1>2, <1>3, EvalStepInv
<1>5. Keeps(e, f)
  BY <1>3, <1>4 DEF Keeps
<1> HIDE DEF f
<1> QED
  BY <1>1, <1>4, <1>5, BecomesKept DEF Deciding

LEMMA EndOfLoopStepped ==
    ASSUME CallsOK, NEW c \in Calls, EndOfLoop(c)
    PROVE  Stepped(c)
<1> DEFINE e == call[c]
           value == Top(e).kind = "intersection"
           f == Return(Pop(e), value)
<1>1. /\ EvalBase(e) /\ e.phase = "loop" /\ e.stack # << >>
      /\ Becomes(c, f) /\ value \in BOOLEAN
  BY LoopingTop DEF EndOfLoop
<1> HIDE DEF value
<1>2. EvalInv(f) /\ Keeps(e, f)
  BY <1>1, PopReturnInv
<1> HIDE DEF f
<1> QED
  BY <1>1, <1>2, BecomesKept DEF Deciding

----------------------------------------------------------------------------
(* The returns.                                                            *)

LEMMA ReturningTop ==
    ASSUME CallsOK, NEW c \in Calls, NEW kinds, Returning(c, kinds)
    PROVE  /\ EvalBase(call[c])
           /\ call[c].phase = "return"
           /\ call[c].stack # << >>
           /\ Top(call[c]).kind \in kinds
BY CallTypes DEF Returning

LEMMA PopStepped ==
    ASSUME CallsOK, NEW c \in Calls, call[c].phase = "return", call[c].stack # << >>,
           Becomes(c, Pop(call[c]))
    PROVE  Stepped(c)
<1> DEFINE f == Pop(call[c])
<1>1. Becomes(c, f)
  OBVIOUS
<1>2. EvalInv(f) /\ Keeps(call[c], f)
  BY CallTypes, PopReturningInv
<1> HIDE DEF f
<1> QED
  BY <1>1, <1>2, BecomesKept DEF Deciding

LEMMA ReturnToLoopStepped ==
    ASSUME CallsOK, NEW c \in Calls, ReturnToLoop(c)
    PROVE  Stepped(c)
<1> DEFINE e == call[c]
           f == Continue(e)
<1>1. /\ EvalBase(e) /\ e.phase = "return" /\ e.stack # << >>
      /\ Becomes(c, Pop(e)) \/ Becomes(c, f)
  BY ReturningTop DEF ReturnToLoop
<1>2. EvalInv(f) /\ Keeps(e, f)
  BY <1>1, ContinueInv
<1> HIDE DEF f
<1> QED
  BY <1>1, <1>2, PopStepped, BecomesKept DEF Deciding

LEMMA ReturnToBaseStepped ==
    ASSUME CallsOK, NEW c \in Calls, ReturnToBase(c)
    PROVE  Stepped(c)
<1> DEFINE e == call[c]
           g == Subtracting(e)
           goal == Top(e).goal
           rewrite == Head(Top(e).todo)
           f == Eval(g, goal, rewrite)
<1>1. /\ EvalBase(e) /\ e.phase = "return" /\ e.stack # << >>
      /\ Top(e).kind = "base"
      /\ Becomes(c, f) \/ Becomes(c, Pop(e))
  BY ReturningTop DEF ReturnToBase
<1>2. goal.depth \in 0..MaxDepth /\ goal.depth + 1 = Depth(e)
  BY <1>1, TopOf
<1>3. EvalBase(g) /\ g.stack # << >> /\ Depth(g) = Depth(e) /\ Keeps(e, g)
  BY <1>1, SubtractingBase
<1> HIDE DEF goal, g, rewrite
<1>4. EvalInv(f) /\ Keeps(g, f)
  BY <1>2, <1>3, EvalStepInv
<1>5. Keeps(e, f)
  BY <1>3, <1>4 DEF Keeps
<1> HIDE DEF f
<1> QED
  BY <1>1, <1>4, <1>5, PopStepped, BecomesKept DEF Deciding

LEMMA ReturnToSubtractStepped ==
    ASSUME CallsOK, NEW c \in Calls, ReturnToSubtract(c)
    PROVE  Stepped(c)
<1> DEFINE e == call[c]
           value == ~ e.value
           f == Return(Pop(e), value)
<1>1. /\ EvalBase(e) /\ e.phase = "return" /\ e.stack # << >>
      /\ Becomes(c, f) /\ value \in BOOLEAN
  BY ReturningTop DEF ReturnToSubtract
<1> HIDE DEF value
<1>2. EvalInv(f) /\ Keeps(e, f)
  BY <1>1, PopReturnInv
<1> HIDE DEF f
<1> QED
  BY <1>1, <1>2, BecomesKept DEF Deciding

LEMMA ReturnToCheckStepped ==
    ASSUME CallsOK, NEW c \in Calls, ReturnToCheck(c)
    PROVE  Stepped(c)
<1> DEFINE e == call[c]
           goal == Top(e).goal
           value == e.value
           g == [e EXCEPT !.memo = Put(@, KeyOfGoal(goal), value)]
           f == Pop(g)
<1>1. /\ EvalBase(e) /\ e.phase = "return" /\ e.stack # << >>
      /\ call' = [call EXCEPT ![c] = f]
      /\ cache' = Put(cache, CacheKey(e, goal), value) \/ cache' = cache
  BY ReturningTop DEF ReturnToCheck
<1>2. value \in BOOLEAN
  BY <1>1 DEF EvalBase
<1> HIDE DEF value, goal
<1>3. EvalBase(g) /\ g.stack = e.stack /\ g.phase = e.phase /\ Keeps(e, g)
  BY <1>1, <1>2, MemoBase
<1> HIDE DEF g
<1>4. EvalInv(f) /\ Keeps(g, f)
  BY <1>1, <1>3, PopReturningInv
<1>5. Keeps(e, f)
  BY <1>3, <1>4 DEF Keeps
<1>6. Decisions(cache')
  BY <1>1, <1>2 DEF CallsOK, Decisions, Put
<1> HIDE DEF f
<1>7. call'[c] = f
  BY <1>1 DEF CallsOK
<1> QED
  BY <1>1, <1>4, <1>5, <1>6, <1>7 DEF Stepped, StepRevision, Deciding

(* The evaluation that a finished check leaves behind.                     *)
LEMMA FinishedIs ==
    ASSUME NEW q, NEW r, NEW v,
           NEW f, f = [IdleCall EXCEPT !.phase = "done", !.request = q,
                                       !.revision = r, !.value = v]
    PROVE  f = [phase |-> "done", request |-> q, revision |-> r,
                goal |-> NoGoal, rewrite |-> NoRewrite, value |-> v,
                stack |-> << >>, memo |-> Empty, error |-> "none"]
BY DEF IdleCall

LEMMA FinishStepped ==
    ASSUME CallsOK, NEW c \in Calls, Finish(c)
    PROVE  Stepped(c)
<1> DEFINE e == call[c]
           f == [IdleCall EXCEPT !.phase = "done", !.request = e.request,
                                 !.revision = e.revision, !.value = e.value]
<1>1. EvalBase(e) /\ e.phase = "return" /\ Becomes(c, f)
  BY CallTypes DEF Finish
<1>2. \A q, r, v :
        [IdleCall EXCEPT !.phase = "done", !.request = q, !.revision = r, !.value = v]
          = [phase |-> "done", request |-> q, revision |-> r,
             goal |-> NoGoal, rewrite |-> NoRewrite, value |-> v,
             stack |-> << >>, memo |-> Empty, error |-> "none"]
  BY FinishedIs
<1>3. f = [phase |-> "done", request |-> e.request, revision |-> e.revision,
           goal |-> NoGoal, rewrite |-> NoRewrite, value |-> e.value,
           stack |-> << >>, memo |-> Empty, error |-> "none"]
  BY <1>2
<1> HIDE DEF f
<1>4. /\ IsEvaluation(f)
      /\ f.phase = "done" /\ f.request = e.request /\ f.revision = e.revision
      /\ f.value = e.value /\ f.stack = << >> /\ f.memo = Empty /\ f.error = "none"
  BY ONLY <1>3, EvaluationFields
<1>5. StackInv(f.stack) /\ Decisions(f.memo)
  BY <1>4, EmptyStackInv DEF Decisions, Empty
<1>6. EvalBase(f)
  BY <1>1, <1>4, <1>5 DEF EvalBase, Errors
<1>7. EvalInv(f) /\ Keeps(e, f)
  BY <1>4, <1>6 DEF EvalInv, Phases, Keeps
<1> QED
  BY <1>1, <1>7, BecomesKept DEF Deciding

(* Every step of a check keeps the invariant of its evaluation, and        *)
(* resolves, keeps or gives up its snapshot.                               *)
THEOREM EngineStepCorrect ==
    ASSUME CallsOK, NEW c \in Calls, EngineStep(c)
    PROVE  Stepped(c)
<1>1. CASE Canceled(c) \/ DepthExceeded(c) \/ UnknownRelation(c) \/ StoreFails(c)
  BY <1>1, FailuresStepped
<1>2. CASE ResolveRevision(c)
  BY <1>2, ResolveStepped
<1>3. CASE MemoHit(c) \/ CacheHit(c) \/ CutCycle(c) \/ Expand(c)
  BY <1>3, MemoHitStepped, CacheHitStepped, CutCycleStepped, ExpandStepped
<1>4. CASE EvalThis(c) \/ EvalTupleToUserset(c) \/ EvalComputedUserset(c)
  BY <1>4, EvalThisStepped, EvalTupleToUsersetStepped, EvalComputedUsersetStepped
<1>5. CASE EvalUnion(c) \/ EvalIntersection(c) \/ EvalExclusion(c)
  BY <1>5, EvalUnionStepped, EvalIntersectionStepped, EvalExclusionStepped
<1>6. CASE NextMember(c) \/ NextChild(c) \/ EndOfLoop(c)
  BY <1>6, NextMemberStepped, NextChildStepped, EndOfLoopStepped
<1>7. CASE ReturnToLoop(c) \/ ReturnToBase(c) \/ ReturnToSubtract(c)
  BY <1>7, ReturnToLoopStepped, ReturnToBaseStepped, ReturnToSubtractStepped
<1>8. CASE ReturnToCheck(c) \/ Finish(c)
  BY <1>8, ReturnToCheckStepped, FinishStepped
<1> QED
  BY <1>1, <1>2, <1>3, <1>4, <1>5, <1>6, <1>7, <1>8 DEF EngineStep

----------------------------------------------------------------------------
(* What the modules above the engine need of it and of the store.          *)

LEMMA HeadTypes ==
    ASSUME StoreTypeOK
    PROVE  head \in Nat /\ head <= MaxRevision /\ head \in 0..MaxRevision
BY MaxRevisionAssumption DEF StoreTypeOK

LEMMA CommitTypes ==
    ASSUME StoreTypeOK, NEW add, add \subseteq Tuples, NEW remove, Commit(add, remove)
    PROVE  StoreTypeOK' /\ head' = head + 1
<1>1. head \in Nat /\ head < MaxRevision /\ MaxRevision \in Nat
  BY HeadTypes, MaxRevisionAssumption DEF Commit
<1>2. head' = head + 1 /\ head' \in 0..MaxRevision
  BY <1>1 DEF Commit
<1>3. history' \in [0..(head + 1) -> SUBSET Tuples]
  <2>1. ASSUME NEW rev \in 0..(head + 1)
        PROVE  (IF rev <= head THEN history[rev]
                               ELSE (history[head] \ remove) \cup add) \in SUBSET Tuples
    BY <1>1, <2>1 DEF StoreTypeOK
  <2> QED
    BY <2>1 DEF Commit
<1> QED
  BY <1>2, <1>3 DEF StoreTypeOK

(* A check that has been asked for.                                        *)
LEMMA ReceivedInv ==
    ASSUME NEW request, NEW f,
           f = [IdleCall EXCEPT !.phase = "resolve", !.request = request]
    PROVE  /\ EvalInv(f)
           /\ f.phase = "resolve" /\ f.request = request /\ f.revision = 0
<1>1. f = [phase |-> "resolve", request |-> request, revision |-> 0,
           goal |-> NoGoal, rewrite |-> NoRewrite, value |-> FALSE,
           stack |-> << >>, memo |-> Empty, error |-> "none"]
  BY DEF IdleCall
<1>2. /\ IsEvaluation(f)
      /\ f.phase = "resolve" /\ f.request = request /\ f.revision = 0
      /\ f.stack = << >> /\ f.memo = Empty /\ f.error = "none"
  BY ONLY <1>1, EvaluationFields
<1>3. f.value \in BOOLEAN
  BY ONLY <1>1
<1>4. StackInv(f.stack) /\ Decisions(f.memo)
  BY <1>2, EmptyStackInv DEF Decisions, Empty
<1>5. EvalBase(f)
  BY <1>2, <1>3, <1>4 DEF EvalBase, Errors
<1> QED
  BY <1>2, <1>5 DEF EvalInv, Phases

LEMMA IdleFields ==
    /\ IdleCall.phase = "idle" /\ IdleCall.error = "none"
    /\ IdleCall.request = NoRequest /\ IdleCall.revision = 0
    /\ NoRequest.revision = 0 /\ NoRequest.token = 0
BY DEF IdleCall, NoRequest

(* A check has the snapshot that it answers from, or has answered from it. *)
HasSnapshot(e) == e.phase \in Deciding \/ (e.phase = "done" /\ e.error = "none")


----------------------------------------------------------------------------
(* Claims.                                                                 *)

Claim(truth, sure, rank) == [truth |-> truth, sure |-> sure, rank |-> rank]

(* A grant is always true; a denial is true if the claim is sure.          *)
Meets(value, a) == (value => a.truth) /\ (a.sure /\ a.truth => value)

(* What meets a meets b.                                                   *)
Refines(a, b) ==
    /\ a.truth => b.truth
    /\ b.sure => a.sure /\ a.rank <= b.rank /\ (b.truth => a.truth)

(* A frame that grants when one of its parts does, or when all do.         *)
Any(parts, out) ==
    /\ \A a \in parts : a.truth => out.truth
    /\ out.sure => /\ \A a \in parts : a.sure /\ a.rank <= out.rank
                   /\ out.truth => \E a \in parts : a.truth

All(parts, out) ==
    /\ (\A a \in parts : a.truth) => out.truth
    /\ out.sure => \A a \in parts : /\ a.sure /\ a.rank <= out.rank
                                    /\ out.truth => a.truth

(* The two halves of an exclusion.                                         *)
Without(base, subtract, out) ==
    /\ subtract.sure
    /\ base.truth /\ ~ subtract.truth => out.truth
    /\ out.sure => /\ base.sure /\ base.rank <= out.rank /\ subtract.rank <= out.rank
                   /\ out.truth => base.truth /\ ~ subtract.truth

Opposite(subtract, out) ==
    /\ subtract.sure
    /\ ~ subtract.truth => out.truth
    /\ out.sure => subtract.rank <= out.rank /\ (out.truth => ~ subtract.truth)

(* A value that is known.                                                  *)
Surely(value) == Claim(value, TRUE, 0)

No == Surely(FALSE)

Yes == Surely(TRUE)

LEMMA ClaimFields ==
    ASSUME NEW truth, NEW sure, NEW rank
    PROVE  /\ Claim(truth, sure, rank).truth <=> truth
           /\ Claim(truth, sure, rank).sure <=> sure
           /\ Claim(truth, sure, rank).rank = rank
BY Zenon DEF Claim

LEMMA SurelyFields ==
    ASSUME NEW value \in BOOLEAN, NEW a, a = Surely(value)
    PROVE  a.truth = value /\ a.sure = TRUE /\ a.rank = 0
BY DEF Surely, Claim

LEMMA NoFields == ~ No.truth /\ No.sure /\ No.rank = 0
<1>1. No = Surely(FALSE)
  BY DEF No
<1>2. No.truth = FALSE /\ No.sure = TRUE /\ No.rank = 0
  BY <1>1, SurelyFields
<1> QED
  BY <1>2

LEMMA YesFields == Yes.truth /\ Yes.sure /\ Yes.rank = 0
<1>1. Yes = Surely(TRUE)
  BY DEF Yes
<1>2. Yes.truth = TRUE /\ Yes.sure = TRUE /\ Yes.rank = 0
  BY <1>1, SurelyFields
<1> QED
  BY <1>2

LEMMA MeetsRefined ==
    ASSUME NEW value \in BOOLEAN, NEW a, NEW b, Meets(value, a), Refines(a, b)
    PROVE  Meets(value, b)
BY DEF Meets, Refines

LEMMA RefinesTransitive ==
    ASSUME NEW a, NEW b, NEW c, Refines(a, b), Refines(b, c),
           a.rank \in Nat, b.rank \in Nat, c.rank \in Nat
    PROVE  Refines(a, c)
BY DEF Refines

LEMMA AnyRefined ==
    ASSUME NEW parts, NEW b, NEW c, Any(parts, b), Refines(b, c),
           \A a \in parts : a.rank \in Nat, b.rank \in Nat, c.rank \in Nat
    PROVE  Any(parts, c)
BY DEF Any, Refines

LEMMA AllRefined ==
    ASSUME NEW parts, NEW b, NEW c, All(parts, b), Refines(b, c),
           \A a \in parts : a.rank \in Nat, b.rank \in Nat, c.rank \in Nat
    PROVE  All(parts, c)
BY DEF All, Refines

(* A loop over nothing grants nothing, or everything.                      *)
LEMMA AnyEnds ==
    ASSUME NEW out, Any({No}, out)
    PROVE  Meets(FALSE, out)
BY NoFields DEF Any, Meets

LEMMA AllEnds ==
    ASSUME NEW out, All({Yes}, out)
    PROVE  Meets(TRUE, out)
BY YesFields DEF All, Meets

(* A value stops the loop, or leaves it to the other parts.                *)
LEMMA AnyStops ==
    ASSUME NEW parts, NEW in \in parts, NEW out, Any(parts, out), Meets(TRUE, in)
    PROVE  Meets(TRUE, out)
BY DEF Any, Meets

LEMMA AllStops ==
    ASSUME NEW parts, NEW in \in parts, NEW out, All(parts, out), Meets(FALSE, in)
    PROVE  Meets(FALSE, out)
BY DEF All, Meets

LEMMA AnyContinues ==
    ASSUME NEW rest, NEW in, NEW out, Any(rest \cup {in}, out), Meets(FALSE, in),
           out.rank \in Nat
    PROVE  Any(rest \cup {No}, out)
BY NoFields DEF Any, Meets

LEMMA AllContinues ==
    ASSUME NEW rest, NEW in, NEW out, All(rest \cup {in}, out), Meets(TRUE, in),
           out.rank \in Nat
    PROVE  All(rest \cup {Yes}, out)
BY YesFields DEF All, Meets

(* What is known need not be waited for.                                   *)
LEMMA AnyDrops ==
    ASSUME NEW parts, NEW out, Any(parts \cup {No}, out)
    PROVE  Any(parts, out)
BY NoFields DEF Any

LEMMA AllDrops ==
    ASSUME NEW parts, NEW out, All(parts \cup {Yes}, out)
    PROVE  All(parts, out)
BY YesFields DEF All

----------------------------------------------------------------------------
(* The claims of the engine.                                               *)

(* A subproblem, all of whose own subproblems rank below n.                *)
KeyClaim(world, subject, key, n) ==
    Claim(Holds(world, key, subject), Ranked(world, key), n)

RewriteClaim(world, subject, key, rewrite) ==
    Claim(Satisfied(world, key, rewrite, subject), Settled(world, key, rewrite),
          Rank(world, key))

(* What check is called for: the subproblem may be asked about itself.     *)
CheckClaim(world, subject, key) == KeyClaim(world, subject, key, Rank(world, key) + 1)

MemberClaim(world, subject, member) ==
    IF IsUserset(member) THEN CheckClaim(world, subject, KeyOfMember(member))
                         ELSE Surely(member = subject)

LEMMA KeyClaimFields ==
    ASSUME NEW w, NEW u, NEW k, NEW n, NEW a, a = KeyClaim(w, u, k, n)
    PROVE  /\ a.truth <=> Holds(w, k, u)
           /\ a.sure <=> Ranked(w, k)
           /\ a.rank = n
BY ClaimFields DEF KeyClaim

LEMMA RewriteClaimFields ==
    ASSUME NEW w, NEW u, NEW k, NEW r, NEW a, a = RewriteClaim(w, u, k, r)
    PROVE  /\ a.truth <=> Satisfied(w, k, r, u)
           /\ a.sure <=> Settled(w, k, r)
           /\ a.rank = Rank(w, k)
BY ClaimFields DEF RewriteClaim

LEMMA CheckClaimFields ==
    ASSUME NEW w, NEW u, NEW k, NEW a, a = CheckClaim(w, u, k)
    PROVE  /\ a.truth <=> Holds(w, k, u)
           /\ a.sure <=> Ranked(w, k)
           /\ a.rank = Rank(w, k) + 1
BY KeyClaimFields DEF CheckClaim

LEMMA RankTypes ==
    ASSUME NEW w, Explained(w), NEW k \in Keys
    PROVE  Rank(w, k) \in Nat
BY DEF Explained, RankedGrounded

(* A part of the rewrite of a subproblem satisfies the equations.          *)
LEMMA PartEquations ==
    ASSUME NEW w, Explained(w), NEW k \in Keys, NEW r \in Rewrites(k)
    PROVE  /\ AskedIs(w, k, r)
           /\ \A u \in Subjects : /\ Satisfied(w, k, r, u) \in BOOLEAN
                                   /\ SatisfiedIs(w, k, r, u)
           /\ r.op = "exclusion" => Settled(w, k, r.subtract)
<1> DEFINE p == <<k, r>>
<1>1. p \in Occurrences
  BY DEF Occurrences
<1>2. p[1] = k /\ p[2] = r
  OBVIOUS
<1> HIDE DEF p
<1> QED
  BY <1>1, <1>2 DEF Explained, Compositional, SubtractsSettled

(* What check hands to eval, and what eval returns to check.               *)
LEMMA RewriteOfKey ==
    ASSUME NEW w, Explained(w), NEW u \in Subjects, NEW k \in DefinedKeys
    PROVE  Refines(RewriteClaim(w, u, k, RewriteOf(k)), KeyClaim(w, u, k, Rank(w, k)))
<1> DEFINE a == RewriteClaim(w, u, k, RewriteOf(k))
           b == KeyClaim(w, u, k, Rank(w, k))
<1>1. /\ a.truth <=> Satisfied(w, k, RewriteOf(k), u)
      /\ a.sure <=> Settled(w, k, RewriteOf(k))
      /\ a.rank = Rank(w, k)
  BY RewriteClaimFields
<1>2. /\ b.truth <=> Holds(w, k, u)
      /\ b.sure <=> Ranked(w, k)
      /\ b.rank = Rank(w, k)
  BY KeyClaimFields
<1>3. Rank(w, k) \in Nat
  BY RankTypes DEF DefinedKeys
<1>4. /\ Satisfied(w, k, RewriteOf(k), u) => Holds(w, k, u)
      /\ Ranked(w, k) => /\ Settled(w, k, RewriteOf(k))
                         /\ Holds(w, k, u) => Satisfied(w, k, RewriteOf(k), u)
  BY DEF Explained, HoldsClosed, RankedGrounded
<1> HIDE DEF a, b
<1>5. Refines(a, b)
  BY <1>1, <1>2, <1>3, <1>4 DEF Refines
<1> QED
  BY <1>5 DEF a, b

(* A subproblem that a rewrite asks about ranks below it, if it is settled.*)
LEMMA AskedRanks ==
    ASSUME NEW w, Explained(w), NEW k \in Keys, NEW r \in Rewrites(k),
           NEW asked \in Asked(w, k, r)
    PROVE  /\ asked \in Keys
           /\ Rank(w, asked) \in Nat
           /\ Settled(w, k, r) => Ranked(w, asked) /\ Rank(w, asked) + 1 <= Rank(w, k)
<1>1. asked \in Keys
  BY PartEquations DEF AskedIs
<1>2. Rank(w, asked) \in Nat /\ Rank(w, k) \in Nat
  BY <1>1, RankTypes
<1> QED
  BY <1>1, <1>2 DEF Settled

LEMMA ComputedRefines ==
    ASSUME NEW w, Explained(w), NEW u \in Subjects,
           NEW k \in Keys, NEW r \in Rewrites(k), r.op = "computed",
           NEW asked, asked = RelationKey(k.object, r.relation)
    PROVE  asked \in Keys /\ Refines(CheckClaim(w, u, asked), RewriteClaim(w, u, k, r))
<1> DEFINE a == CheckClaim(w, u, asked)
           b == RewriteClaim(w, u, k, r)
<1>1. AskedIs(w, k, r) /\ SatisfiedIs(w, k, r, u)
  BY PartEquations
<1>2. Asked(w, k, r) = {asked}
  BY <1>1 DEF AskedIs
<1>3. Satisfied(w, k, r, u) <=> Holds(w, asked, u)
  BY <1>1 DEF SatisfiedIs
<1>4. /\ asked \in Keys
      /\ Settled(w, k, r) => Ranked(w, asked) /\ Rank(w, asked) + 1 <= Rank(w, k)
  BY <1>2, AskedRanks
<1>5. /\ a.truth <=> Holds(w, asked, u)
      /\ a.sure <=> Ranked(w, asked)
      /\ a.rank = Rank(w, asked) + 1
  BY CheckClaimFields
<1>6. /\ b.truth <=> Satisfied(w, k, r, u)
      /\ b.sure <=> Settled(w, k, r)
      /\ b.rank = Rank(w, k)
  BY RewriteClaimFields
<1> HIDE DEF a, b
<1>7. Refines(a, b)
  BY <1>3, <1>4, <1>5, <1>6 DEF Refines
<1> QED
  BY <1>4, <1>7 DEF a, b

(* A loop over members: a member is the subject or a userset to ask about. *)
LEMMA MemberClaimFields ==
    ASSUME NEW w, NEW u, NEW m, NEW a, a = MemberClaim(w, u, m)
    PROVE  /\ a.truth <=> MemberHolds(w, m, u)
           /\ IsUserset(m) => /\ a.sure <=> Ranked(w, KeyOfMember(m))
                              /\ a.rank = Rank(w, KeyOfMember(m)) + 1
           /\ ~ IsUserset(m) => a.sure /\ a.rank = 0
<1>1. CASE IsUserset(m)
  <2>1. a = CheckClaim(w, u, KeyOfMember(m))
    BY <1>1 DEF MemberClaim
  <2>2. /\ a.truth <=> Holds(w, KeyOfMember(m), u)
        /\ a.sure <=> Ranked(w, KeyOfMember(m))
        /\ a.rank = Rank(w, KeyOfMember(m)) + 1
    BY <2>1, CheckClaimFields
  <2> QED
    BY <1>1, <2>2 DEF MemberHolds
<1>2. CASE ~ IsUserset(m)
  <2> DEFINE same == m = u
  <2>1. a = Surely(same) /\ same \in BOOLEAN
    BY <1>2 DEF MemberClaim
  <2> HIDE DEF same
  <2>2. a.truth = same /\ a.sure = TRUE /\ a.rank = 0
    BY <2>1, SurelyFields
  <2> QED
    BY <1>2, <2>2 DEF MemberHolds, same
<1> QED
  BY <1>1, <1>2

MemberClaims(world, subject, members) ==
    {MemberClaim(world, subject, member) : member \in members}

(* A rewrite that is satisfied through members.                            *)
ThroughMembers(world, subject, key, rewrite, members) ==
    /\ \A member \in members :
         IsUserset(member) => KeyOfMember(member) \in Asked(world, key, rewrite)
    /\ Satisfied(world, key, rewrite, subject) <=>
         \E member \in members : MemberHolds(world, member, subject)

LEMMA MembersAny ==
    ASSUME NEW w, Explained(w), NEW u \in Subjects,
           NEW k \in Keys, NEW r \in Rewrites(k), NEW members,
           ThroughMembers(w, u, k, r, members)
    PROVE  /\ \A m \in members : IsUserset(m) => KeyOfMember(m) \in Keys
           /\ Any(MemberClaims(w, u, members) \cup {No}, RewriteClaim(w, u, k, r))
<1> DEFINE out == RewriteClaim(w, u, k, r)
           part(m) == MemberClaim(w, u, m)
<1>1. /\ out.truth <=> Satisfied(w, k, r, u)
      /\ out.sure <=> Settled(w, k, r)
      /\ out.rank = Rank(w, k)
  BY RewriteClaimFields
<1>2. Rank(w, k) \in Nat
  BY RankTypes
<1>3. \A m \in members : IsUserset(m) =>
        /\ KeyOfMember(m) \in Keys
        /\ Settled(w, k, r) => /\ Ranked(w, KeyOfMember(m))
                               /\ Rank(w, KeyOfMember(m)) + 1 <= Rank(w, k)
  BY AskedRanks DEF ThroughMembers
<1>4. \A m \in members :
        /\ part(m).truth <=> MemberHolds(w, m, u)
        /\ IsUserset(m) => /\ part(m).sure <=> Ranked(w, KeyOfMember(m))
                           /\ part(m).rank = Rank(w, KeyOfMember(m)) + 1
        /\ ~ IsUserset(m) => part(m).sure /\ part(m).rank = 0
  BY MemberClaimFields
<1> HIDE DEF out, part
<1>5. \A m \in members :
        /\ part(m).truth => out.truth
        /\ out.sure => part(m).sure /\ part(m).rank <= out.rank
  BY <1>1, <1>2, <1>3, <1>4 DEF ThroughMembers
<1>6. out.truth => \E m \in members : part(m).truth
  BY <1>1, <1>4 DEF ThroughMembers
<1> DEFINE parts == {part(m) : m \in members} \cup {No}
<1>7. No.rank <= out.rank
  BY <1>1, <1>2, NoFields
<1>8. \A a \in parts : a.truth => out.truth
  BY <1>5, NoFields
<1>9. out.sure => \A a \in parts : a.sure /\ a.rank <= out.rank
  BY <1>5, <1>7, NoFields
<1>10. out.truth => \E a \in parts : a.truth
  BY <1>6
<1>11. parts = MemberClaims(w, u, members) \cup {No}
  BY DEF MemberClaims, part
<1> HIDE DEF parts
<1>12. Any(parts, out)
  BY <1>8, <1>9, <1>10 DEF Any
<1> QED
  BY <1>3, <1>11, <1>12 DEF out

LEMMA ThisAny ==
    ASSUME NEW w, Explained(w), NEW u \in Subjects,
           NEW k \in Keys, NEW r \in Rewrites(k), r.op = "this",
           NEW members,
           members = {t.subject : t \in Stored(w, k.object, k.relation)}
    PROVE  /\ \A m \in members : IsUserset(m) => KeyOfMember(m) \in Keys
           /\ Any(MemberClaims(w, u, members) \cup {No}, RewriteClaim(w, u, k, r))
<1>1. AskedIs(w, k, r) /\ SatisfiedIs(w, k, r, u)
  BY PartEquations
<1>2. Asked(w, k, r) = {KeyOfMember(t.subject) :
                          t \in {s \in Stored(w, k.object, k.relation) :
                                   IsUserset(s.subject)}}
  BY <1>1 DEF AskedIs
<1>3. Satisfied(w, k, r, u) <=>
        \E t \in Stored(w, k.object, k.relation) : MemberHolds(w, t.subject, u)
  BY <1>1 DEF SatisfiedIs
<1>4. \A m \in members : IsUserset(m) => KeyOfMember(m) \in Asked(w, k, r)
  BY <1>2
<1>5. Satisfied(w, k, r, u) <=> \E m \in members : MemberHolds(w, m, u)
  BY <1>3
<1>6. ThroughMembers(w, u, k, r, members)
  BY <1>4, <1>5 DEF ThroughMembers
<1> QED
  BY <1>6, MembersAny

FarMembers(world, key, rewrite) ==
    {Userset(t.subject.object, rewrite.computed) :
       t \in Stored(world, key.object, rewrite.tupleset)}

LEMMA FarEndsAny ==
    ASSUME NEW w, Explained(w), RewritesClosed, NEW u \in Subjects,
           NEW k \in Keys, NEW r \in Rewrites(k), r.op = "tupleToUserset",
           NEW members, members = FarMembers(w, k, r)
    PROVE  /\ \A m \in members : IsUserset(m) => KeyOfMember(m) \in Keys
           /\ Any(MemberClaims(w, u, members) \cup {No}, RewriteClaim(w, u, k, r))
<1>1. AskedIs(w, k, r) /\ SatisfiedIs(w, k, r, u) /\ r.computed # NoRelation
  BY PartEquations DEF RewritesClosed
<1>2. Asked(w, k, r) = {FarEnd(t, r.computed) : t \in Stored(w, k.object, r.tupleset)}
  BY <1>1 DEF AskedIs
<1>3. Satisfied(w, k, r, u) <=>
        \E t \in Stored(w, k.object, r.tupleset) : Holds(w, FarEnd(t, r.computed), u)
  BY <1>1 DEF SatisfiedIs
<1>4. \A t : LET m == Userset(t.subject.object, r.computed)
             IN  IsUserset(m) /\ KeyOfMember(m) = FarEnd(t, r.computed)
  BY <1>1 DEF Userset, IsUserset, KeyOfMember, FarEnd
<1>5. \A m \in members : KeyOfMember(m) \in Asked(w, k, r)
  BY <1>2, <1>4 DEF FarMembers
<1>6. \A t : LET m == Userset(t.subject.object, r.computed)
             IN  MemberHolds(w, m, u) <=> Holds(w, FarEnd(t, r.computed), u)
  BY <1>4 DEF MemberHolds
<1>7. Satisfied(w, k, r, u) <=> \E m \in members : MemberHolds(w, m, u)
  BY <1>3, <1>6 DEF FarMembers
<1>8. ThroughMembers(w, u, k, r, members)
  BY <1>5, <1>7 DEF ThroughMembers
<1> QED
  BY <1>8, MembersAny

(* A loop over rewrites, and the halves of an exclusion.                   *)
LEMMA PartSettled ==
    ASSUME NEW w, NEW k, NEW r, NEW part, Asked(w, k, part) \subseteq Asked(w, k, r),
           Settled(w, k, r)
    PROVE  Settled(w, k, part)
BY DEF Settled

RewriteClaims(world, subject, key, children) ==
    {RewriteClaim(world, subject, key, children[i]) : i \in DOMAIN children}

LEMMA ChildTypes ==
    ASSUME NEW w, Explained(w), RewritesClosed,
           NEW k \in Keys, NEW r \in Rewrites(k), r.op \in {"union", "intersection"},
           NEW i \in DOMAIN r.children
    PROVE  /\ r.children[i] \in Rewrites(k)
           /\ Settled(w, k, r) => Settled(w, k, r.children[i])
<1>1. r.children \in Seq(Rewrites(k)) /\ AskedIs(w, k, r)
  BY PartEquations DEF RewritesClosed
<1>2. DOMAIN r.children = 1..Len(r.children)
  BY <1>1, LenProperties
<1>3. r.children[i] \in Rewrites(k)
  BY <1>1, <1>2, ElementOfSeq
<1>4. Asked(w, k, r) = UNION {Asked(w, k, r.children[j]) : j \in DOMAIN r.children}
  BY <1>1 DEF AskedIs
<1>5. Asked(w, k, r.children[i]) \subseteq Asked(w, k, r)
  BY <1>4
<1> QED
  BY <1>3, <1>5, PartSettled

(* The claims of the children beside the claim of their rewrite.           *)
LEMMA ChildClaims ==
    ASSUME NEW w, Explained(w), RewritesClosed, NEW u,
           NEW k \in Keys, NEW r \in Rewrites(k), r.op \in {"union", "intersection"},
           NEW out, out = RewriteClaim(w, u, k, r)
    PROVE  /\ out.truth <=> Satisfied(w, k, r, u)
           /\ out.rank \in Nat
           /\ \A i \in DOMAIN r.children :
                LET part == RewriteClaim(w, u, k, r.children[i])
                IN  /\ part.truth <=> Satisfied(w, k, r.children[i], u)
                    /\ part.rank <= out.rank
                    /\ out.sure => part.sure
<1>1. /\ out.truth <=> Satisfied(w, k, r, u)
      /\ out.sure <=> Settled(w, k, r)
      /\ out.rank = Rank(w, k)
  BY RewriteClaimFields
<1>2. Rank(w, k) \in Nat
  BY RankTypes
<1>3. ASSUME NEW i \in DOMAIN r.children, NEW part,
             part = RewriteClaim(w, u, k, r.children[i])
      PROVE  /\ part.truth <=> Satisfied(w, k, r.children[i], u)
             /\ part.rank <= out.rank
             /\ out.sure => part.sure
  <2>1. /\ part.truth <=> Satisfied(w, k, r.children[i], u)
        /\ part.sure <=> Settled(w, k, r.children[i])
        /\ part.rank = Rank(w, k)
    BY <1>3, RewriteClaimFields
  <2>2. Settled(w, k, r) => Settled(w, k, r.children[i])
    BY ChildTypes
  <2> QED
    BY <1>1, <1>2, <2>1, <2>2
<1> QED
  BY <1>1, <1>2, <1>3

LEMMA UnionAny ==
    ASSUME NEW w, Explained(w), RewritesClosed, NEW u \in Subjects,
           NEW k \in Keys, NEW r \in Rewrites(k), r.op = "union"
    PROVE  Any(RewriteClaims(w, u, k, r.children) \cup {No}, RewriteClaim(w, u, k, r))
<1> DEFINE out == RewriteClaim(w, u, k, r)
           part(i) == RewriteClaim(w, u, k, r.children[i])
           parts == {part(i) : i \in DOMAIN r.children} \cup {No}
<1>1. Satisfied(w, k, r, u) <=>
        \E i \in DOMAIN r.children : Satisfied(w, k, r.children[i], u)
  BY PartEquations DEF SatisfiedIs
<1>2. /\ out.truth <=> Satisfied(w, k, r, u)
      /\ out.rank \in Nat
      /\ \A i \in DOMAIN r.children :
           /\ part(i).truth <=> Satisfied(w, k, r.children[i], u)
           /\ part(i).rank <= out.rank
           /\ out.sure => part(i).sure
  BY ChildClaims
<1>3. parts = RewriteClaims(w, u, k, r.children) \cup {No}
  BY DEF RewriteClaims
<1> HIDE DEF out, part
<1>4. \A a \in parts : a.truth => out.truth
  BY <1>1, <1>2, NoFields
<1>5. out.sure => \A a \in parts : a.sure /\ a.rank <= out.rank
  BY <1>2, NoFields
<1>6. out.truth => \E a \in parts : a.truth
  BY <1>1, <1>2
<1> HIDE DEF parts
<1>7. Any(parts, out)
  BY <1>4, <1>5, <1>6 DEF Any
<1> QED
  BY <1>3, <1>7 DEF out

LEMMA IntersectionAll ==
    ASSUME NEW w, Explained(w), RewritesClosed, NEW u \in Subjects,
           NEW k \in Keys, NEW r \in Rewrites(k), r.op = "intersection",
           r.children # << >>
    PROVE  All(RewriteClaims(w, u, k, r.children) \cup {Yes}, RewriteClaim(w, u, k, r))
<1> DEFINE out == RewriteClaim(w, u, k, r)
           part(i) == RewriteClaim(w, u, k, r.children[i])
           parts == {part(i) : i \in DOMAIN r.children} \cup {Yes}
<1>1. Satisfied(w, k, r, u) <=>
        \A i \in DOMAIN r.children : Satisfied(w, k, r.children[i], u)
  BY PartEquations DEF SatisfiedIs
<1>2. /\ out.truth <=> Satisfied(w, k, r, u)
      /\ out.rank \in Nat
      /\ \A i \in DOMAIN r.children :
           /\ part(i).truth <=> Satisfied(w, k, r.children[i], u)
           /\ part(i).rank <= out.rank
           /\ out.sure => part(i).sure
  BY ChildClaims
<1>3. parts = RewriteClaims(w, u, k, r.children) \cup {Yes}
  BY DEF RewriteClaims
<1> HIDE DEF out, part
<1>4. (\A a \in parts : a.truth) => out.truth
  BY <1>1, <1>2
<1>5. out.sure => \A a \in parts : a.sure /\ a.rank <= out.rank
  BY <1>2, YesFields
<1>6. out.truth => \A a \in parts : a.truth
  BY <1>1, <1>2, YesFields
<1> HIDE DEF parts
<1>7. All(parts, out)
  BY <1>4, <1>5, <1>6 DEF All
<1> QED
  BY <1>3, <1>7 DEF out

(* An intersection of nothing grants nothing.                              *)
LEMMA EmptyIntersection ==
    ASSUME NEW w, Explained(w), NEW u \in Subjects,
           NEW k \in Keys, NEW r \in Rewrites(k), r.op = "intersection",
           r.children = << >>
    PROVE  Meets(FALSE, RewriteClaim(w, u, k, r))
<1> DEFINE out == RewriteClaim(w, u, k, r)
<1>1. ~ Satisfied(w, k, r, u)
  BY PartEquations DEF SatisfiedIs
<1>2. ~ out.truth
  BY <1>1, RewriteClaimFields
<1> HIDE DEF out
<1>3. Meets(FALSE, out)
  BY <1>2 DEF Meets
<1> QED
  BY <1>3 DEF out

LEMMA ExclusionWithout ==
    ASSUME NEW w, Explained(w), RewritesClosed, NEW u \in Subjects,
           NEW k \in Keys, NEW r \in Rewrites(k), r.op = "exclusion"
    PROVE  /\ r.base \in Rewrites(k) /\ r.subtract \in Rewrites(k)
           /\ Without(RewriteClaim(w, u, k, r.base), RewriteClaim(w, u, k, r.subtract),
                      RewriteClaim(w, u, k, r))
<1> DEFINE out == RewriteClaim(w, u, k, r)
           base == RewriteClaim(w, u, k, r.base)
           subtract == RewriteClaim(w, u, k, r.subtract)
<1>1. r.base \in Rewrites(k) /\ r.subtract \in Rewrites(k)
  BY DEF RewritesClosed
<1>2. AskedIs(w, k, r) /\ SatisfiedIs(w, k, r, u) /\ Settled(w, k, r.subtract)
  BY PartEquations
<1>3. Satisfied(w, k, r, u) <=> Satisfied(w, k, r.base, u) /\ ~ Satisfied(w, k, r.subtract, u)
  BY <1>2 DEF SatisfiedIs
<1>4. Asked(w, k, r.base) \subseteq Asked(w, k, r)
  BY <1>2 DEF AskedIs
<1>5. Settled(w, k, r) => Settled(w, k, r.base)
  BY <1>4, PartSettled
<1>6. /\ out.truth <=> Satisfied(w, k, r, u)
      /\ out.sure <=> Settled(w, k, r)
      /\ out.rank = Rank(w, k)
  BY RewriteClaimFields
<1>7. /\ base.truth <=> Satisfied(w, k, r.base, u)
      /\ base.sure <=> Settled(w, k, r.base)
      /\ base.rank = Rank(w, k)
  BY RewriteClaimFields
<1>8. /\ subtract.truth <=> Satisfied(w, k, r.subtract, u)
      /\ subtract.sure <=> Settled(w, k, r.subtract)
      /\ subtract.rank = Rank(w, k)
  BY RewriteClaimFields
<1>9. Rank(w, k) \in Nat
  BY RankTypes
<1> HIDE DEF out, base, subtract
<1>10. Without(base, subtract, out)
  BY <1>2, <1>3, <1>5, <1>6, <1>7, <1>8, <1>9 DEF Without
<1> QED
  BY <1>1, <1>10 DEF out, base, subtract

----------------------------------------------------------------------------
(* The claims beside the stack.                                            *)

(* What a loop has still to do.                                            *)
ItemClaim(world, subject, f, item) ==
    IF f.kind = "members" THEN MemberClaim(world, subject, item)
                          ELSE RewriteClaim(world, subject, KeyOfGoal(f.goal), item)

Items(world, subject, f) == {ItemClaim(world, subject, f, f.todo[i]) : i \in DOMAIN f.todo}

ItemOK(f, item) ==
    IF f.kind = "members" THEN IsUserset(item) => KeyOfMember(item) \in Keys
                          ELSE item \in Rewrites(KeyOfGoal(f.goal))

TodoOK(f) == IsStack(f.todo) /\ \A i \in DOMAIN f.todo : ItemOK(f, f.todo[i])

(* A frame that gets a value that meets in, has one that meets out, or has *)
(* more to do.                                                             *)
Link(world, subject, f, in, out) ==
    LET key == KeyOfGoal(f.goal)
    IN /\ f.kind \in FrameKinds
       /\ key \in Keys
       /\ in.rank \in Nat
       /\ f.kind = "check" =>
            /\ Refines(in, KeyClaim(world, subject, key, Rank(world, key)))
            /\ Refines(CheckClaim(world, subject, key), out)
       /\ f.kind \in LoopKinds => TodoOK(f)
       /\ f.kind \in {"members", "union"} => Any(Items(world, subject, f) \cup {in}, out)
       /\ f.kind = "intersection" => All(Items(world, subject, f) \cup {in}, out)
       /\ f.kind = "base" =>
            /\ Head(f.todo) \in Rewrites(key)
            /\ Without(in, RewriteClaim(world, subject, key, Head(f.todo)), out)
       /\ f.kind = "subtract" => Opposite(in, out)

(* A claim that is waited for above pending subproblems: if one of these   *)
(* is ranked, the claim is sure and of no higher rank.                     *)
Clears(world, a, keys) ==
    \A key \in keys : Ranked(world, key) => a.sure /\ a.rank <= Rank(world, key)

Owes(world, subject, asked, s, owed) ==
    /\ IsStack(s)
    /\ IsStack(owed)
    /\ Len(owed) = Len(s) + 1
    /\ \A i \in 1..Len(owed) :
         owed[i].rank \in Nat /\ Clears(world, owed[i], Below(s, i - 1))
    /\ \A i \in 1..Len(s) : Link(world, subject, s[i], owed[i], owed[i + 1])
    /\ owed[Len(owed)] = CheckClaim(world, subject, asked)

(* A stack that waits for a value that meets a claim, to answer a question.*)
Waits(world, subject, asked, s, a) ==
    \E owed : Owes(world, subject, asked, s, owed) /\ owed[1] = a

LEMMA LinkClears ==
    ASSUME NEW w, Explained(w), NEW u, NEW f, NEW in, NEW out, Link(w, u, f, in, out),
           out.rank \in Nat, out.sure
    PROVE  in.sure /\ in.rank <= out.rank
<1> DEFINE key == KeyOfGoal(f.goal)
<1>1. CASE f.kind = "check"
  <2> DEFINE a == KeyClaim(w, u, key, Rank(w, key))
             b == CheckClaim(w, u, key)
  <2>1. key \in Keys /\ in.rank \in Nat /\ Refines(in, a) /\ Refines(b, out)
    BY <1>1 DEF Link
  <2>2. Rank(w, key) \in Nat
    BY <2>1, RankTypes
  <2>3. (a.sure <=> Ranked(w, key)) /\ a.rank = Rank(w, key)
    BY KeyClaimFields
  <2>4. (b.sure <=> Ranked(w, key)) /\ b.rank = Rank(w, key) + 1
    BY CheckClaimFields
  <2> HIDE DEF a, b, key
  <2> QED
    BY <2>1, <2>2, <2>3, <2>4 DEF Refines
<1>2. CASE f.kind \in {"members", "union"}
  BY <1>2 DEF Link, Any
<1>3. CASE f.kind = "intersection"
  BY <1>3 DEF Link, All
<1>4. CASE f.kind = "base"
  BY <1>4 DEF Link, Without
<1>5. CASE f.kind = "subtract"
  BY <1>5 DEF Link, Opposite
<1> QED
  BY <1>1, <1>2, <1>3, <1>4, <1>5 DEF Link, FrameKinds

(* A pending check clears its own subproblem.                              *)
LEMMA LinkClearsItself ==
    ASSUME NEW w, Explained(w), NEW u, NEW f, NEW in, NEW out, Link(w, u, f, in, out),
           f.kind = "check", Ranked(w, KeyOfGoal(f.goal))
    PROVE  in.sure /\ in.rank <= Rank(w, KeyOfGoal(f.goal))
<1> DEFINE key == KeyOfGoal(f.goal)
           a == KeyClaim(w, u, key, Rank(w, key))
<1>1. Refines(in, a)
  BY DEF Link
<1>2. (a.sure <=> Ranked(w, key)) /\ a.rank = Rank(w, key)
  BY KeyClaimFields
<1> HIDE DEF a
<1> QED
  BY <1>1, <1>2 DEF Refines

LEMMA WaitsFor ==
    ASSUME NEW w, NEW u, NEW asked, NEW s, NEW a, Waits(w, u, asked, s, a)
    PROVE  IsStack(s) /\ a.rank \in Nat /\ Clears(w, a, Below(s, 0))
<1>1. PICK owed : Owes(w, u, asked, s, owed) /\ owed[1] = a
  BY DEF Waits
<1>2. Len(s) \in Nat /\ IsStack(s)
  BY <1>1, StackShape DEF Owes
<1>3. 1 \in 1..Len(owed) /\ 1 - 1 = 0
  BY <1>1, <1>2 DEF Owes
<1> QED
  BY <1>1, <1>2, <1>3 DEF Owes

LEMMA WaitsEmpty ==
    ASSUME NEW w, NEW u, NEW asked, NEW a, Waits(w, u, asked, << >>, a)
    PROVE  a = CheckClaim(w, u, asked)
<1>1. PICK owed : Owes(w, u, asked, << >>, owed) /\ owed[1] = a
  BY DEF Waits
<1>2. Len(<< >>) = 0
  BY EmptySeq
<1> QED
  BY <1>1, <1>2 DEF Owes

LEMMA EmptyWaits ==
    ASSUME NEW w, Explained(w), NEW u, NEW asked \in Keys
    PROVE  Waits(w, u, asked, << >>, CheckClaim(w, u, asked))
<1> DEFINE a == CheckClaim(w, u, asked)
           owed == <<a>>
<1>1. a.rank \in Nat
  BY CheckClaimFields, RankTypes
<1>2. Len(<< >>) = 0 /\ IsStack(<< >>) /\ Below(<< >>, 0) = {}
  BY EmptySeq, EmptyStackInv DEF StackInv
<1>3. IsStack(owed) /\ Len(owed) = 1 /\ owed[1] = a
  <2>1. owed \in Seq({a})
    OBVIOUS
  <2> QED
    BY <2>1 DEF IsStack
<1>4. a = CheckClaim(w, u, asked)
  OBVIOUS
<1> HIDE DEF owed, a
<1>5. \A i \in 1..Len(owed) : i = 1
  BY <1>3
<1>6. Clears(w, a, Below(<< >>, 1 - 1))
  BY <1>2 DEF Clears
<1>7. \A i \in 1..Len(owed) : owed[i].rank \in Nat /\ Clears(w, owed[i], Below(<< >>, i - 1))
  BY <1>1, <1>3, <1>5, <1>6
<1>8. \A i \in 1..Len(<< >>) : FALSE
  BY <1>2
<1>9. Len(owed) = Len(<< >>) + 1 /\ owed[Len(owed)] = a
  BY <1>2, <1>3
<1>10. Owes(w, u, asked, << >>, owed)
  BY <1>2, <1>3, <1>4, <1>7, <1>8, <1>9 DEF Owes
<1> QED
  BY <1>3, <1>4, <1>10 DEF Waits

LEMMA PushClears ==
    ASSUME NEW w, Explained(w), NEW u, NEW asked, NEW s, NEW out,
           Waits(w, u, asked, s, out), NEW f, NEW in, Link(w, u, f, in, out)
    PROVE  Clears(w, in, Below(<<f>> \o s, 0))
<1>1. IsStack(s) /\ out.rank \in Nat /\ Clears(w, out, Below(s, 0))
  BY WaitsFor
<1>2. Below(<<f>> \o s, 0) = IF f.kind = "check"
                               THEN Below(s, 0) \cup {KeyOfGoal(f.goal)} ELSE Below(s, 0)
  BY <1>1, BelowPush
<1>3. out.sure => in.sure /\ in.rank <= out.rank
  BY <1>1, LinkClears
<1>4. in.rank \in Nat
  BY DEF Link
<1>5. ASSUME NEW key \in Below(<<f>> \o s, 0), Ranked(w, key)
      PROVE  in.sure /\ in.rank <= Rank(w, key)
  <2>1. CASE f.kind = "check" /\ key = KeyOfGoal(f.goal)
    BY <1>5, <2>1, LinkClearsItself
  <2>2. CASE key \in Below(s, 0) /\ Rank(w, key) \in Nat
    BY <1>1, <1>3, <1>4, <1>5, <2>2 DEF Clears
  <2>3. key \in Below(s, 0) => Rank(w, key) \in Nat
    <3> SUFFICES ASSUME key \in Below(s, 0)
                 PROVE  key \in Keys
      BY RankTypes
    <3>1. PICK i \in 1..Len(s) : s[i].kind = "check" /\ key = KeyOfGoal(s[i].goal)
      BY <1>1, BelowIs
    <3>2. PICK owed : Owes(w, u, asked, s, owed)
      BY DEF Waits
    <3> QED
      BY <3>1, <3>2 DEF Owes, Link
  <2> QED
    BY <1>2, <1>5, <2>1, <2>2, <2>3
<1> QED
  BY <1>5 DEF Clears

LEMMA PushWaits ==
    ASSUME NEW w, Explained(w), NEW u, NEW asked, NEW s, NEW out,
           Waits(w, u, asked, s, out), NEW f, NEW in, Link(w, u, f, in, out)
    PROVE  Waits(w, u, asked, <<f>> \o s, in)
<1>1. PICK owed : Owes(w, u, asked, s, owed) /\ owed[1] = out
  BY DEF Waits
<1> DEFINE t == <<f>> \o s
           o == <<in>> \o owed
<1>2. /\ IsStack(s) /\ IsStack(owed)
      /\ Len(s) \in Nat /\ Len(owed) = Len(s) + 1
      /\ owed[Len(owed)] = CheckClaim(w, u, asked)
  BY <1>1, StackShape DEF Owes
<1>3. /\ IsStack(t) /\ Len(t) = Len(s) + 1 /\ t[1] = f
      /\ \A i \in 1..Len(s) : t[i + 1] = s[i]
  BY <1>2, PushShape
<1>4. /\ IsStack(o) /\ Len(o) = Len(owed) + 1 /\ o[1] = in
      /\ \A i \in 1..Len(owed) : o[i + 1] = owed[i]
  BY <1>2, PushShape
<1>5. Clears(w, in, Below(t, 0)) /\ in.rank \in Nat
  BY PushClears DEF Link
<1>6. \A n \in Nat : Below(t, n + 1) = Below(s, n)
  BY <1>2, BelowPush
<1> HIDE DEF t, o
<1>7. ASSUME NEW i \in 1..Len(o)
      PROVE  o[i].rank \in Nat /\ Clears(w, o[i], Below(t, i - 1))
  <2>1. CASE i = 1
    <3>1. i - 1 = 0 /\ o[i] = in
      BY <1>4, <2>1
    <3> QED
      BY <1>5, <3>1
  <2>2. CASE i # 1
    <3>1. i - 1 \in 1..Len(owed) /\ (i - 1) + 1 = i
      BY <1>2, <1>4, <2>2
    <3>2. o[i] = owed[i - 1]
      BY <1>4, <3>1
    <3>3. (i - 1) - 1 \in Nat /\ ((i - 1) - 1) + 1 = i - 1
      BY <1>2, <3>1
    <3>4. Below(t, i - 1) = Below(s, (i - 1) - 1)
      BY <1>6, <3>3
    <3>5. owed[i - 1].rank \in Nat /\ Clears(w, owed[i - 1], Below(s, (i - 1) - 1))
      BY <1>1, <3>1 DEF Owes
    <3> QED
      BY <3>2, <3>4, <3>5
  <2> QED
    BY <2>1, <2>2
<1>8. ASSUME NEW i \in 1..Len(t)
      PROVE  Link(w, u, t[i], o[i], o[i + 1])
  <2>1. CASE i = 1
    <3>1. t[i] = f /\ o[i] = in /\ o[i + 1] = out
      BY <1>1, <1>2, <1>3, <1>4, <2>1
    <3> QED
      BY <3>1
  <2>2. CASE i # 1
    <3>1. i - 1 \in 1..Len(s) /\ i \in 1..Len(owed) /\ (i - 1) + 1 = i
      BY <1>2, <1>3, <2>2
    <3>2. i - 1 \in 1..Len(owed)
      BY <1>2, <3>1
    <3>3. o[i + 1] = owed[i]
      BY <1>4, <3>1
    <3>4. o[i] = owed[i - 1]
      BY <1>4, <3>1, <3>2
    <3>5. t[i] = s[i - 1]
      BY <1>3, <3>1
    <3>6. Link(w, u, s[i - 1], owed[i - 1], owed[i])
      BY <1>1, <3>1 DEF Owes
    <3> QED
      BY <3>3, <3>4, <3>5, <3>6
  <2> QED
    BY <2>1, <2>2
<1>9. o[Len(o)] = CheckClaim(w, u, asked)
  <2>1. Len(owed) \in 1..Len(owed)
    BY <1>2
  <2> QED
    BY <1>2, <1>4, <2>1
<1>10. Owes(w, u, asked, t, o)
  BY <1>2, <1>3, <1>4, <1>7, <1>8, <1>9 DEF Owes
<1>11. Waits(w, u, asked, t, in)
  BY <1>4, <1>10 DEF Waits
<1> QED
  BY <1>11 DEF t

(* The claim that the top frame owes to what is below it.                  *)
LEMMA PopWaits ==
    ASSUME NEW w, NEW u, NEW asked, NEW s, s # << >>, NEW in, Waits(w, u, asked, s, in)
    PROVE  \E out : Waits(w, u, asked, Tail(s), out) /\ Link(w, u, s[1], in, out)
<1>1. PICK owed : Owes(w, u, asked, s, owed) /\ owed[1] = in
  BY DEF Waits
<1> DEFINE t == Tail(s)
           o == Tail(owed)
<1>2. /\ IsStack(s) /\ IsStack(owed)
      /\ Len(s) \in Nat /\ Len(s) > 0 /\ Len(owed) = Len(s) + 1
      /\ owed[Len(owed)] = CheckClaim(w, u, asked)
  BY <1>1, StackShape DEF Owes
<1>3. owed # << >>
  BY <1>2, EmptySeq
<1>4. /\ IsStack(t) /\ Len(t) = Len(s) - 1
      /\ \A i \in 1..Len(t) : t[i] = s[i + 1]
  BY <1>2, PopShape
<1>5. /\ IsStack(o) /\ Len(o) = Len(owed) - 1
      /\ \A i \in 1..Len(o) : o[i] = owed[i + 1]
  BY <1>2, <1>3, PopShape
<1>6. \A n \in Nat : Below(t, n) = Below(s, n + 1)
  BY <1>2, BelowPop
<1> HIDE DEF t, o
<1>7. ASSUME NEW i \in 1..Len(o)
      PROVE  o[i].rank \in Nat /\ Clears(w, o[i], Below(t, i - 1))
  <2>1. i + 1 \in 1..Len(owed) /\ (i + 1) - 1 = (i - 1) + 1 /\ i - 1 \in Nat
    BY <1>2, <1>5
  <2>2. owed[i + 1].rank \in Nat /\ Clears(w, owed[i + 1], Below(s, (i + 1) - 1))
    BY <1>1, <2>1 DEF Owes
  <2>3. Below(t, i - 1) = Below(s, (i + 1) - 1)
    BY <1>6, <2>1
  <2> QED
    BY <1>5, <2>2, <2>3
<1>8. ASSUME NEW i \in 1..Len(t)
      PROVE  Link(w, u, t[i], o[i], o[i + 1])
  <2>1. i + 1 \in 1..Len(s) /\ i \in 1..Len(o) /\ i + 1 \in 1..Len(o)
    BY <1>2, <1>4, <1>5
  <2>2. Link(w, u, s[i + 1], owed[i + 1], owed[(i + 1) + 1])
    BY <1>1, <2>1 DEF Owes
  <2>3. t[i] = s[i + 1] /\ o[i] = owed[i + 1] /\ o[i + 1] = owed[(i + 1) + 1]
    BY <1>4, <1>5, <2>1
  <2> QED
    BY <2>2, <2>3
<1>9. o[Len(o)] = CheckClaim(w, u, asked)
  <2>1. Len(o) \in 1..Len(o) /\ Len(o) + 1 = Len(owed)
    BY <1>2, <1>5
  <2> QED
    BY <1>2, <1>5, <2>1
<1>10. Owes(w, u, asked, t, o)
  BY <1>2, <1>4, <1>5, <1>7, <1>8, <1>9 DEF Owes
<1>11. Waits(w, u, asked, t, o[1])
  BY <1>10 DEF Waits
<1>12. Link(w, u, s[1], in, o[1])
  <2>1. 1 \in 1..Len(s) /\ 1 \in 1..Len(o) /\ 1 + 1 = 2
    BY <1>2, <1>5
  <2>2. Link(w, u, s[1], owed[1], owed[1 + 1])
    BY <1>1, <2>1 DEF Owes
  <2>3. o[1] = owed[1 + 1]
    BY <1>5, <2>1
  <2> QED
    BY <1>1, <2>2, <2>3
<1> QED
  BY <1>11, <1>12 DEF t

LEMMA RetopIsPush ==
    ASSUME NEW s, IsStack(s), s # << >>, NEW f
    PROVE  [s EXCEPT ![1] = f] = <<f>> \o Tail(s)
<1> DEFINE t == [s EXCEPT ![1] = f]
           p == <<f>> \o Tail(s)
<1>1. /\ IsStack(t) /\ Len(t) = Len(s) /\ t[1] = f
      /\ \A i \in 2..Len(s) : t[i] = s[i]
  BY ReplaceShape
<1>2. /\ IsStack(Tail(s)) /\ Len(Tail(s)) = Len(s) - 1
      /\ \A i \in 1..Len(Tail(s)) : Tail(s)[i] = s[i + 1]
  BY PopShape
<1>3. /\ IsStack(p) /\ Len(p) = Len(Tail(s)) + 1 /\ p[1] = f
      /\ \A i \in 1..Len(Tail(s)) : p[i + 1] = Tail(s)[i]
  BY <1>2, PushShape
<1>4. Len(s) \in Nat /\ Len(s) > 0
  BY StackShape
<1> HIDE DEF t, p
<1>5. Len(p) = Len(t)
  BY <1>1, <1>2, <1>3, <1>4
<1>6. ASSUME NEW i \in 1..Len(t)
      PROVE  t[i] = p[i]
  <2>1. CASE i = 1
    BY <1>1, <1>3, <2>1
  <2>2. CASE i # 1
    <3>1. i - 1 \in 1..Len(Tail(s)) /\ (i - 1) + 1 = i /\ i \in 2..Len(s)
      BY <1>1, <1>2, <1>4, <2>2
    <3>2. p[i] = Tail(s)[i - 1] /\ Tail(s)[i - 1] = s[i]
      BY <1>2, <1>3, <3>1
    <3> QED
      BY <1>1, <3>1, <3>2
  <2> QED
    BY <2>1, <2>2
<1>7. PICK F : t \in Seq(F)
  BY <1>1 DEF IsStack
<1>8. PICK G : p \in Seq(G)
  BY <1>3 DEF IsStack
<1>9. t \in Seq(F \cup G) /\ p \in Seq(F \cup G)
  BY <1>7, <1>8, SeqMonotonic
<1>10. t = p
  BY <1>5, <1>6, <1>9, SeqEqual
<1> QED
  BY <1>10 DEF t, p

(* The top frame is replaced, and waits for something else.                *)
LEMMA RetopWaits ==
    ASSUME NEW w, Explained(w), NEW u, NEW asked, NEW s, s # << >>, NEW out,
           Waits(w, u, asked, Tail(s), out), IsStack(s),
           NEW f, NEW in, Link(w, u, f, in, out)
    PROVE  Waits(w, u, asked, [s EXCEPT ![1] = f], in)
<1> DEFINE t == Tail(s)
           p == [s EXCEPT ![1] = f]
<1>1. p = <<f>> \o t
  BY RetopIsPush
<1>2. Waits(w, u, asked, t, out)
  OBVIOUS
<1> HIDE DEF t, p
<1>3. Waits(w, u, asked, <<f>> \o t, in)
  BY <1>2, PushWaits
<1>4. Waits(w, u, asked, p, in)
  BY <1>1, <1>3
<1> QED
  BY <1>4 DEF p

----------------------------------------------------------------------------
(* Evaluations.                                                            *)

(* The fields of an evaluation after each of the operators that a step is  *)
(* composed of.                                                            *)

LEMMA AllFields ==
    ASSUME NEW p, NEW q, NEW r, NEW g, NEW w, NEW v, NEW s, NEW m, NEW x, NEW f,
           f = [phase |-> p, request |-> q, revision |-> r, goal |-> g, rewrite |-> w,
                value |-> v, stack |-> s, memo |-> m, error |-> x]
    PROVE  /\ IsEvaluation(f)
           /\ f.phase = p /\ f.request = q /\ f.revision = r /\ f.goal = g
           /\ f.rewrite = w /\ f.value = v /\ f.stack = s /\ f.memo = m /\ f.error = x
BY DEF IsEvaluation

LEMMA MovedFields ==
    ASSUME NEW e, IsEvaluation(e), NEW phase, NEW goal, NEW rewrite, NEW value,
           NEW f, f = Moved(e, phase, goal, rewrite, value)
    PROVE  /\ IsEvaluation(f)
           /\ f.phase = phase /\ f.goal = goal /\ f.rewrite = rewrite /\ f.value = value
           /\ f.stack = e.stack /\ f.memo = e.memo
<1> DEFINE e1 == [e EXCEPT !.phase = phase]
           e2 == [e1 EXCEPT !.goal = goal]
           e3 == [e2 EXCEPT !.rewrite = rewrite]
<1>1. e1 = [phase |-> phase, request |-> e.request, revision |-> e.revision,
            goal |-> e.goal, rewrite |-> e.rewrite, value |-> e.value,
            stack |-> e.stack, memo |-> e.memo, error |-> e.error]
  BY DEF IsEvaluation
<1>2. f = [e3 EXCEPT !.value = value]
  BY DEF Moved
<1> HIDE DEF e1
<1>3. f = [phase |-> phase, request |-> e.request, revision |-> e.revision,
           goal |-> goal, rewrite |-> rewrite, value |-> value,
           stack |-> e.stack, memo |-> e.memo, error |-> e.error]
  BY <1>1, <1>2
<1> QED
  BY ONLY <1>3, AllFields

LEMMA RestackFields ==
    ASSUME NEW e, IsEvaluation(e), NEW s, NEW f, f = Restack(e, s)
    PROVE  /\ IsEvaluation(f)
           /\ f.phase = e.phase /\ f.goal = e.goal /\ f.value = e.value
           /\ f.rewrite = e.rewrite /\ f.stack = s /\ f.memo = e.memo
<1>1. f = [phase |-> e.phase, request |-> e.request, revision |-> e.revision,
           goal |-> e.goal, rewrite |-> e.rewrite, value |-> e.value,
           stack |-> s, memo |-> e.memo, error |-> e.error]
  BY DEF IsEvaluation, Restack
<1> QED
  BY ONLY <1>1, AllFields

LEMMA MemoFields ==
    ASSUME NEW e, IsEvaluation(e), NEW k, NEW value,
           NEW f, f = [e EXCEPT !.memo = Put(@, k, value)]
    PROVE  /\ IsEvaluation(f)
           /\ f.phase = e.phase /\ f.goal = e.goal /\ f.value = e.value
           /\ f.stack = e.stack /\ f.memo = Put(e.memo, k, value)
<1> DEFINE memo == Put(e.memo, k, value)
<1>1. f = [phase |-> e.phase, request |-> e.request, revision |-> e.revision,
           goal |-> e.goal, rewrite |-> e.rewrite, value |-> e.value,
           stack |-> e.stack, memo |-> memo, error |-> e.error]
  BY DEF IsEvaluation
<1> HIDE DEF memo
<1>2. /\ IsEvaluation(f)
      /\ f.phase = e.phase /\ f.goal = e.goal /\ f.value = e.value
      /\ f.stack = e.stack /\ f.memo = memo
  BY ONLY <1>1, AllFields
<1> QED
  BY <1>2 DEF memo

----------------------------------------------------------------------------
(* What an evaluation has promised.                                        *)

(* An answer about a subproblem: every grant is true, and if the subproblem*)
(* is ranked, every denial is.                                             *)
Right(world, subject, key, value) ==
    /\ value => Holds(world, key, subject)
    /\ Ranked(world, key) /\ Holds(world, key, subject) => value

MemoRight(world, subject, memo) ==
    \A key \in DOMAIN memo : key \in Keys /\ Right(world, subject, key, memo[key])

(* The pending calls wait for a value that meets a.                        *)
Pending(world, subject, asked, e, a) ==
    /\ IsEvaluation(e)
    /\ MemoRight(world, subject, e.memo)
    /\ Waits(world, subject, asked, e.stack, a)

(* What a loop over nothing returns.                                       *)
Unit(kind) == IF kind = "intersection" THEN Yes ELSE No

(* The next steps find such a value.                                       *)
Job(world, subject, e, a) ==
    LET key == KeyOfGoal(e.goal)
    IN /\ e.phase \in Deciding
       /\ e.phase = "check" =>
            key \in Keys /\ Refines(CheckClaim(world, subject, key), a)
       /\ e.phase = "eval" =>
            /\ key \in Keys
            /\ e.rewrite \in Rewrites(key)
            /\ Refines(RewriteClaim(world, subject, key, e.rewrite), a)
       /\ e.phase = "loop" =>
            e.stack # << >> /\ e.stack[1].kind \in LoopKinds /\ a = Unit(e.stack[1].kind)
       /\ e.phase = "return" => Meets(e.value, a)

Meant(world, subject, asked, e) ==
    \E a : Pending(world, subject, asked, e, a) /\ Job(world, subject, e, a)

LEMMA RightIsMeets ==
    ASSUME NEW w, NEW u, NEW k, NEW n, NEW value \in BOOLEAN
    PROVE  Right(w, u, k, value) <=> Meets(value, KeyClaim(w, u, k, n))
<1> DEFINE a == KeyClaim(w, u, k, n)
<1>1. (a.truth <=> Holds(w, k, u)) /\ (a.sure <=> Ranked(w, k))
  BY KeyClaimFields
<1> HIDE DEF a
<1>2. Right(w, u, k, value) <=> Meets(value, a)
  BY <1>1 DEF Right, Meets
<1> QED
  BY <1>2 DEF a

LEMMA PutRight ==
    ASSUME NEW w, NEW u, NEW memo, MemoRight(w, u, memo),
           NEW k \in Keys, NEW value, Right(w, u, k, value)
    PROVE  MemoRight(w, u, Put(memo, k, value))
<1> DEFINE put == Put(memo, k, value)
<1>1. DOMAIN put = DOMAIN memo \cup {k}
      /\ \A x \in DOMAIN put : put[x] = IF x = k THEN value ELSE memo[x]
  BY DEF Put
<1> HIDE DEF put
<1>2. ASSUME NEW x \in DOMAIN put
      PROVE  x \in Keys /\ Right(w, u, x, put[x])
  <2>1. CASE x = k
    BY <1>1, <2>1
  <2>2. CASE x # k
    BY <1>1, <2>2 DEF MemoRight
  <2> QED
    BY <2>1, <2>2
<1> QED
  BY <1>2 DEF MemoRight, put

LEMMA PushPending ==
    ASSUME NEW w, Explained(w), NEW u, NEW asked, NEW e, NEW out,
           Pending(w, u, asked, e, out), NEW kind, NEW todo, NEW in,
           Link(w, u, Frame(kind, e.goal, todo), in, out),
           NEW f, f = Push(e, kind, todo)
    PROVE  /\ Pending(w, u, asked, f, in)
           /\ f.stack # << >> /\ f.stack[1].kind = kind
<1> DEFINE new == Frame(kind, e.goal, todo)
           s == <<new>> \o e.stack
<1>1. f = Restack(e, s)
  BY DEF Push, Restack
<1>2. new.kind = kind
  BY FrameFields
<1> HIDE DEF new
<1>3. IsStack(e.stack)
  BY WaitsFor DEF Pending
<1>4. s # << >> /\ s[1] = new
  BY <1>3, PushShape
<1>5. Waits(w, u, asked, s, in)
  BY PushWaits DEF Pending, new
<1> HIDE DEF s
<1>6. IsEvaluation(f) /\ f.stack = s /\ f.memo = e.memo
  BY <1>1, RestackFields DEF Pending
<1> QED
  BY <1>2, <1>4, <1>5, <1>6 DEF Pending

LEMMA PopPending ==
    ASSUME NEW w, NEW u, NEW asked, NEW e, NEW in, Pending(w, u, asked, e, in),
           e.stack # << >>, NEW f, f = Pop(e)
    PROVE  /\ f.phase = e.phase /\ f.value = e.value
           /\ \E out : Pending(w, u, asked, f, out) /\ Link(w, u, Top(e), in, out)
<1> DEFINE s == Tail(e.stack)
<1>1. f = Restack(e, s)
  BY DEF Pop, Restack
<1>2. \E out : Waits(w, u, asked, s, out) /\ Link(w, u, e.stack[1], in, out)
  BY PopWaits DEF Pending
<1> HIDE DEF s
<1>3. /\ IsEvaluation(f) /\ f.stack = s /\ f.memo = e.memo
      /\ f.phase = e.phase /\ f.value = e.value
  BY <1>1, RestackFields DEF Pending
<1>4. Top(e) = e.stack[1]
  BY WaitsFor, StackShape DEF Pending, Top
<1> QED
  BY <1>2, <1>3, <1>4 DEF Pending

LEMMA RetopPending ==
    ASSUME NEW w, Explained(w), NEW u, NEW asked, NEW e, NEW out,
           Pending(w, u, asked, Pop(e), out), IsEvaluation(e),
           IsStack(e.stack), e.stack # << >>,
           NEW new, NEW in, Link(w, u, new, in, out),
           NEW s, s = [e.stack EXCEPT ![1] = new], NEW f, f = Restack(e, s)
    PROVE  /\ Pending(w, u, asked, f, in)
           /\ f.stack # << >> /\ f.stack[1] = new /\ f.phase = e.phase
<1> DEFINE g == Pop(e)
           t == Tail(e.stack)
<1>1. g = Restack(e, t)
  BY DEF Pop, Restack
<1> HIDE DEF t
<1>2. g.stack = t /\ g.memo = e.memo
  BY <1>1, RestackFields
<1>3. Waits(w, u, asked, t, out) /\ MemoRight(w, u, e.memo)
  BY <1>2 DEF Pending
<1>4. Waits(w, u, asked, s, in)
  BY <1>3, RetopWaits DEF t
<1>5. s # << >> /\ s[1] = new
  BY ReplaceShape
<1>6. IsEvaluation(f) /\ f.stack = s /\ f.memo = e.memo /\ f.phase = e.phase
  BY ONLY IsEvaluation(e), f = Restack(e, s), RestackFields
<1> QED
  BY <1>3, <1>4, <1>5, <1>6 DEF Pending

LEMMA MovedPending ==
    ASSUME NEW w, NEW u, NEW asked, NEW e, NEW a, Pending(w, u, asked, e, a),
           NEW phase, NEW goal, NEW rewrite, NEW value,
           NEW f, f = Moved(e, phase, goal, rewrite, value)
    PROVE  /\ Pending(w, u, asked, f, a)
           /\ f.phase = phase /\ f.goal = goal /\ f.rewrite = rewrite /\ f.value = value
           /\ f.stack = e.stack
<1>1. /\ IsEvaluation(f)
      /\ f.phase = phase /\ f.goal = goal /\ f.rewrite = rewrite /\ f.value = value
      /\ f.stack = e.stack /\ f.memo = e.memo
  BY MovedFields DEF Pending
<1> QED
  BY <1>1 DEF Pending

LEMMA CheckMeant ==
    ASSUME NEW w, NEW u, NEW asked, NEW e, NEW a, Pending(w, u, asked, e, a),
           NEW goal, KeyOfGoal(goal) \in Keys,
           Refines(CheckClaim(w, u, KeyOfGoal(goal)), a),
           NEW f, f = Check(e, goal)
    PROVE  Meant(w, u, asked, f)
<1> DEFINE no == FALSE
<1>1. f = Moved(e, "check", goal, NoRewrite, no)
  BY DEF Check
<1> HIDE DEF no
<1>2. Pending(w, u, asked, f, a) /\ f.phase = "check" /\ f.goal = goal
  BY <1>1, MovedPending
<1>3. Job(w, u, f, a)
  BY <1>2 DEF Job, Deciding
<1> QED
  BY <1>2, <1>3 DEF Meant

LEMMA EvalMeant ==
    ASSUME NEW w, NEW u, NEW asked, NEW e, NEW a, Pending(w, u, asked, e, a),
           NEW goal, KeyOfGoal(goal) \in Keys, NEW rewrite \in Rewrites(KeyOfGoal(goal)),
           Refines(RewriteClaim(w, u, KeyOfGoal(goal), rewrite), a),
           NEW f, f = Eval(e, goal, rewrite)
    PROVE  Meant(w, u, asked, f)
<1> DEFINE no == FALSE
<1>1. f = Moved(e, "eval", goal, rewrite, no)
  BY DEF Eval
<1> HIDE DEF no
<1>2. /\ Pending(w, u, asked, f, a)
      /\ f.phase = "eval" /\ f.goal = goal /\ f.rewrite = rewrite
  BY <1>1, MovedPending
<1>3. Job(w, u, f, a)
  BY <1>2 DEF Job, Deciding
<1> QED
  BY <1>2, <1>3 DEF Meant

LEMMA ReturnMeant ==
    ASSUME NEW w, NEW u, NEW asked, NEW e, NEW a, Pending(w, u, asked, e, a),
           NEW value \in BOOLEAN, Meets(value, a),
           NEW f, f = Return(e, value)
    PROVE  Meant(w, u, asked, f)
<1>1. f = Moved(e, "return", NoGoal, NoRewrite, value)
  BY DEF Return
<1>2. Pending(w, u, asked, f, a) /\ f.phase = "return" /\ f.value = value
  BY <1>1, MovedPending
<1>3. Meets(f.value, a)
  BY <1>2
<1>4. Job(w, u, f, a)
  BY <1>2, <1>3 DEF Job, Deciding
<1> QED
  BY <1>2, <1>4 DEF Meant

LEMMA ContinueMeant ==
    ASSUME NEW w, NEW u, NEW asked, NEW e, NEW kind \in LoopKinds,
           e.stack # << >>, e.stack[1].kind = kind,
           Pending(w, u, asked, e, Unit(kind)),
           NEW f, f = Continue(e)
    PROVE  Meant(w, u, asked, f)
<1> DEFINE no == FALSE
<1>1. f = Moved(e, "loop", NoGoal, NoRewrite, no)
  BY DEF Continue
<1> HIDE DEF no
<1>2. Pending(w, u, asked, f, Unit(kind)) /\ f.phase = "loop" /\ f.stack = e.stack
  BY <1>1, MovedPending
<1>3. Job(w, u, f, Unit(kind))
  BY <1>2 DEF Job, Deciding
<1> QED
  BY <1>2, <1>3 DEF Meant

LEMMA UnitRank ==
    ASSUME NEW kind
    PROVE  Unit(kind).rank \in Nat
BY NoFields, YesFields DEF Unit

(* What eval does for a rewrite that is a loop.                            *)
LEMMA LoopMeant ==
    ASSUME NEW w, Explained(w), NEW u, NEW asked, NEW e, NEW out,
           Pending(w, u, asked, e, out), NEW kind \in LoopKinds, NEW todo,
           Link(w, u, Frame(kind, e.goal, todo), Unit(kind), out),
           NEW f, f = Loop(e, kind, todo)
    PROVE  Meant(w, u, asked, f)
<1> DEFINE g == Push(e, kind, todo)
<1>1. /\ Pending(w, u, asked, g, Unit(kind))
      /\ g.stack # << >> /\ g.stack[1].kind = kind
  BY PushPending
<1>2. f = Continue(g)
  BY DEF Loop
<1> HIDE DEF g
<1> QED
  BY <1>1, <1>2, ContinueMeant

----------------------------------------------------------------------------
(* Stacks and answers, one lemma for each way through check.               *)

(* The claim of a check that is about to be made.                          *)
LEMMA CheckJob ==
    ASSUME NEW w, NEW u, NEW e, NEW a, Job(w, u, e, a), e.phase = "check"
    PROVE  /\ KeyOfGoal(e.goal) \in Keys
           /\ Refines(CheckClaim(w, u, KeyOfGoal(e.goal)), a)
BY DEF Job

(* An answer that is right answers the check.                              *)
LEMMA RightMeets ==
    ASSUME NEW w, NEW u, NEW k, NEW a, Refines(CheckClaim(w, u, k), a),
           NEW value \in BOOLEAN, Right(w, u, k, value)
    PROVE  Meets(value, a)
<1> DEFINE b == CheckClaim(w, u, k)
<1>1. Meets(value, b)
  BY RightIsMeets DEF CheckClaim
<1> HIDE DEF b
<1>2. Refines(b, a)
  BY DEF b
<1> QED
  BY <1>1, <1>2, MeetsRefined

LEMMA MemoHitMeant ==
    ASSUME NEW w, NEW u, NEW asked, NEW e, Meant(w, u, asked, e), Decisions(e.memo),
           e.phase = "check", KeyOfGoal(e.goal) \in DOMAIN e.memo,
           NEW f, f = Return(e, e.memo[KeyOfGoal(e.goal)])
    PROVE  Meant(w, u, asked, f)
<1> DEFINE key == KeyOfGoal(e.goal)
           value == e.memo[key]
<1>1. PICK a : Pending(w, u, asked, e, a) /\ Job(w, u, e, a)
  BY DEF Meant
<1>2. Refines(CheckClaim(w, u, key), a)
  BY <1>1, CheckJob
<1>3. value \in BOOLEAN /\ Right(w, u, key, value)
  BY <1>1 DEF Pending, MemoRight, Decisions
<1>4. f = Return(e, value)
  OBVIOUS
<1> HIDE DEF value, key
<1>5. Meets(value, a)
  BY <1>2, <1>3, RightMeets
<1> QED
  BY <1>1, <1>3, <1>4, <1>5, ReturnMeant

LEMMA CacheHitMeant ==
    ASSUME NEW w, NEW u, NEW asked, NEW e, Meant(w, u, asked, e), e.phase = "check",
           NEW key, key = KeyOfGoal(e.goal),
           NEW got \in BOOLEAN, Right(w, u, key, got),
           NEW f, f = Return([e EXCEPT !.memo = Put(@, key, got)], got)
    PROVE  Meant(w, u, asked, f)
<1> DEFINE g == [e EXCEPT !.memo = Put(@, key, got)]
<1>1. PICK a : Pending(w, u, asked, e, a) /\ Job(w, u, e, a)
  BY DEF Meant
<1>2. key \in Keys /\ Refines(CheckClaim(w, u, key), a)
  BY <1>1, CheckJob
<1>3. IsEvaluation(g) /\ g.stack = e.stack /\ g.memo = Put(e.memo, key, got)
  BY <1>1, MemoFields DEF Pending
<1>4. f = Return(g, got)
  OBVIOUS
<1> HIDE DEF g
<1>5. MemoRight(w, u, g.memo)
  BY <1>1, <1>2, <1>3, PutRight DEF Pending
<1>6. Pending(w, u, asked, g, a)
  BY <1>1, <1>3, <1>5 DEF Pending
<1>7. Meets(got, a)
  BY <1>2, RightMeets
<1> QED
  BY <1>4, <1>6, <1>7, ReturnMeant

(* A subproblem that is pending already is not ranked, or it would have    *)
(* come to itself through subproblems of ever lower rank; to deny it is no *)
(* mistake, unless the call that waits must not be told a false denial,    *)
(* and such a call comes to no cycle.                                      *)
LEMMA CutCycleMeant ==
    ASSUME NEW w, Explained(w), NEW u, NEW asked, NEW e, Meant(w, u, asked, e),
           e.phase = "check", KeyOfGoal(e.goal) \in Below(e.stack, 0),
           NEW f, f = Return(e, FALSE)
    PROVE  Meant(w, u, asked, f)
<1> DEFINE key == KeyOfGoal(e.goal)
           no == FALSE
           b == CheckClaim(w, u, key)
<1>1. PICK a : Pending(w, u, asked, e, a) /\ Job(w, u, e, a)
  BY DEF Meant
<1>2. key \in Keys /\ Refines(b, a)
  BY <1>1, CheckJob
<1>3. a.rank \in Nat /\ Clears(w, a, Below(e.stack, 0))
  BY <1>1, WaitsFor DEF Pending
<1>4. Ranked(w, key) => a.sure /\ a.rank <= Rank(w, key)
  BY <1>3 DEF Clears
<1>5. (b.sure <=> Ranked(w, key)) /\ b.rank = Rank(w, key) + 1
  BY CheckClaimFields
<1>6. Rank(w, key) \in Nat
  BY <1>2, RankTypes
<1>7. f = Return(e, no) /\ no = FALSE /\ no \in BOOLEAN
  OBVIOUS
<1> HIDE DEF b, no, key
<1>8. ~ a.sure
  BY <1>2, <1>3, <1>4, <1>5, <1>6 DEF Refines
<1>9. Meets(no, a)
  BY <1>7, <1>8 DEF Meets
<1> QED
  BY <1>1, <1>7, <1>9, ReturnMeant

(* check asks eval, which may assume that the subproblem is pending.       *)
LEMMA ExpandMeant ==
    ASSUME NEW w, Explained(w), RewritesClosed, NEW u \in Subjects,
           NEW asked, NEW e, Meant(w, u, asked, e),
           e.phase = "check", Defines(Schema, e.goal.object.type, e.goal.relation),
           NEW f, f = Eval(Push(e, "check", << >>), e.goal, RewriteOf(e.goal))
    PROVE  Meant(w, u, asked, f)
<1> DEFINE key == KeyOfGoal(e.goal)
           in == KeyClaim(w, u, key, Rank(w, key))
           new == Frame("check", e.goal, << >>)
           g == Push(e, "check", << >>)
<1>1. PICK a : Pending(w, u, asked, e, a) /\ Job(w, u, e, a)
  BY DEF Meant
<1>2. key \in Keys /\ Refines(CheckClaim(w, u, key), a)
  BY <1>1, CheckJob
<1>3. key.object = e.goal.object /\ key.relation = e.goal.relation
  BY DEF KeyOfGoal, RelationKey
<1>4. key \in DefinedKeys /\ RewriteOf(key) = RewriteOf(e.goal)
  BY <1>2, <1>3 DEF DefinedKeys, RewriteOf
<1>5. RewriteOf(e.goal) \in Rewrites(key)
  BY <1>4 DEF RewritesClosed
<1>6. Refines(RewriteClaim(w, u, key, RewriteOf(e.goal)), in)
  BY <1>4, RewriteOfKey
<1>7. in.rank \in Nat
  BY <1>2, RankTypes, KeyClaimFields
<1>8. new.kind = "check" /\ new.goal = e.goal /\ new.todo = << >>
  BY FrameFields
<1> HIDE DEF new
<1>9. Refines(in, in)
  BY <1>7 DEF Refines
<1>10. Link(w, u, new, in, a)
  BY <1>2, <1>7, <1>8, <1>9 DEF Link, FrameKinds, LoopKinds
<1> HIDE DEF in
<1>11. Pending(w, u, asked, g, in)
  BY <1>1, <1>10, PushPending DEF new
<1>12. f = Eval(g, e.goal, RewriteOf(e.goal))
  OBVIOUS
<1> HIDE DEF g
<1> QED
  BY <1>2, <1>5, <1>6, <1>11, <1>12, EvalMeant

----------------------------------------------------------------------------
(* One lemma for each kind of rewrite.                                     *)

LEMMA EvalJob ==
    ASSUME NEW w, NEW u, NEW e, NEW a, Job(w, u, e, a), e.phase = "eval"
    PROVE  /\ KeyOfGoal(e.goal) \in Keys
           /\ e.rewrite \in Rewrites(KeyOfGoal(e.goal))
           /\ Refines(RewriteClaim(w, u, KeyOfGoal(e.goal), e.rewrite), a)
BY DEF Job

LEMMA CheckClaimRank ==
    ASSUME NEW w, Explained(w), NEW u, NEW k \in Keys
    PROVE  CheckClaim(w, u, k).rank \in Nat
BY RankTypes, CheckClaimFields

LEMMA RewriteClaimRank ==
    ASSUME NEW w, Explained(w), NEW u, NEW k \in Keys, NEW r
    PROVE  RewriteClaim(w, u, k, r).rank \in Nat
BY RankTypes, RewriteClaimFields

LEMMA EvalComputedMeant ==
    ASSUME NEW w, Explained(w), NEW u \in Subjects,
           NEW asked, NEW e, Meant(w, u, asked, e),
           e.phase = "eval", e.rewrite.op = "computed", NEW depth,
           NEW f, f = Check(e, Goal(e.goal.object, e.rewrite.relation, depth))
    PROVE  Meant(w, u, asked, f)
<1> DEFINE k == KeyOfGoal(e.goal)
           goal == Goal(e.goal.object, e.rewrite.relation, depth)
           next == KeyOfGoal(goal)
           b == CheckClaim(w, u, next)
           r == RewriteClaim(w, u, k, e.rewrite)
<1>1. PICK a : Pending(w, u, asked, e, a) /\ Job(w, u, e, a)
  BY DEF Meant
<1>2. k \in Keys /\ e.rewrite \in Rewrites(k) /\ Refines(r, a)
  BY <1>1, EvalJob
<1>3. k.object = e.goal.object
  BY DEF KeyOfGoal, RelationKey
<1>4. next = RelationKey(k.object, e.rewrite.relation)
  BY <1>3 DEF KeyOfGoal, Goal
<1> HIDE DEF next, k
<1>5. next \in Keys /\ Refines(b, r)
  BY <1>2, <1>4, ComputedRefines
<1>6. a.rank \in Nat /\ b.rank \in Nat /\ r.rank \in Nat
  BY <1>1, <1>2, <1>5, WaitsFor, CheckClaimRank, RewriteClaimRank DEF Pending
<1> HIDE DEF b, r
<1>7. Refines(b, a)
  BY <1>2, <1>5, <1>6, RefinesTransitive
<1> QED
  BY <1>1, <1>5, <1>7, CheckMeant DEF b, next

(* The loop over members.                                                  *)
LEMMA MembersLink ==
    ASSUME NEW w, Explained(w), NEW u, NEW k \in Keys, NEW r, NEW a,
           Refines(RewriteClaim(w, u, k, r), a), a.rank \in Nat,
           NEW todo, IsStack(todo), NEW members,
           members = {todo[i] : i \in DOMAIN todo},
           \A m \in members : IsUserset(m) => KeyOfMember(m) \in Keys,
           Any(MemberClaims(w, u, members) \cup {No}, RewriteClaim(w, u, k, r)),
           NEW goal, KeyOfGoal(goal) = k, NEW new, new = Frame("members", goal, todo)
    PROVE  Link(w, u, new, Unit("members"), a)
<1> DEFINE b == RewriteClaim(w, u, k, r)
           parts == MemberClaims(w, u, members) \cup {No}
<1>1. new.kind = "members" /\ new.goal = goal /\ new.todo = todo
  BY FrameFields
<1>2. Items(w, u, new) = {MemberClaim(w, u, todo[i]) : i \in DOMAIN todo}
  BY <1>1 DEF Items, ItemClaim
<1>3. parts = Items(w, u, new) \cup {No}
  BY <1>2 DEF MemberClaims
<1>4. \A m \in members : MemberClaim(w, u, m).rank \in Nat
  <2> SUFFICES ASSUME NEW m \in members
               PROVE  MemberClaim(w, u, m).rank \in Nat
    OBVIOUS
  <2>1. CASE IsUserset(m)
    BY <2>1, RankTypes, MemberClaimFields
  <2>2. CASE ~ IsUserset(m)
    BY <2>2, MemberClaimFields
  <2> QED
    BY <2>1, <2>2
<1>5. \A p \in parts : p.rank \in Nat
  BY <1>4, NoFields DEF MemberClaims
<1>6. b.rank \in Nat
  BY RewriteClaimRank
<1>7. Any(parts, b) /\ Refines(b, a)
  OBVIOUS
<1> HIDE DEF b, parts
<1>8. Any(parts, a)
  BY <1>5, <1>6, <1>7, AnyRefined
<1>9. TodoOK(new)
  BY <1>1 DEF TodoOK, ItemOK
<1>10. Unit("members") = No /\ No.rank \in Nat
  BY NoFields DEF Unit
<1>11. Any(Items(w, u, new) \cup {Unit("members")}, a)
  BY <1>3, <1>8, <1>10
<1>12. KeyOfGoal(new.goal) \in Keys
  BY <1>1
<1> QED
  BY <1>1, <1>9, <1>10, <1>11, <1>12 DEF Link, FrameKinds

(* Whatever the order in which the store returns tuples, all are visited.  *)
LEMMA OrderShape ==
    ASSUME NEW set, IsFiniteSet(set), NEW tuples \in Orders(set)
    PROVE  /\ Cardinality(set) \in Nat
           /\ DOMAIN tuples = 1..Cardinality(set)
           /\ \A i \in DOMAIN tuples : tuples[i] \in set
           /\ \A t \in set : \E i \in DOMAIN tuples : tuples[i] = t
<1>1. Cardinality(set) \in Nat
  BY FS_CardinalityType
<1>2. tuples \in Surjection(1..Cardinality(set), set)
  BY DEF Orders, Bijection
<1> QED
  BY <1>1, <1>2 DEF Surjection

LEMMA OrderedTodo ==
    ASSUME NEW n \in Nat, NEW todo, todo = [i \in 1..n |-> todo[i]]
    PROVE  IsStack(todo) /\ DOMAIN todo = 1..n
<1> DEFINE F == {todo[i] : i \in 1..n}
<1>1. todo \in [1..n -> F]
  OBVIOUS
<1>2. todo \in Seq(F)
  BY <1>1, SeqDef
<1> QED
  BY <1>2 DEF IsStack

LEMMA EvalThisMeant ==
    ASSUME NEW w, Explained(w), IsFiniteSet(w), NEW u \in Subjects,
           NEW asked, NEW e, Meant(w, u, asked, e),
           e.phase = "eval", e.rewrite.op = "this",
           NEW tuples \in Orders(Stored(w, e.goal.object, e.goal.relation)),
           NEW todo, todo = [i \in DOMAIN tuples |-> tuples[i].subject],
           NEW f, f = Loop(e, "members", todo)
    PROVE  Meant(w, u, asked, f)
<1> DEFINE k == KeyOfGoal(e.goal)
           set == Stored(w, e.goal.object, e.goal.relation)
           members == {t.subject : t \in set}
           new == Frame("members", e.goal, todo)
<1>1. PICK a : Pending(w, u, asked, e, a) /\ Job(w, u, e, a)
  BY DEF Meant
<1>2. k \in Keys /\ e.rewrite \in Rewrites(k) /\ Refines(RewriteClaim(w, u, k, e.rewrite), a)
  BY <1>1, EvalJob
<1>3. a.rank \in Nat
  BY <1>1, WaitsFor DEF Pending
<1>4. k.object = e.goal.object /\ k.relation = e.goal.relation
  BY DEF KeyOfGoal, RelationKey
<1>5. IsFiniteSet(set)
  BY FS_Subset DEF Stored
<1>6. /\ Cardinality(set) \in Nat
      /\ DOMAIN tuples = 1..Cardinality(set)
      /\ \A i \in DOMAIN tuples : tuples[i] \in set
      /\ \A t \in set : \E i \in DOMAIN tuples : tuples[i] = t
  BY <1>5, OrderShape
<1>7. IsStack(todo) /\ DOMAIN todo = 1..Cardinality(set)
  BY <1>6, OrderedTodo
<1>8. members = {todo[i] : i \in DOMAIN todo}
  BY <1>6
<1>9. members = {t.subject : t \in Stored(w, k.object, k.relation)}
  BY <1>4
<1> HIDE DEF members, k
<1>10. /\ \A m \in members : IsUserset(m) => KeyOfMember(m) \in Keys
       /\ Any(MemberClaims(w, u, members) \cup {No}, RewriteClaim(w, u, k, e.rewrite))
  BY <1>2, <1>9, ThisAny
<1>11. Link(w, u, new, Unit("members"), a)
  BY <1>2, <1>3, <1>7, <1>8, <1>10, MembersLink DEF k
<1> QED
  BY <1>1, <1>11, LoopMeant DEF LoopKinds

LEMMA EvalTupleToUsersetMeant ==
    ASSUME NEW w, Explained(w), RewritesClosed, IsFiniteSet(w), NEW u \in Subjects,
           NEW asked, NEW e, Meant(w, u, asked, e),
           e.phase = "eval", e.rewrite.op = "tupleToUserset",
           NEW tuples \in Orders(Stored(w, e.goal.object, e.rewrite.tupleset)),
           NEW todo, todo = [i \in DOMAIN tuples |->
                               Userset(tuples[i].subject.object, e.rewrite.computed)],
           NEW f, f = Loop(e, "members", todo)
    PROVE  Meant(w, u, asked, f)
<1> DEFINE k == KeyOfGoal(e.goal)
           set == Stored(w, e.goal.object, e.rewrite.tupleset)
           members == {Userset(t.subject.object, e.rewrite.computed) : t \in set}
           new == Frame("members", e.goal, todo)
<1>1. PICK a : Pending(w, u, asked, e, a) /\ Job(w, u, e, a)
  BY DEF Meant
<1>2. k \in Keys /\ e.rewrite \in Rewrites(k) /\ Refines(RewriteClaim(w, u, k, e.rewrite), a)
  BY <1>1, EvalJob
<1>3. a.rank \in Nat
  BY <1>1, WaitsFor DEF Pending
<1>4. k.object = e.goal.object
  BY DEF KeyOfGoal, RelationKey
<1>5. IsFiniteSet(set)
  BY FS_Subset DEF Stored
<1>6. /\ Cardinality(set) \in Nat
      /\ DOMAIN tuples = 1..Cardinality(set)
      /\ \A i \in DOMAIN tuples : tuples[i] \in set
      /\ \A t \in set : \E i \in DOMAIN tuples : tuples[i] = t
  BY <1>5, OrderShape
<1>7. IsStack(todo) /\ DOMAIN todo = 1..Cardinality(set)
  BY <1>6, OrderedTodo
<1>8. members = {todo[i] : i \in DOMAIN todo}
  BY <1>6
<1>9. members = FarMembers(w, k, e.rewrite)
  BY <1>4 DEF FarMembers
<1> HIDE DEF members, k
<1>10. /\ \A m \in members : IsUserset(m) => KeyOfMember(m) \in Keys
       /\ Any(MemberClaims(w, u, members) \cup {No}, RewriteClaim(w, u, k, e.rewrite))
  BY <1>2, <1>9, FarEndsAny
<1>11. Link(w, u, new, Unit("members"), a)
  BY <1>2, <1>3, <1>7, <1>8, <1>10, MembersLink DEF k
<1> QED
  BY <1>1, <1>11, LoopMeant DEF LoopKinds

(* The loop over rewrites.                                                 *)
LEMMA ChildrenItems ==
    ASSUME NEW w, Explained(w), RewritesClosed, NEW u,
           NEW k \in Keys, NEW r \in Rewrites(k), r.op \in {"union", "intersection"},
           NEW goal, KeyOfGoal(goal) = k, NEW kind \in {"union", "intersection"},
           NEW new, new = Frame(kind, goal, r.children)
    PROVE  /\ TodoOK(new)
           /\ Items(w, u, new) = RewriteClaims(w, u, k, r.children)
           /\ \A p \in RewriteClaims(w, u, k, r.children) : p.rank \in Nat
<1>1. new.kind = kind /\ new.goal = goal /\ new.todo = r.children
  BY FrameFields
<1>2. IsStack(r.children)
  BY DEF RewritesClosed, IsStack
<1>3. \A i \in DOMAIN r.children : r.children[i] \in Rewrites(k)
  BY ChildTypes
<1>4. TodoOK(new)
  BY <1>1, <1>2, <1>3 DEF TodoOK, ItemOK
<1>5. Items(w, u, new) = RewriteClaims(w, u, k, r.children)
  BY <1>1 DEF Items, ItemClaim, RewriteClaims
<1>6. \A p \in RewriteClaims(w, u, k, r.children) : p.rank \in Nat
  BY RewriteClaimRank DEF RewriteClaims
<1> QED
  BY <1>4, <1>5, <1>6

LEMMA EvalUnionMeant ==
    ASSUME NEW w, Explained(w), RewritesClosed, NEW u \in Subjects,
           NEW asked, NEW e, Meant(w, u, asked, e),
           e.phase = "eval", e.rewrite.op = "union",
           NEW f, f = Loop(e, "union", e.rewrite.children)
    PROVE  Meant(w, u, asked, f)
<1> DEFINE k == KeyOfGoal(e.goal)
           todo == e.rewrite.children
           new == Frame("union", e.goal, todo)
           b == RewriteClaim(w, u, k, e.rewrite)
           parts == RewriteClaims(w, u, k, todo) \cup {No}
<1>1. PICK a : Pending(w, u, asked, e, a) /\ Job(w, u, e, a)
  BY DEF Meant
<1>2. k \in Keys /\ e.rewrite \in Rewrites(k) /\ Refines(b, a)
  BY <1>1, EvalJob
<1>3. a.rank \in Nat /\ b.rank \in Nat
  BY <1>1, <1>2, WaitsFor, RewriteClaimRank DEF Pending
<1>4. /\ TodoOK(new)
      /\ Items(w, u, new) = RewriteClaims(w, u, k, todo)
      /\ \A p \in RewriteClaims(w, u, k, todo) : p.rank \in Nat
  BY <1>2, ChildrenItems
<1>5. Any(parts, b)
  BY <1>2, UnionAny
<1>6. \A p \in parts : p.rank \in Nat
  BY <1>4, NoFields
<1>7. new.kind = "union" /\ new.goal = e.goal
  BY FrameFields
<1>8. Unit("union") = No /\ No.rank \in Nat
  BY NoFields DEF Unit
<1>9. parts = Items(w, u, new) \cup {Unit("union")}
  BY <1>4, <1>8
<1> HIDE DEF parts, b, new
<1>10. Any(parts, a)
  BY <1>2, <1>3, <1>5, <1>6, AnyRefined
<1>11. Link(w, u, new, Unit("union"), a)
  BY <1>2, <1>4, <1>7, <1>8, <1>9, <1>10 DEF Link, FrameKinds
<1> QED
  BY <1>1, <1>11, LoopMeant DEF LoopKinds, new

LEMMA EvalIntersectionMeant ==
    ASSUME NEW w, Explained(w), RewritesClosed, NEW u \in Subjects,
           NEW asked, NEW e, Meant(w, u, asked, e),
           e.phase = "eval", e.rewrite.op = "intersection", e.rewrite.children # << >>,
           NEW f, f = Loop(e, "intersection", e.rewrite.children)
    PROVE  Meant(w, u, asked, f)
<1> DEFINE k == KeyOfGoal(e.goal)
           todo == e.rewrite.children
           new == Frame("intersection", e.goal, todo)
           b == RewriteClaim(w, u, k, e.rewrite)
           parts == RewriteClaims(w, u, k, todo) \cup {Yes}
<1>1. PICK a : Pending(w, u, asked, e, a) /\ Job(w, u, e, a)
  BY DEF Meant
<1>2. k \in Keys /\ e.rewrite \in Rewrites(k) /\ Refines(b, a)
  BY <1>1, EvalJob
<1>3. a.rank \in Nat /\ b.rank \in Nat
  BY <1>1, <1>2, WaitsFor, RewriteClaimRank DEF Pending
<1>4. /\ TodoOK(new)
      /\ Items(w, u, new) = RewriteClaims(w, u, k, todo)
      /\ \A p \in RewriteClaims(w, u, k, todo) : p.rank \in Nat
  BY <1>2, ChildrenItems
<1>5. All(parts, b)
  BY <1>2, IntersectionAll
<1>6. \A p \in parts : p.rank \in Nat
  BY <1>4, YesFields
<1>7. new.kind = "intersection" /\ new.goal = e.goal
  BY FrameFields
<1>8. Unit("intersection") = Yes /\ Yes.rank \in Nat
  BY YesFields DEF Unit
<1>9. parts = Items(w, u, new) \cup {Unit("intersection")}
  BY <1>4, <1>8
<1> HIDE DEF parts, b, new
<1>10. All(parts, a)
  BY <1>2, <1>3, <1>5, <1>6, AllRefined
<1>11. Link(w, u, new, Unit("intersection"), a)
  BY <1>2, <1>4, <1>7, <1>8, <1>9, <1>10 DEF Link, FrameKinds
<1> QED
  BY <1>1, <1>11, LoopMeant DEF LoopKinds, new

LEMMA EmptyIntersectionMeant ==
    ASSUME NEW w, Explained(w), NEW u \in Subjects,
           NEW asked, NEW e, Meant(w, u, asked, e),
           e.phase = "eval", e.rewrite.op = "intersection", e.rewrite.children = << >>,
           NEW f, f = Return(e, FALSE)
    PROVE  Meant(w, u, asked, f)
<1> DEFINE k == KeyOfGoal(e.goal)
           b == RewriteClaim(w, u, k, e.rewrite)
           no == FALSE
<1>1. PICK a : Pending(w, u, asked, e, a) /\ Job(w, u, e, a)
  BY DEF Meant
<1>2. k \in Keys /\ e.rewrite \in Rewrites(k) /\ Refines(b, a)
  BY <1>1, EvalJob
<1>3. Meets(no, b)
  BY <1>2, EmptyIntersection
<1>4. f = Return(e, no) /\ no \in BOOLEAN
  OBVIOUS
<1> HIDE DEF b, no
<1>5. Meets(no, a)
  BY <1>2, <1>3, <1>4, MeetsRefined
<1> QED
  BY <1>1, <1>4, <1>5, ReturnMeant

LEMMA WithoutRefined ==
    ASSUME NEW base, NEW subtract, NEW b, NEW c, Without(base, subtract, b), Refines(b, c),
           base.rank \in Nat, subtract.rank \in Nat, b.rank \in Nat, c.rank \in Nat
    PROVE  Without(base, subtract, c)
BY DEF Without, Refines

LEMMA EvalExclusionMeant ==
    ASSUME NEW w, Explained(w), RewritesClosed, NEW u \in Subjects,
           NEW asked, NEW e, Meant(w, u, asked, e),
           e.phase = "eval", e.rewrite.op = "exclusion",
           NEW f, f = Eval(Push(e, "base", <<e.rewrite.subtract>>), e.goal, e.rewrite.base)
    PROVE  Meant(w, u, asked, f)
<1> DEFINE k == KeyOfGoal(e.goal)
           todo == <<e.rewrite.subtract>>
           new == Frame("base", e.goal, todo)
           b == RewriteClaim(w, u, k, e.rewrite)
           base == RewriteClaim(w, u, k, e.rewrite.base)
           subtract == RewriteClaim(w, u, k, e.rewrite.subtract)
           g == Push(e, "base", todo)
<1>1. PICK a : Pending(w, u, asked, e, a) /\ Job(w, u, e, a)
  BY DEF Meant
<1>2. k \in Keys /\ e.rewrite \in Rewrites(k) /\ Refines(b, a)
  BY <1>1, EvalJob
<1>3. /\ e.rewrite.base \in Rewrites(k) /\ e.rewrite.subtract \in Rewrites(k)
      /\ Without(base, subtract, b)
  BY <1>2, ExclusionWithout
<1>4. /\ a.rank \in Nat /\ b.rank \in Nat
      /\ base.rank \in Nat /\ subtract.rank \in Nat
  BY <1>1, <1>2, WaitsFor, RewriteClaimRank DEF Pending
<1>5. Head(todo) = e.rewrite.subtract
  OBVIOUS
<1>6. new.kind = "base" /\ new.goal = e.goal /\ new.todo = todo
  BY FrameFields
<1>7. subtract = RewriteClaim(w, u, k, Head(todo)) /\ Refines(base, base)
  BY <1>4, <1>5 DEF Refines
<1>8. base = RewriteClaim(w, u, k, e.rewrite.base) /\ f = Eval(g, e.goal, e.rewrite.base)
  OBVIOUS
<1> HIDE DEF b, base, subtract, new, todo
<1>9. Without(base, subtract, a)
  BY <1>2, <1>3, <1>4, WithoutRefined
<1>10. Link(w, u, new, base, a)
  BY <1>2, <1>3, <1>4, <1>5, <1>6, <1>7, <1>9 DEF Link, FrameKinds, LoopKinds
<1>11. Pending(w, u, asked, g, base)
  BY <1>1, <1>10, PushPending DEF new
<1> HIDE DEF g
<1> QED
  BY <1>2, <1>3, <1>7, <1>8, <1>11, EvalMeant

----------------------------------------------------------------------------
(* The loops.                                                              *)

LEMMA LoopJob ==
    ASSUME NEW w, NEW u, NEW e, NEW a, Job(w, u, e, a), e.phase = "loop",
           EvalBase(e)
    PROVE  /\ e.stack # << >>
           /\ Top(e) = e.stack[1]
           /\ Top(e).kind \in LoopKinds
           /\ Top(e) = Frame(Top(e).kind, Top(e).goal, Top(e).todo)
           /\ a = Unit(Top(e).kind)
<1>1. e.stack # << >> /\ e.stack[1].kind \in LoopKinds /\ a = Unit(e.stack[1].kind)
  BY DEF Job
<1>2. Top(e) = e.stack[1] /\ FrameInv(Top(e))
  BY <1>1, TopOf
<1> QED
  BY <1>1, <1>2 DEF FrameInv

(* The first thing to do, and the rest.                                    *)
LEMMA RestItems ==
    ASSUME NEW w, NEW u, NEW f, TodoOK(f), f.todo # << >>,
           NEW new, new = Frame(f.kind, f.goal, Tail(f.todo))
    PROVE  /\ ItemOK(f, Head(f.todo))
           /\ TodoOK(new)
           /\ Items(w, u, f) = Items(w, u, new) \cup {ItemClaim(w, u, f, Head(f.todo))}
<1> DEFINE s == f.todo
           t == Tail(s)
<1>1. new.kind = f.kind /\ new.goal = f.goal /\ new.todo = t
  BY FrameFields
<1>2. /\ IsStack(s) /\ Len(s) \in Nat /\ Len(s) > 0 /\ DOMAIN s = 1..Len(s)
      /\ Head(s) = s[1]
  BY StackShape DEF TodoOK
<1>3. /\ IsStack(t) /\ Len(t) = Len(s) - 1
      /\ \A i \in 1..Len(t) : t[i] = s[i + 1]
  BY <1>2, PopShape
<1>4. DOMAIN t = 1..Len(t)
  BY <1>3, StackShape
<1> HIDE DEF t
<1>5. \A x : ItemOK(new, x) <=> ItemOK(f, x)
  BY <1>1 DEF ItemOK
<1>6. \A x : ItemClaim(w, u, new, x) = ItemClaim(w, u, f, x)
  BY <1>1 DEF ItemClaim
<1>7. \A i \in DOMAIN t : i + 1 \in DOMAIN s /\ t[i] = s[i + 1]
  BY <1>2, <1>3, <1>4
<1>8. ItemOK(f, Head(s))
  BY <1>2 DEF TodoOK
<1>9. TodoOK(new)
  BY <1>1, <1>3, <1>5, <1>7 DEF TodoOK
<1>10. \A i \in DOMAIN s : i = 1 \/ (i - 1 \in DOMAIN t /\ s[i] = t[i - 1])
  <2> SUFFICES ASSUME NEW i \in DOMAIN s, i # 1
               PROVE  i - 1 \in DOMAIN t /\ s[i] = t[i - 1]
    OBVIOUS
  <2>1. i - 1 \in 1..Len(t) /\ (i - 1) + 1 = i
    BY <1>2, <1>3
  <2> QED
    BY <1>3, <1>4, <2>1
<1>11. {ItemClaim(w, u, f, s[i]) : i \in DOMAIN s}
         = {ItemClaim(w, u, f, t[i]) : i \in DOMAIN t} \cup {ItemClaim(w, u, f, Head(s))}
  <2>1. ASSUME NEW i \in DOMAIN s
        PROVE  \/ ItemClaim(w, u, f, s[i]) = ItemClaim(w, u, f, Head(s))
               \/ \E j \in DOMAIN t : ItemClaim(w, u, f, s[i]) = ItemClaim(w, u, f, t[j])
    BY <1>2, <1>10
  <2>2. ASSUME NEW j \in DOMAIN t
        PROVE  \E i \in DOMAIN s : ItemClaim(w, u, f, t[j]) = ItemClaim(w, u, f, s[i])
    BY <1>7
  <2>3. 1 \in DOMAIN s /\ Head(s) = s[1]
    BY <1>2
  <2> QED
    BY <2>1, <2>2, <2>3
<1>12. Items(w, u, new) = {ItemClaim(w, u, f, t[i]) : i \in DOMAIN t}
  BY <1>1, <1>6 DEF Items
<1>13. Items(w, u, f) = {ItemClaim(w, u, f, s[i]) : i \in DOMAIN s}
  BY DEF Items
<1> QED
  BY <1>8, <1>9, <1>11, <1>12, <1>13

(* The loop waits for the value of its first item.                         *)
LEMMA NextLink ==
    ASSUME NEW w, NEW u, NEW f, f.kind \in LoopKinds, f.todo # << >>,
           NEW out, Link(w, u, f, Unit(f.kind), out),
           NEW new, new = Frame(f.kind, f.goal, Tail(f.todo)),
           NEW item, item = ItemClaim(w, u, f, Head(f.todo)), item.rank \in Nat
    PROVE  Link(w, u, new, item, out)
<1>1. TodoOK(f) /\ KeyOfGoal(f.goal) \in Keys
  BY DEF Link
<1>2. new.kind = f.kind /\ new.goal = f.goal
  BY FrameFields
<1>3. TodoOK(new) /\ Items(w, u, f) = Items(w, u, new) \cup {item}
  BY <1>1, RestItems
<1> DEFINE parts == Items(w, u, new) \cup {item}
<1>4. CASE f.kind \in {"members", "union"}
  <2>1. Any(parts \cup {No}, out)
    BY <1>3, <1>4 DEF Link, Unit
  <2> HIDE DEF parts
  <2>2. Any(parts, out)
    BY <2>1, AnyDrops
  <2> QED
    BY <1>1, <1>2, <1>3, <1>4, <2>2 DEF Link, LoopKinds, FrameKinds, parts
<1>5. CASE f.kind = "intersection"
  <2>1. All(parts \cup {Yes}, out)
    BY <1>3, <1>5 DEF Link, Unit
  <2> HIDE DEF parts
  <2>2. All(parts, out)
    BY <2>1, AllDrops
  <2> QED
    BY <1>1, <1>2, <1>3, <1>5, <2>2 DEF Link, LoopKinds, FrameKinds, parts
<1> QED
  BY <1>4, <1>5 DEF LoopKinds

LEMMA AdvancePending ==
    ASSUME NEW w, Explained(w), NEW u, NEW asked, NEW e, EvalBase(e), e.stack # << >>,
           NEW out, Pending(w, u, asked, Pop(e), out),
           NEW new, new = Frame(Top(e).kind, Top(e).goal, Tail(Top(e).todo)),
           NEW in, Link(w, u, new, in, out),
           NEW f, f = Advance(e)
    PROVE  /\ Pending(w, u, asked, f, in)
           /\ f.stack # << >> /\ f.stack[1].kind = Top(e).kind /\ f.phase = e.phase
<1> DEFINE top == e.stack[1]
           s == [e.stack EXCEPT ![1] = new]
<1>1. Top(e) = top /\ FrameInv(top)
  BY TopOf
<1>2. [top EXCEPT !.todo = Tail(top.todo)] = new
  BY <1>1, FrameTodo DEF FrameInv
<1>3. f = Restack(e, s)
  <2>1. [e.stack EXCEPT ![1].todo = Tail(@)] = s
    BY <1>2
  <2> QED
    BY <2>1 DEF Advance, Restack
<1>4. new.kind = Top(e).kind
  BY FrameFields
<1>5. IsStack(e.stack) /\ IsEvaluation(e)
  BY DEF EvalBase, StackInv
<1>6. s = [e.stack EXCEPT ![1] = new]
  OBVIOUS
<1> HIDE DEF s
<1>7. /\ Pending(w, u, asked, f, in)
      /\ f.stack # << >> /\ f.stack[1] = new /\ f.phase = e.phase
  BY ONLY Explained(w), Pending(w, u, asked, Pop(e), out), <1>5, e.stack # << >>,
          Link(w, u, new, in, out), <1>6, <1>3, RetopPending
<1> QED
  BY <1>4, <1>7

(* What a loop finds when it looks at its next item.                       *)
LEMMA LoopNext ==
    ASSUME NEW w, Explained(w), NEW u, NEW asked, NEW e, EvalBase(e),
           Meant(w, u, asked, e), e.phase = "loop"
    PROVE  /\ e.stack # << >>
           /\ Top(e).kind \in LoopKinds
           /\ Top(e) = Frame(Top(e).kind, Top(e).goal, Top(e).todo)
           /\ \E out : /\ Pending(w, u, asked, Pop(e), out)
                       /\ Link(w, u, Top(e), Unit(Top(e).kind), out)
                       /\ out.rank \in Nat
<1>1. PICK a : Pending(w, u, asked, e, a) /\ Job(w, u, e, a)
  BY DEF Meant
<1>2. /\ e.stack # << >>
      /\ Top(e).kind \in LoopKinds
      /\ Top(e) = Frame(Top(e).kind, Top(e).goal, Top(e).todo)
      /\ a = Unit(Top(e).kind)
  BY <1>1, LoopJob
<1>3. PICK out : Pending(w, u, asked, Pop(e), out) /\ Link(w, u, Top(e), a, out)
  BY <1>1, <1>2, PopPending
<1>4. out.rank \in Nat
  BY <1>3, WaitsFor DEF Pending
<1> QED
  BY <1>2, <1>3, <1>4

LEMMA NextUsersetMeant ==
    ASSUME NEW w, Explained(w), NEW u, NEW asked, NEW e, EvalBase(e),
           Meant(w, u, asked, e), e.phase = "loop",
           Top(e).kind = "members", Top(e).todo # << >>,
           NEW member, member = Head(Top(e).todo), IsUserset(member), NEW depth,
           NEW f, f = Check(Advance(e), Goal(member.object, member.relation, depth))
    PROVE  Meant(w, u, asked, f)
<1> DEFINE top == Top(e)
           new == Frame(top.kind, top.goal, Tail(top.todo))
           item == ItemClaim(w, u, top, member)
           goal == Goal(member.object, member.relation, depth)
           g == Advance(e)
<1>1. e.stack # << >> /\ top.kind \in LoopKinds
  BY LoopNext
<1>2. PICK out : /\ Pending(w, u, asked, Pop(e), out)
                 /\ Link(w, u, top, Unit(top.kind), out)
  BY LoopNext
<1>3. ItemOK(top, member)
  BY <1>1, <1>2, RestItems DEF Link
<1>4. KeyOfMember(member) \in Keys
  BY <1>3 DEF ItemOK
<1>5. item = CheckClaim(w, u, KeyOfMember(member))
  BY DEF ItemClaim, MemberClaim
<1>6. item.rank \in Nat
  BY <1>4, <1>5, CheckClaimRank
<1>7. Link(w, u, new, item, out)
  BY <1>1, <1>2, <1>6, NextLink
<1>8. Pending(w, u, asked, g, item)
  BY <1>1, <1>2, <1>7, AdvancePending
<1>9. KeyOfGoal(goal) = KeyOfMember(member)
  BY DEF KeyOfGoal, Goal, KeyOfMember
<1>10. Refines(item, item) /\ f = Check(g, goal)
  BY <1>6 DEF Refines
<1> HIDE DEF g, goal, item
<1> QED
  BY <1>4, <1>5, <1>8, <1>9, <1>10, CheckMeant

(* The member is somebody else.                                            *)
LEMMA NextOtherMeant ==
    ASSUME NEW w, Explained(w), NEW u, NEW asked, NEW e, EvalBase(e),
           Meant(w, u, asked, e), e.phase = "loop",
           Top(e).kind = "members", Top(e).todo # << >>,
           ~ IsUserset(Head(Top(e).todo)), Head(Top(e).todo) # u,
           NEW f, f = Advance(e)
    PROVE  Meant(w, u, asked, f)
<1> DEFINE top == Top(e)
           member == Head(top.todo)
           new == Frame(top.kind, top.goal, Tail(top.todo))
           item == ItemClaim(w, u, top, member)
<1>1. e.stack # << >> /\ top.kind \in LoopKinds
  BY LoopNext
<1>2. PICK out : /\ Pending(w, u, asked, Pop(e), out)
                 /\ Link(w, u, top, Unit(top.kind), out)
  BY LoopNext
<1>3. item = Unit("members")
  BY DEF ItemClaim, MemberClaim, Unit, No
<1>4. item.rank \in Nat
  BY <1>3, UnitRank
<1>5. Link(w, u, new, item, out)
  BY <1>1, <1>2, <1>4, NextLink
<1>6. /\ Pending(w, u, asked, f, item)
      /\ f.stack # << >> /\ f.stack[1].kind = "members" /\ f.phase = "loop"
  BY <1>1, <1>2, <1>5, AdvancePending
<1>7. Job(w, u, f, item)
  BY <1>3, <1>6 DEF Job, Deciding, LoopKinds
<1> QED
  BY <1>6, <1>7 DEF Meant

(* The member is the subject.                                              *)
LEMMA NextGrantMeant ==
    ASSUME NEW w, Explained(w), NEW u, NEW asked, NEW e, EvalBase(e),
           Meant(w, u, asked, e), e.phase = "loop",
           Top(e).kind = "members", Top(e).todo # << >>,
           ~ IsUserset(Head(Top(e).todo)), Head(Top(e).todo) = u,
           NEW f, f = Return(Pop(e), TRUE)
    PROVE  Meant(w, u, asked, f)
<1> DEFINE top == Top(e)
           member == Head(top.todo)
           new == Frame(top.kind, top.goal, Tail(top.todo))
           item == ItemClaim(w, u, top, member)
           parts == Items(w, u, top) \cup {No}
           yes == TRUE
           g == Pop(e)
<1>1. e.stack # << >> /\ top.kind \in LoopKinds
  BY LoopNext
<1>2. PICK out : /\ Pending(w, u, asked, g, out)
                 /\ Link(w, u, top, Unit(top.kind), out)
  BY LoopNext
<1>3. item = Yes
  BY DEF ItemClaim, MemberClaim, Yes
<1>4. item \in parts
  BY <1>1, <1>2, RestItems DEF Link
<1>5. Any(parts, out)
  BY <1>2 DEF Link, Unit
<1>6. Meets(TRUE, item)
  BY <1>3, YesFields DEF Meets
<1>7. f = Return(g, yes) /\ yes \in BOOLEAN
  OBVIOUS
<1> HIDE DEF item, parts, g
<1>8. Meets(TRUE, out)
  BY <1>4, <1>5, <1>6, AnyStops
<1>9. Meets(yes, out)
  BY <1>8
<1> HIDE DEF yes
<1> QED
  BY <1>2, <1>7, <1>9, ReturnMeant

LEMMA NextChildMeant ==
    ASSUME NEW w, Explained(w), NEW u, NEW asked, NEW e, EvalBase(e),
           Meant(w, u, asked, e), e.phase = "loop",
           Top(e).kind \in {"union", "intersection"}, Top(e).todo # << >>,
           NEW child, child = Head(Top(e).todo),
           NEW f, f = Eval(Advance(e), Top(e).goal, child)
    PROVE  Meant(w, u, asked, f)
<1> DEFINE top == Top(e)
           new == Frame(top.kind, top.goal, Tail(top.todo))
           item == ItemClaim(w, u, top, child)
           k == KeyOfGoal(top.goal)
           g == Advance(e)
<1>1. e.stack # << >> /\ top.kind \in LoopKinds
  BY LoopNext
<1>2. PICK out : /\ Pending(w, u, asked, Pop(e), out)
                 /\ Link(w, u, top, Unit(top.kind), out)
  BY LoopNext
<1>3. k \in Keys /\ ItemOK(top, child)
  BY <1>1, <1>2, RestItems DEF Link
<1>4. child \in Rewrites(k)
  BY <1>3 DEF ItemOK
<1>5. item = RewriteClaim(w, u, k, child)
  BY DEF ItemClaim
<1>6. item.rank \in Nat
  BY <1>3, <1>5, RewriteClaimRank
<1>7. Link(w, u, new, item, out)
  BY <1>1, <1>2, <1>6, NextLink
<1>8. Pending(w, u, asked, g, item)
  BY <1>1, <1>2, <1>7, AdvancePending
<1>9. Refines(item, item) /\ f = Eval(g, top.goal, child)
  BY <1>6 DEF Refines
<1> HIDE DEF g, item
<1> QED
  BY <1>3, <1>4, <1>5, <1>8, <1>9, EvalMeant

LEMMA EndOfLoopMeant ==
    ASSUME NEW w, Explained(w), NEW u, NEW asked, NEW e, EvalBase(e),
           Meant(w, u, asked, e), e.phase = "loop", Top(e).todo = << >>,
           NEW value, value = (Top(e).kind = "intersection"),
           NEW f, f = Return(Pop(e), value)
    PROVE  Meant(w, u, asked, f)
<1> DEFINE top == Top(e)
           g == Pop(e)
<1>1. top.kind \in LoopKinds
  BY LoopNext
<1>2. PICK out : Pending(w, u, asked, g, out) /\ Link(w, u, top, Unit(top.kind), out)
  BY LoopNext
<1>3. Items(w, u, top) = {}
  BY DEF Items
<1>4. value \in BOOLEAN /\ f = Return(g, value)
  OBVIOUS
<1>5. CASE top.kind = "intersection"
  <2>1. All({Yes}, out)
    BY <1>2, <1>3, <1>5 DEF Link, Unit
  <2>2. Meets(TRUE, out)
    BY <2>1, AllEnds
  <2>3. value = TRUE
    BY <1>5
  <2>4. Meets(value, out)
    BY <2>2, <2>3
  <2> QED
    BY <1>2, <1>4, <2>4, ReturnMeant
<1>6. CASE top.kind # "intersection"
  <2>1. top.kind \in {"members", "union"}
    BY <1>1, <1>6 DEF LoopKinds
  <2>2. Any({No}, out)
    BY <1>2, <1>3, <2>1 DEF Link, Unit
  <2>3. Meets(FALSE, out)
    BY <2>2, AnyEnds
  <2>4. value = FALSE
    BY <1>6
  <2>5. Meets(value, out)
    BY <2>3, <2>4
  <2> QED
    BY <1>2, <1>4, <2>5, ReturnMeant
<1> QED
  BY <1>5, <1>6

----------------------------------------------------------------------------
(* The returns.                                                            *)

LEMMA ReturnNext ==
    ASSUME NEW w, NEW u, NEW asked, NEW e, Meant(w, u, asked, e), e.phase = "return"
    PROVE  \E in : /\ Pending(w, u, asked, e, in)
                   /\ Meets(e.value, in)
                   /\ e.stack # << >> =>
                        \E out : /\ Pending(w, u, asked, Pop(e), out)
                                 /\ Link(w, u, Top(e), in, out)
                                 /\ out.rank \in Nat
<1>1. PICK in : Pending(w, u, asked, e, in) /\ Job(w, u, e, in)
  BY DEF Meant
<1>2. Meets(e.value, in)
  BY <1>1 DEF Job
<1>3. ASSUME e.stack # << >>
      PROVE  \E out : /\ Pending(w, u, asked, Pop(e), out)
                      /\ Link(w, u, Top(e), in, out)
                      /\ out.rank \in Nat
  <2>1. PICK out : Pending(w, u, asked, Pop(e), out) /\ Link(w, u, Top(e), in, out)
    BY <1>1, <1>3, PopPending
  <2>2. out.rank \in Nat
    BY <2>1, WaitsFor DEF Pending
  <2> QED
    BY <2>1, <2>2
<1> QED
  BY <1>1, <1>2, <1>3

(* The value goes on to the frame below.                                   *)
LEMMA PopMeant ==
    ASSUME NEW w, NEW u, NEW asked, NEW e, e.phase = "return", IsEvaluation(e),
           NEW f, f = Pop(e), NEW out, Pending(w, u, asked, f, out), Meets(e.value, out)
    PROVE  Meant(w, u, asked, f)
<1> DEFINE s == Tail(e.stack)
<1>1. f = Restack(e, s)
  BY DEF Pop, Restack
<1> HIDE DEF s
<1>2. f.phase = "return" /\ f.value = e.value
  BY <1>1, RestackFields
<1>3. Meets(f.value, out)
  BY <1>2
<1>4. Job(w, u, f, out)
  BY <1>2, <1>3 DEF Job, Deciding
<1> QED
  BY <1>4 DEF Meant

LEMMA StopsMeant ==
    ASSUME NEW w, Explained(w), NEW u, NEW asked, NEW e, EvalBase(e),
           Meant(w, u, asked, e), e.phase = "return", e.stack # << >>,
           Top(e).kind \in LoopKinds, Stops(e), NEW f, f = Pop(e)
    PROVE  Meant(w, u, asked, f)
<1> DEFINE top == Top(e)
<1>1. PICK in : /\ Pending(w, u, asked, e, in)
                /\ Meets(e.value, in)
                /\ \E out : /\ Pending(w, u, asked, f, out)
                            /\ Link(w, u, top, in, out)
                            /\ out.rank \in Nat
  BY ReturnNext
<1>2. PICK out : Pending(w, u, asked, f, out) /\ Link(w, u, top, in, out)
  BY <1>1
<1>3. CASE top.kind = "intersection"
  <2>1. e.value = FALSE
    BY <1>3 DEF Stops, EvalBase
  <2> DEFINE parts == Items(w, u, top) \cup {in}
  <2>2. All(parts, out) /\ in \in parts
    BY <1>2, <1>3 DEF Link
  <2>3. Meets(FALSE, in)
    BY <1>1, <2>1
  <2> HIDE DEF parts
  <2>4. Meets(FALSE, out)
    BY <2>2, <2>3, AllStops
  <2>5. Meets(e.value, out)
    BY <2>1, <2>4
  <2> QED
    BY <1>2, <2>5, PopMeant DEF EvalBase
<1>4. CASE top.kind # "intersection"
  <2>1. e.value = TRUE
    BY <1>4 DEF Stops, EvalBase
  <2> DEFINE parts == Items(w, u, top) \cup {in}
  <2>2. Any(parts, out) /\ in \in parts
    BY <1>2, <1>4 DEF Link, LoopKinds
  <2>3. Meets(TRUE, in)
    BY <1>1, <2>1
  <2> HIDE DEF parts
  <2>4. Meets(TRUE, out)
    BY <2>2, <2>3, AnyStops
  <2>5. Meets(e.value, out)
    BY <2>1, <2>4
  <2> QED
    BY <1>2, <2>5, PopMeant DEF EvalBase
<1> QED
  BY <1>3, <1>4

LEMMA ContinuesMeant ==
    ASSUME NEW w, Explained(w), NEW u, NEW asked, NEW e, EvalBase(e),
           Meant(w, u, asked, e), e.phase = "return", e.stack # << >>,
           Top(e).kind \in LoopKinds, ~ Stops(e), NEW f, f = Continue(e)
    PROVE  Meant(w, u, asked, f)
<1> DEFINE top == Top(e)
           rest == Items(w, u, top)
           s == [e.stack EXCEPT ![1] = top]
           g == Restack(e, s)
<1>1. PICK in : /\ Pending(w, u, asked, e, in)
                /\ Meets(e.value, in)
                /\ \E out : /\ Pending(w, u, asked, Pop(e), out)
                            /\ Link(w, u, top, in, out)
                            /\ out.rank \in Nat
  BY ReturnNext
<1>2. PICK out : /\ Pending(w, u, asked, Pop(e), out)
                 /\ Link(w, u, top, in, out)
                 /\ out.rank \in Nat
  BY <1>1
<1>3. Link(w, u, top, Unit(top.kind), out)
  <2>1. Unit(top.kind).rank \in Nat
    BY UnitRank
  <2>2. CASE top.kind = "intersection"
    <3>1. e.value = TRUE
      BY <2>2 DEF Stops, EvalBase
    <3>2. Meets(TRUE, in) /\ All(rest \cup {in}, out)
      BY <1>1, <1>2, <2>2, <3>1 DEF Link
    <3> HIDE DEF rest
    <3>3. All(rest \cup {Yes}, out)
      BY <1>2, <3>2, AllContinues
    <3> QED
      BY <1>2, <2>1, <2>2, <3>3 DEF Link, Unit, LoopKinds, rest
  <2>3. CASE top.kind # "intersection"
    <3>1. e.value = FALSE
      BY <2>3 DEF Stops, EvalBase
    <3>2. Meets(FALSE, in) /\ Any(rest \cup {in}, out)
      BY <1>1, <1>2, <2>3, <3>1 DEF Link, LoopKinds
    <3> HIDE DEF rest
    <3>3. Any(rest \cup {No}, out)
      BY <1>2, <3>2, AnyContinues
    <3> QED
      BY <1>2, <2>1, <2>3, <3>3 DEF Link, Unit, LoopKinds, rest
  <2> QED
    BY <2>2, <2>3
<1>4. IsEvaluation(e) /\ IsStack(e.stack) /\ top = e.stack[1]
  BY TopOf DEF EvalBase, StackInv
<1>5. s = e.stack
  BY <1>4 DEF IsStack
<1>6. g = e
  BY <1>4, <1>5 DEF Restack, IsEvaluation
<1>7. Pending(w, u, asked, g, Unit(top.kind))
  BY <1>2, <1>3, <1>4, RetopPending
<1>8. Pending(w, u, asked, e, Unit(top.kind))
  BY <1>6, <1>7
<1> QED
  BY <1>4, <1>8, ContinueMeant

(* The halves of an exclusion.                                             *)
LEMMA BaseDenies ==
    ASSUME NEW base, NEW subtract, NEW out, Without(base, subtract, out),
           Meets(FALSE, base)
    PROVE  Meets(FALSE, out)
BY DEF Without, Meets

LEMMA BaseGrants ==
    ASSUME NEW base, NEW subtract, NEW out, Without(base, subtract, out),
           Meets(TRUE, base)
    PROVE  Opposite(subtract, out)
BY DEF Without, Meets, Opposite

LEMMA SubtractDecides ==
    ASSUME NEW subtract, NEW out, Opposite(subtract, out),
           NEW value \in BOOLEAN, Meets(value, subtract)
    PROVE  Meets(~ value, out)
BY DEF Opposite, Meets

LEMMA BaseDeniedMeant ==
    ASSUME NEW w, NEW u, NEW asked, NEW e, EvalBase(e),
           Meant(w, u, asked, e), e.phase = "return", e.stack # << >>,
           Top(e).kind = "base", ~ e.value, NEW f, f = Pop(e)
    PROVE  Meant(w, u, asked, f)
<1>1. PICK in : /\ Meets(e.value, in)
                /\ \E out : /\ Pending(w, u, asked, f, out)
                            /\ Link(w, u, Top(e), in, out)
  BY ReturnNext
<1>2. PICK out : Pending(w, u, asked, f, out) /\ Link(w, u, Top(e), in, out)
  BY <1>1
<1>3. e.value = FALSE
  BY DEF EvalBase
<1>4. Meets(FALSE, in)
  BY <1>1, <1>3
<1>5. PICK subtract : Without(in, subtract, out)
  BY <1>2 DEF Link
<1>6. Meets(FALSE, out)
  BY <1>4, <1>5, BaseDenies
<1>7. Meets(e.value, out)
  BY <1>3, <1>6
<1> QED
  BY <1>2, <1>7, PopMeant DEF EvalBase

LEMMA BaseGrantedMeant ==
    ASSUME NEW w, Explained(w), NEW u, NEW asked, NEW e, EvalBase(e),
           Meant(w, u, asked, e), e.phase = "return", e.stack # << >>,
           Top(e).kind = "base", e.value,
           NEW f, f = Eval(Subtracting(e), Top(e).goal, Head(Top(e).todo))
    PROVE  Meant(w, u, asked, f)
<1> DEFINE top == Top(e)
           k == KeyOfGoal(top.goal)
           rewrite == Head(top.todo)
           subtract == RewriteClaim(w, u, k, rewrite)
           new == Frame("subtract", top.goal, << >>)
           s == [e.stack EXCEPT ![1] = new]
           g == Subtracting(e)
<1>1. PICK in : /\ Meets(e.value, in)
                /\ \E out : /\ Pending(w, u, asked, Pop(e), out)
                            /\ Link(w, u, top, in, out)
  BY ReturnNext
<1>2. PICK out : Pending(w, u, asked, Pop(e), out) /\ Link(w, u, top, in, out)
  BY <1>1
<1>3. e.value = TRUE
  BY DEF EvalBase
<1>4. Meets(TRUE, in)
  BY <1>1, <1>3
<1>5. k \in Keys /\ rewrite \in Rewrites(k) /\ Without(in, subtract, out)
  BY <1>2 DEF Link
<1>6. subtract.rank \in Nat
  BY <1>5, RewriteClaimRank
<1>7. new.kind = "subtract" /\ new.goal = top.goal
  BY FrameFields
<1>8. g = Restack(e, s)
  BY DEF Subtracting, Restack
<1>9. Refines(subtract, subtract) /\ f = Eval(g, top.goal, rewrite)
  BY <1>6 DEF Refines
<1> HIDE DEF subtract, new, g
<1>10. Opposite(subtract, out)
  BY <1>4, <1>5, BaseGrants
<1>11. Link(w, u, new, subtract, out)
  BY <1>5, <1>6, <1>7, <1>10 DEF Link, FrameKinds, LoopKinds
<1>12. IsEvaluation(e) /\ IsStack(e.stack)
  BY DEF EvalBase, StackInv
<1>13. Pending(w, u, asked, g, subtract)
  BY <1>2, <1>8, <1>11, <1>12, RetopPending
<1>14. Refines(RewriteClaim(w, u, k, rewrite), subtract)
  BY <1>9 DEF subtract
<1> QED
  BY <1>5, <1>9, <1>13, <1>14, EvalMeant

LEMMA SubtractMeant ==
    ASSUME NEW w, NEW u, NEW asked, NEW e, EvalBase(e),
           Meant(w, u, asked, e), e.phase = "return", e.stack # << >>,
           Top(e).kind = "subtract", NEW f, f = Return(Pop(e), ~ e.value)
    PROVE  Meant(w, u, asked, f)
<1> DEFINE g == Pop(e)
           value == ~ e.value
<1>1. PICK in : /\ Meets(e.value, in)
                /\ \E out : /\ Pending(w, u, asked, g, out)
                            /\ Link(w, u, Top(e), in, out)
  BY ReturnNext
<1>2. PICK out : Pending(w, u, asked, g, out) /\ Link(w, u, Top(e), in, out)
  BY <1>1
<1>3. Opposite(in, out) /\ e.value \in BOOLEAN
  BY <1>2 DEF Link, EvalBase
<1>4. Meets(value, out)
  BY <1>1, <1>3, SubtractDecides
<1>5. f = Return(g, value) /\ value \in BOOLEAN
  OBVIOUS
<1> HIDE DEF g, value
<1> QED
  BY <1>2, <1>4, <1>5, ReturnMeant

(* The end of check: what it has found out is right, and answers the call. *)
LEMMA CheckReturns ==
    ASSUME NEW w, Explained(w), NEW u, NEW asked, NEW e, EvalBase(e),
           Meant(w, u, asked, e), e.phase = "return", e.stack # << >>,
           Top(e).kind = "check",
           NEW key, key = KeyOfGoal(Top(e).goal),
           NEW g, g = [e EXCEPT !.memo = Put(@, key, e.value)], NEW f, f = Pop(g)
    PROVE  /\ key \in Keys
           /\ Right(w, u, key, e.value)
           /\ Meant(w, u, asked, f)
<1> DEFINE value == e.value
           a == KeyClaim(w, u, key, Rank(w, key))
<1>1. PICK in : /\ Pending(w, u, asked, e, in)
                /\ Meets(value, in)
                /\ \E out : /\ Pending(w, u, asked, Pop(e), out)
                            /\ Link(w, u, Top(e), in, out)
  BY ReturnNext
<1>2. PICK out : Pending(w, u, asked, Pop(e), out) /\ Link(w, u, Top(e), in, out)
  BY <1>1
<1>3. key \in Keys /\ Refines(in, a) /\ Refines(CheckClaim(w, u, key), out)
  BY <1>2 DEF Link
<1>4. value \in BOOLEAN
  BY DEF EvalBase
<1> HIDE DEF value
<1>5. Meets(value, a)
  BY <1>1, <1>3, <1>4, MeetsRefined
<1>6. Right(w, u, key, value)
  BY <1>4, <1>5, RightIsMeets
<1>7. Meets(value, out)
  BY <1>3, <1>4, <1>6, RightMeets
<1>8. /\ IsEvaluation(g) /\ g.stack = e.stack /\ g.memo = Put(e.memo, key, value)
      /\ g.phase = "return" /\ g.value = value
  <2>1. IsEvaluation(e) /\ g = [e EXCEPT !.memo = Put(@, key, value)]
    BY DEF EvalBase, value
  <2>2. /\ IsEvaluation(g) /\ g.stack = e.stack /\ g.memo = Put(e.memo, key, value)
        /\ g.phase = e.phase /\ g.value = e.value
    BY ONLY <2>1, MemoFields
  <2> QED
    BY <2>2 DEF value
<1>9. MemoRight(w, u, g.memo)
  BY <1>1, <1>3, <1>6, <1>8, PutRight DEF Pending
<1>10. Waits(w, u, asked, f.stack, out) /\ IsEvaluation(f) /\ f.memo = g.memo
  <2> DEFINE s == Tail(e.stack)
  <2>1. Pop(e) = Restack(e, s) /\ f = Restack(g, s)
    BY <1>8 DEF Pop, Restack
  <2> HIDE DEF s
  <2>2. Pop(e).stack = s
    BY <2>1, RestackFields DEF EvalBase
  <2>3. f.stack = s /\ f.memo = g.memo /\ IsEvaluation(f)
    BY ONLY <1>8, <2>1, RestackFields
  <2> QED
    BY <1>2, <2>2, <2>3 DEF Pending
<1>11. Pending(w, u, asked, f, out)
  BY <1>9, <1>10 DEF Pending
<1>12. Meant(w, u, asked, f)
  BY <1>7, <1>8, <1>11, PopMeant
<1> QED
  BY <1>3, <1>6, <1>12 DEF value

(* The answer of the whole check.                                          *)
LEMMA FinishRight ==
    ASSUME NEW w, NEW u, NEW asked, NEW e, EvalBase(e),
           Meant(w, u, asked, e), e.phase = "return", e.stack = << >>
    PROVE  Right(w, u, asked, e.value)
<1>1. PICK a : Pending(w, u, asked, e, a) /\ Meets(e.value, a)
  BY ReturnNext
<1>2. a = CheckClaim(w, u, asked)
  BY <1>1, WaitsEmpty DEF Pending
<1>3. e.value \in BOOLEAN
  BY DEF EvalBase
<1> QED
  BY <1>1, <1>2, <1>3, RightIsMeets DEF CheckClaim

(* The beginning: nothing is pending, and the question is asked.           *)
LEMMA BeginMeant ==
    ASSUME NEW w, Explained(w), NEW u, NEW asked \in Keys, NEW e, IsEvaluation(e),
           e.stack = << >>, e.memo = Empty, NEW goal, KeyOfGoal(goal) = asked,
           NEW f, f = Check(e, goal)
    PROVE  Meant(w, u, asked, f)
<1> DEFINE a == CheckClaim(w, u, asked)
<1>1. Waits(w, u, asked, e.stack, a)
  BY EmptyWaits
<1>2. MemoRight(w, u, e.memo)
  BY DEF MemoRight, Empty
<1>3. a.rank \in Nat
  BY CheckClaimRank
<1>4. a = CheckClaim(w, u, KeyOfGoal(goal))
  OBVIOUS
<1> HIDE DEF a
<1>5. Pending(w, u, asked, e, a) /\ Refines(a, a)
  BY <1>1, <1>2, <1>3 DEF Pending, Refines
<1> QED
  BY <1>4, <1>5, CheckMeant

----------------------------------------------------------------------------
(* The steps of the engine.                                                *)

(* What an evaluation has come to: pending calls that find the answer, the *)
(* answer, or an error, which allows nothing.                              *)
Sound(world, subject, asked, e) ==
    \/ Meant(world, subject, asked, e)
    \/ e.phase = "done" /\ e.error = "none" /\ Right(world, subject, asked, e.value)
    \/ e.phase = "done" /\ e.error # "none" /\ e.value = FALSE

(* An entry of the cache at a revision, about a subject.                   *)
Entry(key, subject, rev) ==
    [object |-> key.object, relation |-> key.relation,
     subject |-> subject, revision |-> rev]

(* A check in a world that the schema explains, with a cache that is right *)
(* about it.                                                               *)
Explains(c, world, subject) ==
    /\ RewritesClosed
    /\ Explained(world)
    /\ IsFiniteSet(world)
    /\ subject \in Subjects
    /\ world = World(call[c].revision)
    /\ subject = call[c].request.subject
    /\ \A key \in Keys :
         LET entry == Entry(key, subject, call[c].revision)
         IN entry \in DOMAIN cache => Right(world, subject, key, cache[entry])

(* What a step leaves in the cache.                                        *)
CacheKept(c, world, subject) ==
    \/ cache' = cache
    \/ \E key \in Keys, value \in BOOLEAN :
         /\ Right(world, subject, key, value)
         /\ cache' = Put(cache, Entry(key, subject, call[c].revision), value)

StepSound(c, world, subject, asked) ==
    Sound(world, subject, asked, call'[c]) /\ CacheKept(c, world, subject)

LEMMA CacheKeyIsEntry ==
    ASSUME NEW e, NEW goal
    PROVE  CacheKey(e, goal) = Entry(KeyOfGoal(goal), e.request.subject, e.revision)
BY DEF CacheKey, Entry, KeyOfGoal, RelationKey

LEMMA BecomesMeant ==
    ASSUME CallsOK, NEW c \in Calls, NEW w, NEW u, NEW asked,
           NEW f, Becomes(c, f), Meant(w, u, asked, f)
    PROVE  StepSound(c, w, u, asked)
BY DEF CallsOK, Becomes, StepSound, Sound, CacheKept

LEMMA FailsSound ==
    ASSUME CallsOK, NEW c \in Calls, NEW w, NEW u, NEW asked,
           Canceled(c) \/ DepthExceeded(c) \/ UnknownRelation(c) \/ StoreFails(c)
    PROVE  StepSound(c, w, u, asked)
<1>1. PICK error \in {"canceled", "depth", "lookup", "store"} : Becomes(c, Failed(error))
  BY DEF Canceled, DepthExceeded, UnknownRelation, StoreFails
<1> DEFINE f == Failed(error)
<1>2. f.phase = "done" /\ f.error = error /\ f.value = FALSE
  BY DEF Failed, IdleCall
<1>3. Becomes(c, f)
  BY <1>1
<1> HIDE DEF f
<1>4. call'[c] = f /\ cache' = cache
  BY <1>3 DEF CallsOK, Becomes
<1> QED
  BY <1>2, <1>4 DEF StepSound, Sound, CacheKept

LEMMA CheckSound ==
    ASSUME CallsOK, NEW c \in Calls, NEW w, NEW u, NEW asked, Explains(c, w, u),
           Meant(w, u, asked, call[c]),
           MemoHit(c) \/ CacheHit(c) \/ CutCycle(c) \/ Expand(c)
    PROVE  StepSound(c, w, u, asked)
<1> DEFINE e == call[c]
           key == KeyOfGoal(e.goal)
<1>1. EvalInv(e) /\ EvalBase(e) /\ Decisions(e.memo)
  BY CallTypes DEF EvalBase
<1>2. Explained(w) /\ RewritesClosed /\ u \in Subjects
  BY DEF Explains
<1>3. CASE MemoHit(c)
  <2> DEFINE f == Return(e, e.memo[key])
  <2>1. Becomes(c, f) /\ e.phase = "check" /\ key \in DOMAIN e.memo
    BY <1>3 DEF MemoHit, WithinDepth, Checking, Memoised
  <2> HIDE DEF e
  <2>2. Meant(w, u, asked, f)
    BY <1>1, <2>1, MemoHitMeant DEF e
  <2> QED
    BY <2>1, <2>2, BecomesMeant
<1>4. CASE CacheHit(c)
  <2> DEFINE got == cache[CacheKey(e, e.goal)]
             f == Return([e EXCEPT !.memo = Put(@, key, got)], got)
  <2>1. /\ Becomes(c, f) /\ e.phase = "check"
        /\ CacheKey(e, e.goal) \in DOMAIN cache
    BY <1>4 DEF CacheHit, WithinDepth, Checking, Cached
  <2>2. CacheKey(e, e.goal) = Entry(key, u, e.revision)
    BY CacheKeyIsEntry DEF Explains
  <2>3. key \in Keys
    BY <2>1, CheckJob DEF Meant
  <2>4. Right(w, u, key, got)
    BY <2>1, <2>2, <2>3 DEF Explains
  <2>5. got \in BOOLEAN
    BY <2>1 DEF CallsOK, Decisions
  <2> HIDE DEF got, key
  <2>6. Meant(w, u, asked, f)
    BY <2>1, <2>4, <2>5, CacheHitMeant DEF key
  <2> HIDE DEF f
  <2> QED
    BY <2>1, <2>6, BecomesMeant
<1>5. CASE CutCycle(c)
  <2> DEFINE f == Return(e, FALSE)
  <2>1. Becomes(c, f) /\ e.phase = "check" /\ key \in Visiting(e)
    BY <1>5 DEF CutCycle, Unanswered, WithinDepth, Checking, OnStack
  <2>2. key \in Below(e.stack, 0)
    BY <1>1, <2>1, DepthIsVisiting DEF EvalBase
  <2> HIDE DEF e
  <2>3. Meant(w, u, asked, f)
    BY <1>2, <2>1, <2>2, CutCycleMeant DEF e
  <2> HIDE DEF f
  <2> QED
    BY <2>1, <2>3, BecomesMeant
<1>6. CASE Expand(c)
  <2> DEFINE f == Eval(Push(e, "check", << >>), e.goal, RewriteOf(e.goal))
  <2>1. /\ Becomes(c, f) /\ e.phase = "check"
        /\ Defines(Schema, e.goal.object.type, e.goal.relation)
    BY <1>6 DEF Expand, Unanswered, WithinDepth, Checking, Known
  <2> HIDE DEF e
  <2>2. Meant(w, u, asked, f)
    BY <1>2, <2>1, ExpandMeant DEF e
  <2> HIDE DEF f
  <2> QED
    BY <2>1, <2>2, BecomesMeant
<1> QED
  BY <1>3, <1>4, <1>5, <1>6

LEMMA EvalTuplesSound ==
    ASSUME CallsOK, NEW c \in Calls, NEW w, NEW u, NEW asked, Explains(c, w, u),
           Meant(w, u, asked, call[c]),
           EvalThis(c) \/ EvalTupleToUserset(c)
    PROVE  StepSound(c, w, u, asked)
<1> DEFINE e == call[c]
<1>1. /\ Explained(w) /\ RewritesClosed /\ IsFiniteSet(w) /\ u \in Subjects
      /\ w = World(e.revision)
  BY DEF Explains
<1>2. \A relation : ReadRelation(e, relation) = Stored(w, e.goal.object, relation)
  BY <1>1 DEF ReadRelation, Read, Stored
<1>3. CASE EvalThis(c)
  <2>1. e.phase = "eval" /\ e.rewrite.op = "this"
    BY <1>3 DEF EvalThis, Evaluating
  <2>2. PICK tuples \in Orders(ReadRelation(e, e.goal.relation)) :
          Becomes(c, Loop(e, "members", [i \in DOMAIN tuples |-> tuples[i].subject]))
    BY <1>3 DEF EvalThis
  <2>3. tuples \in Orders(Stored(w, e.goal.object, e.goal.relation))
    BY <1>2, <2>2
  <2> DEFINE todo == [i \in DOMAIN tuples |-> tuples[i].subject]
             f == Loop(e, "members", todo)
  <2>4. Becomes(c, f)
    BY <2>2
  <2> HIDE DEF e
  <2>5. Meant(w, u, asked, f)
    BY <1>1, <2>1, <2>3, EvalThisMeant DEF e
  <2> HIDE DEF f
  <2> QED
    BY <2>4, <2>5, BecomesMeant
<1>4. CASE EvalTupleToUserset(c)
  <2>1. e.phase = "eval" /\ e.rewrite.op = "tupleToUserset"
    BY <1>4 DEF EvalTupleToUserset, Evaluating
  <2> DEFINE farEnd(t) == Userset(t.subject.object, e.rewrite.computed)
  <2>2. PICK tuples \in Orders(ReadRelation(e, e.rewrite.tupleset)) :
          Becomes(c, Loop(e, "members", [i \in DOMAIN tuples |-> farEnd(tuples[i])]))
    BY <1>4 DEF EvalTupleToUserset
  <2>3. tuples \in Orders(Stored(w, e.goal.object, e.rewrite.tupleset))
    BY <1>2, <2>2
  <2> DEFINE todo == [i \in DOMAIN tuples |->
                        Userset(tuples[i].subject.object, e.rewrite.computed)]
             f == Loop(e, "members", todo)
  <2>4. Becomes(c, f)
    BY <2>2
  <2> HIDE DEF e
  <2>5. Meant(w, u, asked, f)
    BY <1>1, <2>1, <2>3, EvalTupleToUsersetMeant DEF e
  <2> HIDE DEF f
  <2> QED
    BY <2>4, <2>5, BecomesMeant
<1> QED
  BY <1>3, <1>4

LEMMA EvalSound ==
    ASSUME CallsOK, NEW c \in Calls, NEW w, NEW u, NEW asked, Explains(c, w, u),
           Meant(w, u, asked, call[c]),
           \/ EvalComputedUserset(c) \/ EvalUnion(c)
           \/ EvalIntersection(c) \/ EvalExclusion(c)
    PROVE  StepSound(c, w, u, asked)
<1> DEFINE e == call[c]
           children == e.rewrite.children
<1>1. Explained(w) /\ RewritesClosed /\ u \in Subjects
  BY DEF Explains
<1>2. CASE EvalComputedUserset(c)
  <2> DEFINE f == Check(e, Goal(e.goal.object, e.rewrite.relation, e.goal.depth + 1))
  <2>1. Becomes(c, f) /\ e.phase = "eval" /\ e.rewrite.op = "computed"
    BY <1>2 DEF EvalComputedUserset, Evaluating
  <2> HIDE DEF e
  <2>2. Meant(w, u, asked, f)
    BY <1>1, <2>1, EvalComputedMeant DEF e
  <2> HIDE DEF f
  <2> QED
    BY <2>1, <2>2, BecomesMeant
<1>3. CASE EvalUnion(c)
  <2> DEFINE f == Loop(e, "union", children)
  <2>1. Becomes(c, f) /\ e.phase = "eval" /\ e.rewrite.op = "union"
    BY <1>3 DEF EvalUnion, Evaluating
  <2> HIDE DEF e
  <2>2. Meant(w, u, asked, f)
    BY <1>1, <2>1, EvalUnionMeant DEF e
  <2> HIDE DEF f
  <2> QED
    BY <2>1, <2>2, BecomesMeant
<1>4. CASE EvalIntersection(c) /\ children = << >>
  <2> DEFINE f == Return(e, FALSE)
  <2>1. Becomes(c, f) /\ e.phase = "eval" /\ e.rewrite.op = "intersection"
    BY <1>4 DEF EvalIntersection, Evaluating
  <2> HIDE DEF e
  <2>2. Meant(w, u, asked, f)
    BY <1>1, <1>4, <2>1, EmptyIntersectionMeant DEF e
  <2> HIDE DEF f
  <2> QED
    BY <2>1, <2>2, BecomesMeant
<1>5. CASE EvalIntersection(c) /\ children # << >>
  <2> DEFINE f == Loop(e, "intersection", children)
  <2>1. Becomes(c, f) /\ e.phase = "eval" /\ e.rewrite.op = "intersection"
    BY <1>5 DEF EvalIntersection, Evaluating
  <2> HIDE DEF e
  <2>2. Meant(w, u, asked, f)
    BY <1>1, <1>5, <2>1, EvalIntersectionMeant DEF e
  <2> HIDE DEF f
  <2> QED
    BY <2>1, <2>2, BecomesMeant
<1>6. CASE EvalExclusion(c)
  <2> DEFINE f == Eval(Push(e, "base", <<e.rewrite.subtract>>), e.goal, e.rewrite.base)
  <2>1. Becomes(c, f) /\ e.phase = "eval" /\ e.rewrite.op = "exclusion"
    BY <1>6 DEF EvalExclusion, Evaluating
  <2> HIDE DEF e
  <2>2. Meant(w, u, asked, f)
    BY <1>1, <2>1, EvalExclusionMeant DEF e
  <2> HIDE DEF f
  <2> QED
    BY <2>1, <2>2, BecomesMeant
<1> QED
  BY <1>2, <1>3, <1>4, <1>5, <1>6

LEMMA NextMemberSound ==
    ASSUME CallsOK, NEW c \in Calls, NEW w, NEW u, NEW asked, Explains(c, w, u),
           Meant(w, u, asked, call[c]), NextMember(c)
    PROVE  StepSound(c, w, u, asked)
<1> DEFINE e == call[c]
           member == Head(Top(e).todo)
           goal == Goal(member.object, member.relation, Top(e).goal.depth + 1)
<1>1. Explained(w) /\ EvalBase(e) /\ u = e.request.subject
  BY CallTypes DEF Explains
<1>2. e.phase = "loop" /\ Top(e).kind = "members" /\ Top(e).todo # << >>
  BY DEF NextMember, Looping
<1>3. CASE IsUserset(member)
  <2> DEFINE f == Check(Advance(e), goal)
  <2>1. Becomes(c, f)
    BY <1>3 DEF NextMember
  <2> HIDE DEF e
  <2>2. Meant(w, u, asked, f)
    BY <1>1, <1>2, <1>3, NextUsersetMeant DEF e
  <2> HIDE DEF f
  <2> QED
    BY <2>1, <2>2, BecomesMeant
<1>4. CASE ~ IsUserset(member) /\ member = u
  <2> DEFINE f == Return(Pop(e), TRUE)
  <2>1. Becomes(c, f)
    BY <1>1, <1>4 DEF NextMember
  <2> HIDE DEF e
  <2>2. Meant(w, u, asked, f)
    BY <1>1, <1>2, <1>4, NextGrantMeant DEF e
  <2> HIDE DEF f
  <2> QED
    BY <2>1, <2>2, BecomesMeant
<1>5. CASE ~ IsUserset(member) /\ member # u
  <2> DEFINE f == Advance(e)
  <2>1. Becomes(c, f)
    BY <1>1, <1>5 DEF NextMember
  <2> HIDE DEF e
  <2>2. Meant(w, u, asked, f)
    BY <1>1, <1>2, <1>5, NextOtherMeant DEF e
  <2> HIDE DEF f
  <2> QED
    BY <2>1, <2>2, BecomesMeant
<1> QED
  BY <1>3, <1>4, <1>5

LEMMA LoopSound ==
    ASSUME CallsOK, NEW c \in Calls, NEW w, NEW u, NEW asked, Explains(c, w, u),
           Meant(w, u, asked, call[c]), NextChild(c) \/ EndOfLoop(c)
    PROVE  StepSound(c, w, u, asked)
<1> DEFINE e == call[c]
<1>1. Explained(w) /\ EvalBase(e)
  BY CallTypes DEF Explains
<1>2. CASE NextChild(c)
  <2> DEFINE child == Head(Top(e).todo)
             f == Eval(Advance(e), Top(e).goal, child)
  <2>1. /\ Becomes(c, f) /\ e.phase = "loop"
        /\ Top(e).kind \in {"union", "intersection"} /\ Top(e).todo # << >>
    BY <1>2 DEF NextChild, Looping
  <2> HIDE DEF e
  <2>2. Meant(w, u, asked, f)
    BY <1>1, <2>1, NextChildMeant DEF e
  <2> HIDE DEF f
  <2> QED
    BY <2>1, <2>2, BecomesMeant
<1>3. CASE EndOfLoop(c)
  <2> DEFINE value == (Top(e).kind = "intersection")
             f == Return(Pop(e), value)
  <2>1. Becomes(c, f) /\ e.phase = "loop" /\ Top(e).todo = << >>
    BY <1>3 DEF EndOfLoop, Looping
  <2> HIDE DEF e
  <2>2. Meant(w, u, asked, f)
    BY <1>1, <2>1, EndOfLoopMeant DEF e
  <2> HIDE DEF f
  <2> QED
    BY <2>1, <2>2, BecomesMeant
<1> QED
  BY <1>2, <1>3

LEMMA ReturnSound ==
    ASSUME CallsOK, NEW c \in Calls, NEW w, NEW u, NEW asked, Explains(c, w, u),
           Meant(w, u, asked, call[c]),
           ReturnToLoop(c) \/ ReturnToBase(c) \/ ReturnToSubtract(c)
    PROVE  StepSound(c, w, u, asked)
<1> DEFINE e == call[c]
           top == Top(e)
<1>1. Explained(w) /\ EvalBase(e)
  BY CallTypes DEF Explains
<1>2. e.phase = "return" /\ e.stack # << >>
  BY ReturningTop DEF ReturnToLoop, ReturnToBase, ReturnToSubtract
<1>3. CASE ReturnToLoop(c)
  <2>1. top.kind \in LoopKinds
    BY <1>3, ReturningTop DEF ReturnToLoop, LoopKinds
  <2>2. CASE Stops(e)
    <3> DEFINE f == Pop(e)
    <3>1. Becomes(c, f)
      BY <1>3, <2>2 DEF ReturnToLoop
    <3> HIDE DEF e
    <3>2. Meant(w, u, asked, f)
      BY <1>1, <1>2, <2>1, <2>2, StopsMeant DEF e
    <3> HIDE DEF f
    <3> QED
      BY <3>1, <3>2, BecomesMeant
  <2>3. CASE ~ Stops(e)
    <3> DEFINE f == Continue(e)
    <3>1. Becomes(c, f)
      BY <1>3, <2>3 DEF ReturnToLoop
    <3> HIDE DEF e
    <3>2. Meant(w, u, asked, f)
      BY <1>1, <1>2, <2>1, <2>3, ContinuesMeant DEF e
    <3> HIDE DEF f
    <3> QED
      BY <3>1, <3>2, BecomesMeant
  <2> QED
    BY <2>2, <2>3
<1>4. CASE ReturnToBase(c)
  <2>1. top.kind = "base"
    BY <1>4, ReturningTop DEF ReturnToBase
  <2>2. CASE e.value
    <3> DEFINE f == Eval(Subtracting(e), top.goal, Head(top.todo))
    <3>1. Becomes(c, f)
      BY <1>4, <2>2 DEF ReturnToBase
    <3> HIDE DEF e
    <3>2. Meant(w, u, asked, f)
      BY <1>1, <1>2, <2>1, <2>2, BaseGrantedMeant DEF e
    <3> HIDE DEF f
    <3> QED
      BY <3>1, <3>2, BecomesMeant
  <2>3. CASE ~ e.value
    <3> DEFINE f == Pop(e)
    <3>1. Becomes(c, f)
      BY <1>4, <2>3 DEF ReturnToBase
    <3> HIDE DEF e
    <3>2. Meant(w, u, asked, f)
      BY <1>1, <1>2, <2>1, <2>3, BaseDeniedMeant DEF e
    <3> HIDE DEF f
    <3> QED
      BY <3>1, <3>2, BecomesMeant
  <2> QED
    BY <2>2, <2>3
<1>5. CASE ReturnToSubtract(c)
  <2>1. top.kind = "subtract"
    BY <1>5, ReturningTop DEF ReturnToSubtract
  <2> DEFINE f == Return(Pop(e), ~ e.value)
  <2>2. Becomes(c, f)
    BY <1>5 DEF ReturnToSubtract
  <2> HIDE DEF e
  <2>3. Meant(w, u, asked, f)
    BY <1>1, <1>2, <2>1, SubtractMeant DEF e
  <2> HIDE DEF f
  <2> QED
    BY <2>2, <2>3, BecomesMeant
<1> QED
  BY <1>3, <1>4, <1>5

(* What goes into the cache is right, so that another check may use it.    *)
LEMMA ReturnToCheckSound ==
    ASSUME CallsOK, NEW c \in Calls, NEW w, NEW u, NEW asked, Explains(c, w, u),
           Meant(w, u, asked, call[c]), ReturnToCheck(c)
    PROVE  StepSound(c, w, u, asked)
<1> DEFINE e == call[c]
           goal == Top(e).goal
           key == KeyOfGoal(goal)
           value == e.value
           g == [e EXCEPT !.memo = Put(@, key, value)]
           f == Pop(g)
<1>1. Explained(w) /\ u = e.request.subject
  BY DEF Explains
<1>2. /\ EvalBase(e) /\ e.phase = "return" /\ e.stack # << >>
      /\ Top(e).kind = "check"
  BY ReturningTop DEF ReturnToCheck
<1>3. /\ call' = [call EXCEPT ![c] = f]
      /\ cache' = Put(cache, CacheKey(e, goal), value) \/ cache' = cache
  BY DEF ReturnToCheck
<1>4. value \in BOOLEAN
  BY <1>2 DEF EvalBase
<1>5. CacheKey(e, goal) = Entry(key, u, e.revision)
  BY <1>1, CacheKeyIsEntry
<1>6. call'[c] = f
  BY <1>3 DEF CallsOK
<1> HIDE DEF e
<1>7. key \in Keys /\ Right(w, u, key, value) /\ Meant(w, u, asked, f)
  BY <1>1, <1>2, CheckReturns DEF e
<1>8. CacheKept(c, w, u)
  <2> HIDE DEF key, value
  <2>1. cache' = cache \/ cache' = Put(cache, Entry(key, u, e.revision), value)
    BY <1>3, <1>5
  <2> QED
    BY <1>4, <1>7, <2>1 DEF CacheKept, e
<1> HIDE DEF f
<1> QED
  BY <1>6, <1>7, <1>8 DEF StepSound, Sound

LEMMA FinishSound ==
    ASSUME CallsOK, NEW c \in Calls, NEW w, NEW u, NEW asked,
           Meant(w, u, asked, call[c]), Finish(c)
    PROVE  StepSound(c, w, u, asked)
<1> DEFINE e == call[c]
           f == [IdleCall EXCEPT !.phase = "done", !.request = e.request,
                                 !.revision = e.revision, !.value = e.value]
<1>1. EvalBase(e) /\ e.phase = "return" /\ e.stack = << >> /\ Becomes(c, f)
  BY CallTypes DEF Finish
<1>2. f.phase = "done" /\ f.error = "none" /\ f.value = e.value
  BY DEF IdleCall
<1>3. Right(w, u, asked, e.value)
  BY <1>1, FinishRight
<1> HIDE DEF f, e
<1>4. call'[c] = f /\ cache' = cache
  BY <1>1 DEF CallsOK, Becomes
<1> QED
  BY <1>2, <1>3, <1>4 DEF StepSound, Sound, CacheKept

(* A check that has got its snapshot starts from nothing.                  *)
LEMMA ResolveSound ==
    ASSUME CallsOK, RewritesClosed, NEW c \in Calls, NEW w, Explained(w), NEW u,
           ResolveRevision(c), call[c].memo = Empty, call[c].request.key \in Keys
    PROVE  StepSound(c, w, u, call[c].request.key)
<1> DEFINE e == call[c]
           asked == e.request.key
           rev == SnapshotFor(e.request)
           g == [e EXCEPT !.revision = rev]
           goal == Goal(asked.object, asked.relation, 0)
           f == Check(g, goal)
<1>1. EvalInv(e) /\ EvalBase(e) /\ e.phase = "resolve" /\ Becomes(c, f)
  BY CallTypes DEF ResolveRevision
<1>2. e.stack = << >>
  BY <1>1 DEF EvalInv
<1>3. g = [phase |-> e.phase, request |-> e.request, revision |-> rev,
           goal |-> e.goal, rewrite |-> e.rewrite, value |-> e.value,
           stack |-> e.stack, memo |-> e.memo, error |-> e.error]
  BY <1>1 DEF EvalBase, IsEvaluation
<1>4. KeyOfGoal(goal) = RelationKey(asked.object, asked.relation)
  BY DEF Goal, KeyOfGoal
<1> HIDE DEF rev, g
<1>5. IsEvaluation(g) /\ g.stack = e.stack /\ g.memo = e.memo
  BY ONLY <1>3, AllFields
<1>6. asked = RelationKey(asked.object, asked.relation)
  BY DEF RewritesClosed
<1>7. Meant(w, u, asked, f)
  BY <1>2, <1>4, <1>5, <1>6, BeginMeant
<1> HIDE DEF f
<1> QED
  BY <1>1, <1>7, BecomesMeant

(* Every step of a check in a world that the schema explains takes what it *)
(* has found out to what it finds out next: an answer, or an entry of the  *)
(* cache, is right, and an error allows nothing.  In such a world nothing  *)
(* that is subtracted leads into a cycle (SubtractsSettled).               *)
THEOREM EngineStepSound ==
    ASSUME CallsOK, NEW c \in Calls, call[c].phase \in Deciding, EngineStep(c),
           NEW w, NEW u, NEW asked, Explains(c, w, u), Meant(w, u, asked, call[c])
    PROVE  StepSound(c, w, u, asked)
<1>1. CASE Canceled(c) \/ DepthExceeded(c) \/ UnknownRelation(c) \/ StoreFails(c)
  BY <1>1, FailsSound
<1>2. CASE ResolveRevision(c)
  BY <1>2 DEF ResolveRevision, Deciding
<1>3. CASE MemoHit(c) \/ CacheHit(c) \/ CutCycle(c) \/ Expand(c)
  BY <1>3, CheckSound
<1>4. CASE EvalThis(c) \/ EvalTupleToUserset(c)
  BY <1>4, EvalTuplesSound
<1>5. CASE \/ EvalComputedUserset(c) \/ EvalUnion(c)
           \/ EvalIntersection(c) \/ EvalExclusion(c)
  BY <1>5, EvalSound
<1>6. CASE NextMember(c) \/ NextChild(c) \/ EndOfLoop(c)
  BY <1>6, NextMemberSound, LoopSound
<1>7. CASE ReturnToLoop(c) \/ ReturnToBase(c) \/ ReturnToSubtract(c)
  BY <1>7, ReturnSound
<1>8. CASE ReturnToCheck(c) \/ Finish(c)
  BY <1>8, ReturnToCheckSound, FinishSound
<1> QED
  BY <1>1, <1>2, <1>3, <1>4, <1>5, <1>6, <1>7, <1>8 DEF EngineStep

----------------------------------------------------------------------------
(* The cache, and the calls, of a store that goes on being written to.     *)

(* What an evaluation has found out, or answered, in the world it reads.   *)
CallRight(world, e) ==
    LET asked == e.request.key
        subject == e.request.subject
    IN /\ e.phase = "resolve" => e.memo = Empty
       /\ e.phase = "resolve" \/ HasSnapshot(e) => asked \in Keys /\ subject \in Subjects
       /\ e.phase \in Deciding => Meant(world, subject, asked, e)
       /\ e.phase = "done" /\ e.error = "none" => Right(world, subject, asked, e.value)
       /\ e.phase = "done" /\ e.error # "none" => e.value = FALSE

(* What an entry of the cache says of the world of its revision.           *)
EntryRight(world, k, value) ==
    /\ k.revision \in Nat
    /\ k.subject \in Subjects
    /\ KeyOfEntry(k) \in Keys
    /\ k = Entry(KeyOfEntry(k), k.subject, k.revision)
    /\ Right(world, k.subject, KeyOfEntry(k), value)

CacheRight ==
    /\ cache = [k \in DOMAIN cache |-> cache[k]]
    /\ \A k \in DOMAIN cache :
         k.revision <= head /\ EntryRight(World(k.revision), k, cache[k])

(* The worlds of all revisions have a meaning.                             *)
WorldsKnown(worlds) == \A rev \in 0..head : history[rev] \in worlds

LEMMA WorldIs ==
    ASSUME NEW rev, rev \in Nat, rev <= head
    PROVE  World(rev) = history[rev]
BY DEF World

LEMMA CommitKeepsWorlds ==
    ASSUME StoreTypeOK, NEW add, NEW remove, Commit(add, remove)
    PROVE  /\ \A rev \in 0..head : World(rev)' = World(rev)
           /\ \A rev \in 0..head : history'[rev] = history[rev]
           /\ history'[head + 1] = (history[head] \ remove) \cup add
<1>1. head \in Nat /\ head' = head + 1
  BY HeadTypes DEF Commit
<1>2. ASSUME NEW rev \in 0..head
      PROVE  history'[rev] = history[rev]
  BY <1>1, <1>2 DEF Commit
<1>3. history'[head + 1] = (history[head] \ remove) \cup add
  BY <1>1 DEF Commit
<1>4. ASSUME NEW rev \in 0..head
      PROVE  World(rev)' = World(rev)
  <2>1. rev <= head /\ rev <= head'
    BY <1>1, <1>4
  <2> QED
    BY <1>2, <2>1 DEF World
<1> QED
  BY <1>2, <1>3, <1>4

LEMMA WorldKnown ==
    ASSUME StoreTypeOK, NEW worlds, WorldsKnown(worlds), NEW rev \in 0..head
    PROVE  World(rev) \in worlds
BY HeadTypes, WorldIs DEF WorldsKnown

LEMMA CommitKnown ==
    ASSUME StoreTypeOK, NEW worlds, WorldsKnown(worlds),
           NEW writes, ClosedUnder(worlds, writes),
           NEW write \in writes, Commit(write.add, write.remove)
    PROVE  WorldsKnown(worlds)'
<1>1. head \in Nat /\ head' = head + 1
  BY HeadTypes DEF Commit
<1>2. /\ \A rev \in 0..head : history'[rev] = history[rev]
      /\ history'[head + 1] = (history[head] \ write.remove) \cup write.add
  BY CommitKeepsWorlds
<1>3. ASSUME NEW rev \in 0..head'
      PROVE  history'[rev] \in worlds
  <2>1. CASE rev \in 0..head
    BY <1>2, <2>1 DEF WorldsKnown
  <2>2. CASE rev = head + 1
    <3>1. history[head] \in worlds
      BY <1>1 DEF WorldsKnown
    <3> QED
      BY <1>2, <2>2, <3>1 DEF ClosedUnder
  <2> QED
    BY <1>1, <2>1, <2>2
<1> QED
  BY <1>3 DEF WorldsKnown

(* An idle check has promised nothing.                                     *)
LEMMA IdleRight ==
    ASSUME NEW world
    PROVE  CallRight(world, IdleCall)
BY IdleFields DEF CallRight, HasSnapshot, Deciding

(* A check that a step does not concern, while the store may advance.      *)
LEMMA CallLeft ==
    ASSUME NEW c \in Calls, CallRight(World(call[c].revision), call[c]),
           HasSnapshot(call[c]) => call[c].revision \in 0..head,
           call'[c] = call[c], \A rev \in 0..head : World(rev)' = World(rev)
    PROVE  CallRight(World(call[c].revision), call[c])'
<1> DEFINE e == call[c]
           rev == e.revision
<1>1. CASE HasSnapshot(e)
  <2>1. World(rev)' = World(rev)
    BY <1>1
  <2> QED
    BY <2>1
<1>2. CASE ~ HasSnapshot(e)
  <2>1. \A world : CallRight(world, e)
    BY <1>2 DEF CallRight, HasSnapshot
  <2> QED
    BY <2>1
<1> QED
  BY <1>1, <1>2

LEMMA OldEntries ==
    ASSUME StoreTypeOK, CacheRight, cache' = cache, head' \in Nat, head <= head',
           \A rev \in 0..head : World(rev)' = World(rev)
    PROVE  CacheRight'
<1>1. ASSUME NEW k \in DOMAIN cache
      PROVE  /\ k.revision <= head'
             /\ EntryRight(World(k.revision)', k, cache[k])
  <2>1. k.revision \in Nat /\ k.revision <= head /\ head \in Nat
    BY HeadTypes DEF CacheRight, EntryRight
  <2>2. World(k.revision)' = World(k.revision)
    BY <2>1
  <2> QED
    BY <2>1, <2>2 DEF CacheRight
<1> QED
  BY <1>1 DEF CacheRight

(* A new entry, of the snapshot of a check.                                *)
LEMMA NewEntry ==
    ASSUME RewritesClosed, StoreTypeOK, CacheRight, UNCHANGED <<head, history>>,
           NEW key \in Keys, NEW u \in Subjects, NEW rev \in 0..head, NEW value,
           Right(World(rev), u, key, value),
           cache' = Put(cache, Entry(key, u, rev), value)
    PROVE  CacheRight'
<1> DEFINE new == Entry(key, u, rev)
<1>1. new.object = key.object /\ new.relation = key.relation
  BY DEF Entry
<1>2. KeyOfEntry(new) = key
  BY <1>1 DEF KeyOfEntry, RewritesClosed
<1>3. new.revision = rev /\ new.subject = u /\ rev \in Nat /\ rev <= head
  BY HeadTypes DEF Entry
<1>4. EntryRight(World(rev), new, value)
  BY <1>2, <1>3 DEF EntryRight
<1>5. \A k : World(k.revision)' = World(k.revision)
  BY DEF World
<1> HIDE DEF new
<1>6. /\ DOMAIN cache' = DOMAIN cache \cup {new}
      /\ cache' = [k \in DOMAIN cache' |-> cache'[k]]
      /\ cache'[new] = value
      /\ \A k \in DOMAIN cache : k # new => cache'[k] = cache[k]
  BY DEF Put, new
<1>7. ASSUME NEW k \in DOMAIN cache'
      PROVE  k.revision <= head' /\ EntryRight(World(k.revision)', k, cache'[k])
  <2>1. CASE k = new
    BY <1>3, <1>4, <1>5, <1>6, <2>1
  <2>2. CASE k # new
    <3>1. k \in DOMAIN cache /\ cache'[k] = cache[k]
      BY <1>6, <1>7, <2>2
    <3> QED
      BY <1>5, <3>1 DEF CacheRight
  <2> QED
    BY <2>1, <2>2
<1> QED
  BY <1>6, <1>7 DEF CacheRight

LEMMA StepPhases ==
    ASSUME NEW c \in Calls, EngineStep(c)
    PROVE  \/ call[c].phase \in Deciding
           \/ /\ call[c].phase = "resolve" /\ cache' = cache
              /\ ResolveRevision(c) \/ StoreFails(c)
<1>1. CASE Canceled(c) \/ DepthExceeded(c) \/ UnknownRelation(c)
  BY <1>1 DEF Canceled, DepthExceeded, UnknownRelation, Unanswered, WithinDepth,
              Checking, Deciding
<1>2. CASE ResolveRevision(c) \/ StoreFails(c)
  BY <1>2 DEF ResolveRevision, StoreFails, Evaluating, Becomes, Deciding
<1>3. CASE MemoHit(c) \/ CacheHit(c) \/ CutCycle(c) \/ Expand(c)
  BY <1>3 DEF MemoHit, CacheHit, CutCycle, Expand, Unanswered, WithinDepth,
              Checking, Deciding
<1>4. CASE EvalThis(c) \/ EvalTupleToUserset(c) \/ EvalComputedUserset(c)
  BY <1>4 DEF EvalThis, EvalTupleToUserset, EvalComputedUserset, Evaluating, Deciding
<1>5. CASE EvalUnion(c) \/ EvalIntersection(c) \/ EvalExclusion(c)
  BY <1>5 DEF EvalUnion, EvalIntersection, EvalExclusion, Evaluating, Deciding
<1>6. CASE NextMember(c) \/ NextChild(c) \/ EndOfLoop(c)
  BY <1>6 DEF NextMember, NextChild, EndOfLoop, Looping, Deciding
<1>7. CASE \/ ReturnToLoop(c) \/ ReturnToBase(c) \/ ReturnToSubtract(c)
           \/ ReturnToCheck(c) \/ Finish(c)
  BY <1>7 DEF ReturnToLoop, ReturnToBase, ReturnToSubtract, ReturnToCheck, Finish,
              Returning, Deciding
<1> QED
  BY <1>1, <1>2, <1>3, <1>4, <1>5, <1>6, <1>7 DEF EngineStep

(* The two views of a step, of its snapshot and of its meaning, together.  *)
LEMMA SoundIsRight ==
    ASSUME NEW e, NEW f, NEW world, NEW rev,
           e.request.key \in Keys, e.request.subject \in Subjects,
           Sound(world, e.request.subject, e.request.key, f),
           \/ f.request = e.request
           \/ f.phase = "done" /\ f.error # "none"
    PROVE  CallRight(world, f)
<1>1. CASE Meant(world, e.request.subject, e.request.key, f)
  <2>1. f.phase \in Deciding
    BY <1>1 DEF Meant, Job
  <2> QED
    BY <1>1, <2>1 DEF CallRight, Deciding
<1>2. CASE /\ f.phase = "done" /\ f.error = "none"
           /\ Right(world, e.request.subject, e.request.key, f.value)
  BY <1>2 DEF CallRight, Deciding
<1>3. CASE f.phase = "done" /\ f.error # "none" /\ f.value = FALSE
  BY <1>3 DEF CallRight, HasSnapshot, Deciding
<1> QED
  BY <1>1, <1>2, <1>3 DEF Sound

(* The cache holds only what is right of the snapshot of a check.          *)
LEMMA CacheExplains ==
    ASSUME StoreTypeOK, CacheRight, NEW worlds, Interpreted(worlds), WorldsKnown(worlds),
           NEW c \in Calls, call[c].revision \in 0..head, call[c].phase \in Deciding,
           CallRight(World(call[c].revision), call[c])
    PROVE  /\ Explains(c, World(call[c].revision), call[c].request.subject)
           /\ call[c].request.key \in Keys
           /\ Meant(World(call[c].revision), call[c].request.subject,
                    call[c].request.key, call[c])
<1> DEFINE e == call[c]
           u == e.request.subject
           rev == e.revision
           w == World(rev)
<1>1. w \in worlds
  BY WorldKnown
<1>2. Explained(w) /\ IsFiniteSet(w) /\ RewritesClosed
  BY <1>1 DEF Interpreted
<1>3. e.request.key \in Keys /\ u \in Subjects /\ Meant(w, u, e.request.key, e)
  BY DEF CallRight, HasSnapshot
<1>4. ASSUME NEW key \in Keys, Entry(key, u, rev) \in DOMAIN cache
      PROVE  Right(w, u, key, cache[Entry(key, u, rev)])
  <2> DEFINE k == Entry(key, u, rev)
  <2>1. k.object = key.object /\ k.relation = key.relation
    BY DEF Entry
  <2>2. KeyOfEntry(k) = key
    BY <1>2, <2>1 DEF KeyOfEntry, RewritesClosed
  <2>3. k.revision = rev /\ k.subject = u
    BY DEF Entry
  <2>4. EntryRight(World(k.revision), k, cache[k])
    BY <1>4 DEF CacheRight
  <2> HIDE DEF k
  <2>5. Right(w, u, key, cache[k])
    BY <2>2, <2>3, <2>4 DEF EntryRight
  <2> QED
    BY <2>5 DEF k
<1>5. Explains(c, w, u)
  BY <1>2, <1>3, <1>4 DEF Explains
<1> QED
  BY <1>3, <1>5

LEMMA DecidingRight ==
    ASSUME StoreTypeOK, CallsOK, CacheRight,
           NEW worlds, Interpreted(worlds), WorldsKnown(worlds),
           NEW c \in Calls, EngineStep(c), UNCHANGED <<head, history>>,
           call[c].revision \in 0..head, call[c].phase \in Deciding,
           CallRight(World(call[c].revision), call[c])
    PROVE  CallRight(World(call[c].revision), call[c])' /\ CacheRight'
<1> DEFINE e == call[c]
           f == call'[c]
           u == e.request.subject
           rev == e.revision
           w == World(rev)
<1>1. /\ Explains(c, w, u) /\ e.request.key \in Keys
      /\ Meant(w, u, e.request.key, e)
  BY CacheExplains
<1>2. Sound(w, u, e.request.key, f) /\ CacheKept(c, w, u)
  BY <1>1, EngineStepSound DEF StepSound
<1>3. \/ Keeps(e, f)
      \/ f.phase = "done" /\ f.error # "none"
  BY EngineStepCorrect DEF Stepped, StepRevision, Deciding
<1>4. u \in Subjects /\ RewritesClosed
  BY <1>1 DEF Explains
<1>5. CallRight(w, f)
  BY <1>1, <1>2, <1>3, <1>4, SoundIsRight DEF Keeps
<1>6. CallRight(World(call[c].revision), call[c])'
  <2>1. CASE Keeps(e, f)
    <3>1. World(call[c].revision)' = w
      BY <2>1 DEF World, Keeps
    <3> QED
      BY <1>5, <3>1
  <2>2. CASE f.phase = "done" /\ f.error # "none"
    <3>1. \A world : CallRight(world, f)
      BY <1>5, <2>2 DEF CallRight, HasSnapshot, Deciding
    <3> QED
      BY <3>1
  <2> QED
    BY <1>3, <2>1, <2>2
<1>7. CacheRight'
  <2>1. CASE cache' = cache
    <3>1. \A r \in 0..head : World(r)' = World(r)
      BY DEF World
    <3>2. head' \in Nat /\ head <= head'
      BY HeadTypes
    <3> QED
      BY <2>1, <3>1, <3>2, OldEntries
  <2>2. CASE \E key \in Keys, value \in BOOLEAN :
               Right(w, u, key, value) /\ cache' = Put(cache, Entry(key, u, rev), value)
    BY <1>4, <2>2, NewEntry
  <2> QED
    BY <1>2, <2>1, <2>2 DEF CacheKept
<1> QED
  BY <1>6, <1>7

(* A check begins in the world of the snapshot that it resolves.           *)
LEMMA ResolvingRight ==
    ASSUME StoreTypeOK, CallsOK, CacheRight,
           NEW worlds, Interpreted(worlds), WorldsKnown(worlds),
           NEW c \in Calls, EngineStep(c), UNCHANGED <<head, history>>,
           call[c].phase = "resolve", SnapshotFor(call[c].request) \in 0..head,
           cache' = cache, ResolveRevision(c) \/ StoreFails(c),
           CallRight(World(call[c].revision), call[c])
    PROVE  CallRight(World(call[c].revision), call[c])' /\ CacheRight'
<1> DEFINE e == call[c]
           f == call'[c]
           u == e.request.subject
           rev == SnapshotFor(e.request)
           w == World(rev)
<1>1. e.memo = Empty /\ e.request.key \in Keys /\ u \in Subjects
  BY DEF CallRight
<1>2. Explained(w) /\ RewritesClosed
  BY WorldKnown DEF Interpreted
<1>3. Sound(w, u, e.request.key, f)
  BY <1>1, <1>2, ResolveSound, FailsSound DEF StepSound
<1>4. \/ f.request = e.request /\ f.revision = rev
      \/ f.phase = "done" /\ f.error # "none"
  BY EngineStepCorrect DEF Stepped, StepRevision, Deciding
<1>5. CallRight(w, f)
  BY <1>1, <1>3, <1>4, SoundIsRight
<1>6. CallRight(World(call[c].revision), call[c])'
  <2>1. CASE f.revision = rev
    <3> HIDE DEF rev
    <3>1. World(call[c].revision)' = w
      BY <2>1 DEF World
    <3> QED
      BY <1>5, <3>1
  <2>2. CASE f.phase = "done" /\ f.error # "none"
    <3>1. \A world : CallRight(world, f)
      BY <1>5, <2>2 DEF CallRight, HasSnapshot, Deciding
    <3> QED
      BY <3>1
  <2> QED
    BY <1>4, <2>1, <2>2
<1>7. \A r \in 0..head : World(r)' = World(r)
  BY DEF World
<1>8. head' \in Nat /\ head <= head'
  BY HeadTypes
<1> QED
  BY <1>6, <1>7, <1>8, OldEntries

(* Whatever reads at revisions that exist finds out what is right, and     *)
(* leaves what is right in the cache for others.                           *)
THEOREM CheckStepRight ==
    ASSUME StoreTypeOK, CallsOK, CacheRight,
           NEW worlds, Interpreted(worlds), WorldsKnown(worlds),
           NEW c \in Calls, EngineStep(c), UNCHANGED <<head, history>>,
           call[c].phase \in Deciding => call[c].revision \in 0..head,
           call[c].phase = "resolve" => SnapshotFor(call[c].request) \in 0..head,
           CallRight(World(call[c].revision), call[c])
    PROVE  CallRight(World(call[c].revision), call[c])' /\ CacheRight'
<1>1. CASE call[c].phase \in Deciding
  BY <1>1, DecidingRight
<1>2. CASE /\ call[c].phase = "resolve" /\ cache' = cache
           /\ ResolveRevision(c) \/ StoreFails(c)
  BY <1>2, ResolvingRight
<1> QED
  BY <1>1, <1>2, StepPhases

=============================================================================
