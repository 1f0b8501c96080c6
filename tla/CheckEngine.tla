---------------------------- MODULE CheckEngine ----------------------------
(***************************************************************************)
(* The check engine (internal/check/check.go) with the cache that every    *)
(* check shares (internal/check/cache.go).                                 *)
(*                                                                         *)
(* check and eval are mutually recursive; here the pending calls of one    *)
(* Check are an explicit stack and each step of it runs to the next access *)
(* to shared state, or to the next decision.  Several checks run at once,  *)
(* one for each member of Calls, and interleave with each other and with   *)
(* the writes at every step.                                               *)
(***************************************************************************)
EXTENDS Engine, Functions

CONSTANTS Calls,         \* the checks that may be running at once
          Caching        \* TRUE iff the engine has a cache

ASSUME CachingAssumption == Caching \in BOOLEAN

VARIABLES cache,         \* RevisionKeyed.entries
          call           \* the evaluation of each check

engineVars == <<cache, call>>

----------------------------------------------------------------------------
(* The parts of an evaluation.                                             *)

Put(f, x, value) == [y \in DOMAIN f \cup {x} |-> IF y = x THEN value ELSE f[y]]

Empty == [x \in {} |-> TRUE]

(* The arguments of a call of check, and the locals of eval.               *)
Goal(object, relation, depth) ==
    [object |-> object, relation |-> relation, depth |-> depth]

KeyOfGoal(goal) == RelationKey(goal.object, goal.relation)

(* A frame is a pending call.  "check" waits for eval; "members" is a loop *)
(* over the subjects of stored tuples; "union" and "intersection" are      *)
(* loops over rewrites; "base" and "subtract" are the halves of Exclusion. *)
Frame(kind, goal, todo) == [kind |-> kind, goal |-> goal, todo |-> todo]

FrameKinds == {"check", "members", "union", "intersection", "base", "subtract"}

NoGoal == Goal(Object("", ""), "", 0)

NoRequest == [key |-> KeyOfGoal(NoGoal), subject |-> Concrete(NoGoal.object),
              revision |-> 0, consistency |-> "minimize_latency", token |-> 0]

(* phase: "resolve" the revision, "check" the goal, "eval" the rewrite on  *)
(* the goal, "loop" in the top frame, "return" the value to it.            *)
IdleCall == [phase |-> "idle", request |-> NoRequest, revision |-> 0,
             goal |-> NoGoal, rewrite |-> NoRewrite, value |-> FALSE,
             stack |-> << >>, memo |-> Empty, error |-> "none"]

Moved(e, phase, goal, rewrite, value) ==
    [e EXCEPT !.phase = phase, !.goal = goal, !.rewrite = rewrite, !.value = value]

Check(e, goal) == Moved(e, "check", goal, NoRewrite, FALSE)

Eval(e, goal, rewrite) == Moved(e, "eval", goal, rewrite, FALSE)

Continue(e) == Moved(e, "loop", NoGoal, NoRewrite, FALSE)

Return(e, value) == Moved(e, "return", NoGoal, NoRewrite, value)

Push(e, kind, todo) == [e EXCEPT !.stack = <<Frame(kind, e.goal, todo)>> \o @]

Pop(e) == [e EXCEPT !.stack = Tail(@)]

Loop(e, kind, todo) == Continue(Push(e, kind, todo))

(* Every error unwinds all pending calls and discards the Result.          *)
Failed(error) == [IdleCall EXCEPT !.phase = "done", !.error = error]

Top(e) == Head(e.stack)

(* evaluation.visiting: the subproblems whose check is pending.            *)
Visiting(e) ==
    {KeyOfGoal(e.stack[i].goal) :
       i \in {j \in DOMAIN e.stack : e.stack[j].kind = "check"}}

(* Variant: NaiveCache, which strips the revision.                         *)
StrippedCacheKey(e, goal) ==
    [object |-> goal.object, relation |-> goal.relation,
     subject |-> e.request.subject, revision |-> 0]

CacheKey(e, goal) ==
    [object |-> goal.object, relation |-> goal.relation,
     subject |-> e.request.subject, revision |-> e.revision]

(* Tuples come from the store in no order that the engine relies on.       *)
Orders(set) == Bijection(1..Cardinality(set), set)

----------------------------------------------------------------------------
EngineInit ==
    /\ cache = Empty
    /\ call = [c \in Calls |-> IdleCall]

(* A step of one evaluation that leaves the cache alone.                   *)
Becomes(c, e) == call' = [call EXCEPT ![c] = e] /\ UNCHANGED cache

(* Engine.Check is called.                                                 *)
Begin(c, request) ==
    /\ call[c].phase = "idle"
    /\ Becomes(c, [IdleCall EXCEPT !.phase = "resolve", !.request = request])

(* Variant: a replica that lags by one revision, and a token is ignored.   *)
LaggingSnapshotFor(request) == IF head = 0 THEN 0 ELSE head - 1

(* A revision in the request pins the check.  Otherwise it reads at head,  *)
(* or at the token when the token is ahead of head.                        *)
SnapshotFor(request) ==
    IF request.revision # 0
      THEN request.revision
      ELSE IF request.consistency = "at_least_as_fresh" /\ request.token > head
             THEN request.token
             ELSE head

ResolveRevision(c) ==
    LET e == call[c]
        key == e.request.key
    IN /\ e.phase = "resolve"
       /\ Becomes(c, Check([e EXCEPT !.revision = SnapshotFor(e.request)],
                           Goal(key.object, key.relation, 0)))

----------------------------------------------------------------------------
(* evaluation.check, one action for each way through it.                   *)

Checking(c) == call[c].phase = "check"

WithinDepth(c) == Checking(c) /\ call[c].goal.depth <= MaxDepth

Memoised(c) == KeyOfGoal(call[c].goal) \in DOMAIN call[c].memo

Cached(c) == Caching /\ CacheKey(call[c], call[c].goal) \in DOMAIN cache

(* Not answered by the memo or the cache.                                  *)
Unanswered(c) == WithinDepth(c) /\ ~ Memoised(c) /\ ~ Cached(c)

(* Variant: no visited set.                                                *)
NeverOnStack(c) == FALSE

(* Variant: the visited set remembers objects without their relations.     *)
ObjectOnStack(c) ==
    call[c].goal.object \in {key.object : key \in Visiting(call[c])}

OnStack(c) == KeyOfGoal(call[c].goal) \in Visiting(call[c])

Known(c) == Defines(Schema, call[c].goal.object.type, call[c].goal.relation)

(* The context of the request is cancelled: the client hung up.            *)
Canceled(c) == Checking(c) /\ Becomes(c, Failed("canceled"))

DepthExceeded(c) ==
    Checking(c) /\ ~ WithinDepth(c) /\ Becomes(c, Failed("depth"))

MemoHit(c) ==
    /\ WithinDepth(c) /\ Memoised(c)
    /\ Becomes(c, Return(call[c], call[c].memo[KeyOfGoal(call[c].goal)]))

CacheHit(c) ==
    LET e == call[c]
        got == cache[CacheKey(e, e.goal)]
    IN /\ WithinDepth(c) /\ ~ Memoised(c) /\ Cached(c)
       /\ Becomes(c, Return([e EXCEPT !.memo = Put(@, KeyOfGoal(e.goal), got)], got))

(* Variant: a subproblem that is already pending is taken for granted.     *)
GrantCycle(c) == Unanswered(c) /\ OnStack(c) /\ Becomes(c, Return(call[c], TRUE))

(* A subproblem that is already pending resolves to false.                 *)
CutCycle(c) == Unanswered(c) /\ OnStack(c) /\ Becomes(c, Return(call[c], FALSE))

UnknownRelation(c) ==
    /\ Unanswered(c) /\ ~ OnStack(c) /\ ~ Known(c)
    /\ Becomes(c, Failed("lookup"))

Expand(c) ==
    LET goal == call[c].goal
    IN /\ Unanswered(c) /\ ~ OnStack(c) /\ Known(c)
       /\ Becomes(c, Eval(Push(call[c], "check", << >>), goal, RewriteOf(goal)))

----------------------------------------------------------------------------
(* evaluation.eval, one action for each kind of rewrite.                   *)

Evaluating(c, op) == call[c].phase = "eval" /\ call[c].rewrite.op = op

(* Variant: every read is served at the head of its own moment.            *)
ReadHead(e, relation) == Read(head, e.goal.object, relation)

ReadRelation(e, relation) == Read(e.revision, e.goal.object, relation)

(* A call of Store.Head or Store.Read returns an error.                    *)
StoreFails(c) ==
    /\ \/ call[c].phase = "resolve"
       \/ Evaluating(c, "this")
       \/ Evaluating(c, "tupleToUserset")
    /\ Becomes(c, Failed("store"))

EvalThis(c) ==
    LET e == call[c]
    IN /\ Evaluating(c, "this")
       /\ \E tuples \in Orders(ReadRelation(e, e.goal.relation)) :
            Becomes(c, Loop(e, "members", [i \in DOMAIN tuples |-> tuples[i].subject]))

EvalComputedUserset(c) ==
    LET e == call[c]
    IN /\ Evaluating(c, "computed")
       /\ Becomes(c, Check(e, Goal(e.goal.object, e.rewrite.relation, e.goal.depth + 1)))

(* The far end of each edge is asked for the computed relation, whatever   *)
(* relation the subject of the edge may name.                              *)
EvalTupleToUserset(c) ==
    LET e == call[c]
        farEnd(t) == Userset(t.subject.object, e.rewrite.computed)
    IN /\ Evaluating(c, "tupleToUserset")
       /\ \E tuples \in Orders(ReadRelation(e, e.rewrite.tupleset)) :
            Becomes(c, Loop(e, "members", [i \in DOMAIN tuples |-> farEnd(tuples[i])]))

EvalUnion(c) ==
    /\ Evaluating(c, "union")
    /\ Becomes(c, Loop(call[c], "union", call[c].rewrite.children))

(* An intersection of nothing grants nothing.                              *)
EvalIntersection(c) ==
    LET children == call[c].rewrite.children
    IN /\ Evaluating(c, "intersection")
       /\ Becomes(c, IF children = << >> THEN Return(call[c], FALSE)
                                         ELSE Loop(call[c], "intersection", children))

EvalExclusion(c) ==
    LET e == call[c]
    IN /\ Evaluating(c, "exclusion")
       /\ Becomes(c, Eval(Push(e, "base", <<e.rewrite.subtract>>), e.goal, e.rewrite.base))

----------------------------------------------------------------------------
(* The loops.                                                              *)

Looping(c, kinds) == call[c].phase = "loop" /\ Top(call[c]).kind \in kinds

(* Variant: the loop stays where it is.                                    *)
Stay(e) == e

(* The rest of the loop of the top frame.                                  *)
Advance(e) == [e EXCEPT !.stack[1].todo = Tail(@)]

(* Grants, moves on to the next tuple, or asks about a userset.            *)
NextMember(c) ==
    LET e == call[c]
        member == Head(Top(e).todo)
        depth == Top(e).goal.depth + 1
    IN /\ Looping(c, {"members"})
       /\ Top(e).todo # << >>
       /\ Becomes(c, IF IsUserset(member)
                       THEN Check(Advance(e), Goal(member.object, member.relation, depth))
                       ELSE IF member = e.request.subject THEN Return(Pop(e), TRUE)
                                                          ELSE Advance(e))

NextChild(c) ==
    LET e == call[c]
    IN /\ Looping(c, {"union", "intersection"})
       /\ Top(e).todo # << >>
       /\ Becomes(c, Eval(Advance(e), Top(e).goal, Head(Top(e).todo)))

EndOfLoop(c) ==
    LET e == call[c]
    IN /\ Looping(c, {"members", "union", "intersection"})
       /\ Top(e).todo = << >>
       /\ Becomes(c, Return(Pop(e), Top(e).kind = "intersection"))

----------------------------------------------------------------------------
(* Returns.                                                                *)

Returning(c, kinds) ==
    /\ call[c].phase = "return"
    /\ call[c].stack # << >>
    /\ Top(call[c]).kind \in kinds

(* Variant: an intersection ends at the first grant.                       *)
StopsAtGrant(e) == e.value

(* A union, or a loop over members, ends at the first grant; an            *)
(* intersection at the first denial.                                       *)
Stops(e) == e.value = (Top(e).kind # "intersection")

ReturnToLoop(c) ==
    LET e == call[c]
    IN /\ Returning(c, {"members", "union", "intersection"})
       /\ Becomes(c, IF Stops(e) THEN Pop(e) ELSE Continue(e))

(* Variant: the frame goes on waiting for the base.                        *)
StillBase(e) == [e EXCEPT !.stack[1] = Frame("base", Top(e).goal, << >>)]

Subtracting(e) == [e EXCEPT !.stack[1] = Frame("subtract", Top(e).goal, << >>)]

(* The base is false, or its complement is still to be evaluated.          *)
ReturnToBase(c) ==
    LET e == call[c]
    IN /\ Returning(c, {"base"})
       /\ Becomes(c, IF e.value
                       THEN Eval(Subtracting(e), Top(e).goal, Head(Top(e).todo))
                       ELSE Pop(e))

ReturnToSubtract(c) ==
    /\ Returning(c, {"subtract"})
    /\ Becomes(c, Return(Pop(call[c]), ~ call[c].value))

(* The end of check: the answer goes into the memo and into the cache.     *)
ReturnToCheck(c) ==
    LET e == call[c]
        goal == Top(e).goal
    IN /\ Returning(c, {"check"})
       /\ call' = [call EXCEPT ![c] =
                     Pop([e EXCEPT !.memo = Put(@, KeyOfGoal(goal), e.value)])]
       /\ cache' = IF Caching THEN Put(cache, CacheKey(e, goal), e.value) ELSE cache

(* Check returns its Result.                                               *)
Finish(c) ==
    LET e == call[c]
    IN /\ e.phase = "return"
       /\ e.stack = << >>
       /\ Becomes(c, [IdleCall EXCEPT !.phase = "done", !.request = e.request,
                                      !.revision = e.revision, !.value = e.value])

----------------------------------------------------------------------------
(* The steps of a check that has begun.                                    *)
EngineStep(c) ==
    \/ ResolveRevision(c)
    \/ Canceled(c)
    \/ DepthExceeded(c)
    \/ MemoHit(c)
    \/ CacheHit(c)
    \/ CutCycle(c)
    \/ UnknownRelation(c)
    \/ Expand(c)
    \/ StoreFails(c)
    \/ EvalThis(c)
    \/ EvalComputedUserset(c)
    \/ EvalTupleToUserset(c)
    \/ EvalUnion(c)
    \/ EvalIntersection(c)
    \/ EvalExclusion(c)
    \/ NextMember(c)
    \/ NextChild(c)
    \/ EndOfLoop(c)
    \/ ReturnToLoop(c)
    \/ ReturnToBase(c)
    \/ ReturnToSubtract(c)
    \/ ReturnToCheck(c)
    \/ Finish(c)

=============================================================================
