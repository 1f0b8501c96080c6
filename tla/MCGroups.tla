----------------------------- MODULE MCGroups -----------------------------
(***************************************************************************)
(* Two groups that may contain each other (TestCyclicGroupsTerminate of    *)
(* check_test.go), under three schemas for the document that they guard.   *)
(***************************************************************************)
EXTENDS Service, MCMeaning, TLC

A == Object("group", "a")
B == Object("group", "b")
Doc == Object("document", "readme")
Riya == Concrete(Object("user", "riya"))

SchemaWith(view) ==
    [user     |-> Empty,
     group    |-> [member |-> NoRewrite],
     document |-> [viewer |-> This, approver |-> This, banned |-> This, view |-> view]]

(* No subproblem is asked for unless it decides the answer.                *)
UnionSchema == SchemaWith(Union(<<This, ComputedUserset("viewer")>>))

IntersectionSchema ==
    SchemaWith(Intersection(<<ComputedUserset("viewer"), ComputedUserset("approver")>>))

ExclusionSchema ==
    SchemaWith(Exclusion(ComputedUserset("viewer"), ComputedUserset("banned")))

----------------------------------------------------------------------------
BinA   == Tuple(A, "member", Userset(B, "member"))
AinB   == Tuple(B, "member", Userset(A, "member"))
RiyaInA == Tuple(A, "member", Riya)
RiyaInB == Tuple(B, "member", Riya)
Viewer == Tuple(Doc, "viewer", Userset(A, "member"))
Approver == Tuple(Doc, "approver", Userset(B, "member"))
Banned == Tuple(Doc, "banned", Userset(B, "member"))

MCTuples == {BinA, AinB, RiyaInA, RiyaInB, Viewer, Approver, Banned}

(* The cycle with riya in one of the groups, moved to the other.           *)
Link == [add |-> {BinA, AinB, RiyaInB, Viewer, Approver}, remove |-> {}]
Move == [add |-> {RiyaInA, Banned}, remove |-> {RiyaInB}]

MCWrites == {Link, Move}

(* The cycle with nobody in it, which riya may join later.                 *)
Hollow == [add |-> {BinA, AinB, Viewer}, remove |-> {}]
JoinWrites == {Hollow, Move}

(* Group b in group a, with riya in it, and no cycle.                      *)
Nest == [add |-> {BinA, RiyaInB, Viewer, Approver}, remove |-> {}]

AllWrites == MCWrites \cup {Nest}

MCQueries ==
    {[key |-> key, subject |-> Riya] :
       key \in {RelationKey(Doc, "view"), RelationKey(B, "member")}}

(* A relation that the schema does not have.                               *)
OpenQueries == MCQueries \cup {[key |-> RelationKey(Doc, "owner"), subject |-> Riya]}

MCObjects == {A, B, Doc, Riya.object}

(* As an enumerated set of pairs, which TLC evaluates once.                *)
TruthUnder(schema) ==
    UNION {{<<world, key>> : key \in TrueOf(schema, MCObjects, world, Riya)}
           : world \in SUBSET MCTuples}

UnionTruth == TruthUnder(UnionSchema)
IntersectionTruth == TruthUnder(IntersectionSchema)
ExclusionTruth == TruthUnder(ExclusionSchema)

UnionHolds(world, key, subject) ==
    subject = Riya /\ <<world, key>> \in UnionTruth
IntersectionHolds(world, key, subject) ==
    subject = Riya /\ <<world, key>> \in IntersectionTruth
ExclusionHolds(world, key, subject) ==
    subject = Riya /\ <<world, key>> \in ExclusionTruth

Symmetry == Permutations(Calls)

----------------------------------------------------------------------------
(* The equations of Meaning are satisfied, except where what is subtracted *)
(* can lead into the cycle.                                                *)

MCKeys == Subproblems(Schema, MCObjects) \cup {query.key : query \in Queries}

MCSubjects == {query.subject : query \in Queries}

MCWorlds == SUBSET MCTuples

ASSUME EveryWorldExplained ==
    /\ ClosedUnder(Worlds, Writes)
    /\ QueriesKnown
    /\ \A world \in Worlds :
         Compositional(world) /\ HoldsClosed(world) /\ RankedGrounded(world)

ASSUME SubtractsUnsettled == Interpreted(Worlds) <=> Schema # ExclusionSchema

ASSUME SomeWorldsCyclic == \E world \in Worlds : ~ Acyclic(world)

=============================================================================
