------------------------------ MODULE MCExpand ------------------------------
(***************************************************************************)
(* A document in a folder, shared with two groups that may contain each    *)
(* other, one of which may be banned.                                     *)
(***************************************************************************)
EXTENDS TreeMeaning, MCMeaning

Riya == Concrete(Object("user", "riya"))
Zoe  == Concrete(Object("user", "zoe"))
A    == Object("group", "a")
B    == Object("group", "b")
Eng  == Object("folder", "eng")
Doc  == Object("document", "readme")

MCSchema ==
    [group    |-> [member |-> NoRewrite],
     folder   |-> [viewer |-> This],
     document |-> [parent |-> This, banned |-> This, reader |-> This,
                   view |-> Exclusion(Union(<<ComputedUserset("reader"),
                                              TupleToUserset("parent", "viewer")>>),
                                      ComputedUserset("banned")),
                   both |-> Intersection(<<ComputedUserset("reader"),
                                           ComputedUserset("view")>>)]]

Always == {Tuple(A, "member", Riya), Tuple(Doc, "parent", Concrete(Eng))}

Optional ==
    {Tuple(A, "member", Userset(B, "member")),
     Tuple(B, "member", Userset(A, "member")),
     Tuple(B, "member", Zoe),
     Tuple(Eng, "viewer", Userset(A, "member")),
     Tuple(Doc, "banned", Userset(B, "member")),
     Tuple(Doc, "reader", Userset(B, "member"))}

MCTuples == Always \cup Optional

(* Anything may be shared, and everything be revoked. *)
MCWrites ==
    {[add |-> Always \cup add, remove |-> {}] : add \in SUBSET Optional}
      \cup {[add |-> {}, remove |-> MCTuples]}

MCSubjects == {Riya, Zoe}

MCObjects == {A, B, Eng, Doc}

MCGoals == {RelationKey(Doc, "view"), RelationKey(Doc, "both"), RelationKey(B, "member"),
            RelationKey(Doc, "owner")}

----------------------------------------------------------------------------
(* expand and expandRewrite call each other, and reading a tree is reading *)
(* its children.  Each is a LET, for the statistics that TLC keeps with    *)
(* -coverage follow constants into their definitions, and end at a LET.    *)

MCTreeOfKey(world, key, depth, visited) ==
    LET tree == ExpandKey(world, key, depth, visited) IN tree

MCTreeOfRewrite(world, key, rewrite, depth, visited) ==
    LET tree == ExpandRewrite(world, key, rewrite, depth, visited) IN tree

MCShows(tree, subject) == LET shown == Reads(tree, subject) IN shown

----------------------------------------------------------------------------
(* The equations of Meaning and TreeMeaning are satisfied in every world.  *)

MCKeys == Subproblems(Schema, MCObjects) \cup Goals

MCWorlds == {{}} \cup {Always \cup added : added \in SUBSET Optional}

MCHeight(rewrite) == Cardinality(PartsOf(rewrite))

(* A document's view subtracts who is banned.                              *)
MCLevel(world, key) == IF key.relation \in {"view", "both"} THEN 1 ELSE 0

MCTruth ==
    [world \in Worlds, subject \in Subjects |-> TrueOf(Schema, MCObjects, world, subject)]

MCHolds(world, key, subject) == key \in MCTruth[world, subject]

MCStages ==
    [world \in Worlds, subject \in Subjects |->
       StagesFrom(Schema, MCObjects, world, subject, MCTruth[world, subject],
                  [key \in {} |-> 0])]

MCStage(world, key, subject) ==
    LET stages == MCStages[world, subject]
    IN IF key \in DOMAIN stages THEN stages[key] ELSE 0

MCDue(world, key, rewrite, subject) ==
    LET stages == MCStages[world, subject]
        grants(n) == Grants(world, subject, key.object, key.relation, rewrite,
                            {k \in DOMAIN stages : stages[k] <= n}, DOMAIN stages)
    IN CHOOSE n \in 0..Cardinality(Keys) :
         grants(n) /\ \A m \in 0..(n - 1) : ~ grants(m)

ASSUME EveryTreeExplained ==
    /\ RewritesClosed /\ RewritesMeasured /\ GoalsKnown /\ IsFiniteSet(DefinedKeys)
    /\ ClosedUnder(Worlds, Writes)
    /\ \A world \in Worlds : TreesExplained(world) /\ TreesUnfold(world) /\ NamesKnown(world)

(* Many of them have groups that contain each other.                       *)
ASSUME SomeWorldsCyclic == \E world \in Worlds : ~ Acyclic(world)

=============================================================================
