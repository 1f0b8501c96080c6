----------------------------- MODULE MCService -----------------------------
(***************************************************************************)
(* The folders and documents of the new-enemy tests, with a banned list    *)
(* and a group: no cycle can be written, so every answer must be exact.    *)
(***************************************************************************)
EXTENDS Service, MCMeaning, TLC

Folder == Object("folder", "eng")
Secret == Object("document", "secret")
Group  == Object("group", "g")
Mallory == Concrete(Object("user", "mallory"))

MCSchema ==
    [user     |-> Empty,
     group    |-> [member |-> NoRewrite],
     folder   |-> [viewer |-> NoRewrite],
     document |-> [parent |-> NoRewrite,
                   banned |-> NoRewrite,
                   view   |-> Exclusion(Union(<<This, TupleToUserset("parent", "viewer")>>),
                                        ComputedUserset("banned"))]]

Member == Tuple(Group, "member", Mallory)
Viewer == Tuple(Folder, "viewer", Userset(Group, "member"))
Parent == Tuple(Secret, "parent", Concrete(Folder))
Banned == Tuple(Secret, "banned", Userset(Group, "member"))

MCTuples == {Member, Viewer, Parent, Banned}

(* Share the folder and the secret in it with the group, take Mallory out  *)
(* of the group, ban the group.                                            *)
MCWrites ==
    {[add |-> {Member, Viewer, Parent}, remove |-> {}],
     [add |-> {}, remove |-> {Member}],
     [add |-> {Banned}, remove |-> {}]}

MCQueries ==
    {[key |-> RelationKey(Secret, "view"), subject |-> Mallory]}

(* "minimize_latency" and "full" take the same branch of Check.            *)
TwoConsistencies == {"at_least_as_fresh", "full"}

Symmetry == Permutations(Calls)

MCObjects == {Folder, Secret, Group, Mallory.object}

(* As an enumerated set of pairs, which TLC evaluates once.                *)
MCTruth ==
    UNION {{<<world, key>> : key \in TrueOf(MCSchema, MCObjects, world, Mallory)}
           : world \in SUBSET MCTuples}

MCHolds(world, key, subject) == subject = Mallory /\ <<world, key>> \in MCTruth

----------------------------------------------------------------------------
(* The equations of Meaning are satisfied, with every subproblem ranked.   *)

MCKeys == Subproblems(Schema, MCObjects) \cup {query.key : query \in Queries}

MCSubjects == {query.subject : query \in Queries}

MCWorlds == SUBSET MCTuples

ASSUME EveryWorldExplained ==
    /\ Interpreted(Worlds)
    /\ ClosedUnder(Worlds, Writes)
    /\ QueriesKnown
    /\ \A world \in Worlds : Acyclic(world)

=============================================================================
