------------------------------ MODULE MCLists ------------------------------
(***************************************************************************)
(* Lists over the schema of listobjects_test.go, with groups that contain  *)
(* each other and bans that may be pardoned, and over folders that inherit *)
(* from folders.                                                           *)
(***************************************************************************)
EXTENDS ReverseMeaning, SchemaReverse, MCMeaning

Riya  == Concrete(Object("user", "riya"))
A     == Object("group", "a")
B     == Object("group", "b")
C     == Object("group", "c")
D     == Object("group", "d")
Eng   == Object("folder", "eng")
Root  == Object("folder", "root")
D1    == Object("document", "d1")
D2    == Object("document", "d2")
D3    == Object("document", "d3")

MCOrdered == <<D1, D2, D3, Eng, Root, A, B, C, D, Riya.object>>

ListSchema ==
    [user     |-> Empty,
     group    |-> [member |-> This],
     folder   |-> [viewer |-> This],
     document |-> [parent |-> This, owner |-> This, editor |-> This, banned |-> This,
                   pardoned |-> This,
                   edit |-> Union(<<ComputedUserset("editor"), ComputedUserset("owner")>>),
                   view |-> Exclusion(Union(<<ComputedUserset("edit"),
                                              TupleToUserset("parent", "viewer")>>),
                                      Exclusion(ComputedUserset("banned"),
                                                ComputedUserset("pardoned")))]]

(* Folders nest; a document inherits from its folder what that inherits.   *)
NestedSchema ==
    [user     |-> Empty,
     group    |-> [member |-> This],
     folder   |-> [viewer |-> This, parent |-> This,
                   view |-> Union(<<ComputedUserset("viewer"),
                                    TupleToUserset("parent", "view")>>)],
     document |-> [parent |-> This, view |-> TupleToUserset("parent", "view")]]

AinB    == Tuple(B, "member", Userset(A, "member"))
BinA    == Tuple(A, "member", Userset(B, "member"))
RiyaInA == Tuple(A, "member", Riya)
BinC    == Tuple(C, "member", Userset(B, "member"))
CinD    == Tuple(D, "member", Userset(C, "member"))
Viewer  == Tuple(Eng, "viewer", Userset(B, "member"))
InEng(document) == Tuple(document, "parent", Concrete(Eng))
Editor  == Tuple(D2, "editor", Riya)
Banned  == Tuple(D3, "banned", Riya)
Pardoned == Tuple(D3, "pardoned", Riya)
RootViewer == Tuple(Root, "viewer", Riya)
EngInRoot == Tuple(Eng, "parent", Concrete(Root))

MCTuples == {AinB, BinA, BinC, CinD, RiyaInA, Viewer, InEng(D1), InEng(D3), Editor, Banned,
             Pardoned, RootViewer, EngInRoot}

(* d1 through two groups and a folder, d2 directly, d3 but for a ban; two  *)
(* more groups around b.                                                   *)
Share == [add |-> {AinB, BinA, BinC, CinD, RiyaInA, Viewer, InEng(D1), InEng(D3),
                   Editor, Banned},
          remove |-> {}]
Pardon == [add |-> {Pardoned}, remove |-> {}]
Leave == [add |-> {}, remove |-> {AinB}]
Demote == [add |-> {}, remove |-> {Editor}]
MCWrites == {Share, Pardon, Leave, Demote}

AllRequest == {[subject |-> Riya, permission |-> "view", type |-> "document", limit |-> 0]}

(* Folders in folders. *)
NestedWrites == {[add |-> {RootViewer, EngInRoot, InEng(D1)}, remove |-> {}]}

MCObjects == Range(MCOrdered)

MCContributing(type, permission) == Contributors(Schema, type, permission)

MCWalksTo(relation) == WalksInto(Schema, relation)

ListHolds(world, key, subject) ==
    key \in TrueOf(ListSchema, MCObjects, world, subject)

NestedHolds(world, key, subject) ==
    key \in TrueOf(NestedSchema, MCObjects, world, subject)

----------------------------------------------------------------------------
(* The equations of Meaning are satisfied in every world that is written.  *)

MCKeys == Subproblems(Schema, MCObjects)

MCSubjects == {Riya}

RECURSIVE Reachable(_)
Reachable(worlds) ==
    LET more == worlds \cup UNION {{(world \ write.remove) \cup write.add :
                                      world \in worlds} : write \in Writes}
    IN IF more = worlds THEN worlds ELSE Reachable(more)

MCWorlds == Reachable({{}})

ASSUME EveryWorldExplained ==
    /\ Interpreted(Worlds) /\ ClosedUnder(Worlds, Writes)
    /\ RequestsKnown /\ ObjectsKnown

----------------------------------------------------------------------------
(* The reverse analysis is sound for both schemas; only where inheritance  *)
(* stays with stored relations does the walk miss nothing.                 *)

(* All parts of a rewrite that may grant, not only the leaves.             *)
RECURSIVE GrantingSide(_)
GrantingSide(rewrite) ==
    {rewrite} \cup
    CASE rewrite.op \in {"union", "intersection"} ->
           UNION {GrantingSide(rewrite.children[i]) : i \in DOMAIN rewrite.children}
      [] rewrite.op = "exclusion" -> GrantingSide(rewrite.base)
      [] OTHER -> {}

GrantingOccurrences ==
    UNION {{<<key, part>> : part \in GrantingSide(RewriteOf(key))} : key \in Keys}

MCHeight == [occurrence \in GrantingOccurrences |-> Cardinality(GrantingSide(occurrence[2]))]

ASSUME AnalysisSound ==
    /\ ReverseSound(MCHeight)
    /\ (\A world \in Worlds : IsPlain(world, MCHeight)) = (Schema = ListSchema)
    /\ \A world \in Worlds : IsShallow(world, Riya)

(* Without the groups that contain each other there are no cycles either:  *)
(* writes that leave one of them out stay among the worlds in which every  *)
(* list is exact.                                                          *)
CalmWrites == {[write EXCEPT !.add = @ \ {AinB}] : write \in Writes}

CalmWorlds == {world \in Worlds : AinB \notin world}

ASSUME CalmWorldsExact ==
    Schema = ListSchema =>
      /\ ClosedUnder(CalmWorlds, CalmWrites)
      /\ \A world \in CalmWorlds : Acyclic(world)

=============================================================================
