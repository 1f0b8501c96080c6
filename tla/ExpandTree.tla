----------------------------- MODULE ExpandTree -----------------------------
(***************************************************************************)
(* Expand (internal/check/expand.go, and handleExpand of                   *)
(* internal/api/api.go): the tree of usersets that define a relation on an *)
(* object, drawn at the revision that was the head when Expand began,      *)
(* while writes go on.                                                     *)
(*                                                                         *)
(* expand and expandRewrite read only the revision that was resolved and   *)
(* share nothing with anybody, so one step draws the whole tree.  That     *)
(* reads of a committed revision never change is what VersionedStore       *)
(* promises.  The two call each other.  Here what they call is a constant, *)
(* for which an instance takes the operators themselves, and so is what a  *)
(* reader of a tree asks of its children.                                  *)
(***************************************************************************)
EXTENDS Meaning, SequencesExt

CONSTANTS Writes,        \* the writes that go on: [add, remove]
          Goals,         \* what clients ask to expand: keys
          TreeOfKey(_, _, _, _),        \* ExpandKey
          TreeOfRewrite(_, _, _, _, _), \* ExpandRewrite
          Shows(_, _)                   \* Reads

VARIABLES expansion      \* the request that a handler is working on

vars == <<head, history, expansion>>

----------------------------------------------------------------------------
(* Trees.  Subjects are in a node of type leaf only.                       *)

Node(type, key, subjects, children) ==
    [type |-> type, key |-> key, subjects |-> subjects, children |-> children]

Leaf(key, subjects, children) == Node("leaf", key, subjects, children)

FailedTree(error) == Node(error, RelationKey(Object("", ""), ""), << >>, << >>)

IsFailed(tree) == tree.type \in {"depth", "lookup", "store"}

(* The error of the first child that has one is the error of the node.     *)
FirstError(node) ==
    LET Fails(i) == i \in DOMAIN node.children /\ IsFailed(node.children[i])
    IN IF \E i \in DOMAIN node.children : Fails(i)
         THEN node.children[CHOOSE i \in DOMAIN node.children :
                              Fails(i) /\ \A j \in 1..(i - 1) : ~ Fails(j)]
         ELSE node

----------------------------------------------------------------------------
Halves(rewrite) == <<rewrite.base, rewrite.subtract>>

(* Variant: no visited set.                                                *)
NeverDrawn(key, visited) == FALSE

(* A node that is being drawn already.                                     *)
IsCycle(key, visited) == key \in visited

(* expand.  A cycle is drawn as a leaf; the visited set is that of the     *)
(* path from the root, for expand takes its key out again when it returns. *)
ExpandKey(world, key, depth, visited) ==
    IF depth > MaxDepth THEN FailedTree("depth")
    ELSE IF IsCycle(key, visited) THEN Leaf(key, << >>, << >>)
    ELSE IF ~ Defines(Schema, key.object.type, key.relation) THEN FailedTree("lookup")
    ELSE TreeOfRewrite(world, key, RewriteOf(key), depth, visited \cup {key})

(* The tuples of a relation, in some order, and their subjects.            *)
Rows(world, object, relation) == SetToSeq(Stored(world, object, relation))

SubjectsOf(rows) == [i \in DOMAIN rows |-> rows[i].subject]

(* expandRewrite.  A leaf has a child for every userset in it.             *)
ExpandRewrite(world, key, rewrite, depth, visited) ==
    LET below(k) == TreeOfKey(world, k, depth + 1, visited)
        each(parts) ==
          [i \in DOMAIN parts |-> TreeOfRewrite(world, key, parts[i], depth, visited)]
    IN CASE rewrite.op = "this" ->
              LET usersets == SetToSeq({t \in Stored(world, key.object, key.relation) :
                                          IsUserset(t.subject)})
              IN FirstError(Leaf(key, SubjectsOf(Rows(world, key.object, key.relation)),
                   [i \in DOMAIN usersets |-> below(KeyOfMember(usersets[i].subject))]))
         [] rewrite.op = "computed" -> below(RelationKey(key.object, rewrite.relation))
         [] rewrite.op = "tupleToUserset" ->
              LET edges == Rows(world, key.object, rewrite.tupleset)
              IN FirstError(Node("tupleset", RelationKey(key.object, rewrite.tupleset), << >>,
                   [i \in DOMAIN edges |-> below(FarEnd(edges[i], rewrite.computed))]))
         [] rewrite.op = "exclusion" ->
              FirstError(Node("exclusion", key, << >>, each(Halves(rewrite))))
         [] OTHER ->
              FirstError(Node(rewrite.op, key, << >>, each(rewrite.children)))

----------------------------------------------------------------------------
NoTree == Leaf(RelationKey(Object("", ""), ""), << >>, << >>)

Idle == [phase |-> "idle", key |-> NoTree.key, began |-> 0, revision |-> 0, tree |-> NoTree]

Init == StoreInit /\ expansion = Idle

ReceiveExpand ==
    /\ expansion.phase = "idle"
    /\ \E key \in Goals :
         expansion' = [Idle EXCEPT !.phase = "head", !.key = key, !.began = head]
    /\ UNCHANGED storeVars

ResolveExpand ==
    /\ expansion.phase = "head"
    /\ expansion' = [expansion EXCEPT !.phase = "draw", !.revision = head]
    /\ UNCHANGED storeVars

(* Variant: the tree is drawn at the head of its own moment.               *)
DrawnAtHead(e) == ExpandKey(World(head), e.key, 0, {})

Drawn(e) == ExpandKey(World(e.revision), e.key, 0, {})

DrawTree ==
    /\ expansion.phase = "draw"
    /\ expansion' = [expansion EXCEPT !.phase = "done", !.tree = Drawn(expansion)]
    /\ UNCHANGED storeVars

(* Head or a read fails, or the client has hung up. *)
ExpandFails ==
    /\ expansion.phase \in {"head", "draw"}
    /\ expansion' = [expansion EXCEPT !.phase = "done", !.tree = FailedTree("store")]
    /\ UNCHANGED storeVars

RespondExpand ==
    /\ expansion.phase = "done"
    /\ expansion' = Idle
    /\ UNCHANGED storeVars

WriteArrives ==
    /\ \E write \in Writes : Commit(write.add, write.remove)
    /\ UNCHANGED expansion

Next ==
    \/ ReceiveExpand
    \/ ResolveExpand
    \/ DrawTree
    \/ ExpandFails
    \/ RespondExpand
    \/ WriteArrives

Spec == Init /\ [][Next]_vars

----------------------------------------------------------------------------
(* Properties.                                                             *)

(* Who has the relation, as a reader of the tree decides it.               *)
Reads(tree, subject) ==
    LET Child(i) == Shows(tree.children[i], subject)
        some == \E i \in DOMAIN tree.children : Child(i)
    IN CASE tree.type = "leaf" -> subject \in ToSet(tree.subjects) \/ some
         [] tree.type \in {"union", "tupleset"} -> some
         [] tree.type = "intersection" ->
              tree.children # << >> /\ \A i \in DOMAIN tree.children : Child(i)
         [] tree.type = "exclusion" -> Child(1) /\ ~ Child(2)

(* "Who can view this, and through what path?": reading the tree tells, of *)
(* every subject, whether the relation holds at the revision of the tree,  *)
(* also where groups contain each other and where the tree cuts a cycle    *)
(* short under an exclusion or an intersection.                            *)
TreesDecide ==
    expansion.phase = "done" /\ ~ IsFailed(expansion.tree) =>
      /\ expansion.revision \in expansion.began..head
      /\ \A subject \in Subjects :
           Reads(expansion.tree, subject)
             <=> Holds(World(expansion.revision), expansion.key, subject)

(* Cycles do not use up the depth: where there are no more relations on    *)
(* objects than MaxDepth, no expansion is too deep, and none meets a       *)
(* relation that the schema does not have but for the one asked for.       *)
TreesDrawn ==
    Cardinality(DefinedKeys) <= MaxDepth /\ expansion.key \in DefinedKeys
      => expansion.tree.type \notin {"depth", "lookup"}

=============================================================================
