---------------------------- MODULE TreeMeaning ----------------------------
(***************************************************************************)
(* What the theorems about trees suppose of a schema and its data, as      *)
(* equations beside those of Meaning: no cycle goes through what an        *)
(* exclusion subtracts, and whatever holds is granted by what held before  *)
(* it.  Other cycles may be anywhere, among what is subtracted too.        *)
(***************************************************************************)
EXTENDS ExpandTree

CONSTANTS Height(_),     \* rewrite: above the height of its parts
          Level(_, _),   \* world, key: how many exclusions may be below it
          Stage(_, _, _),     \* world, key, subject: when it first holds
          Due(_, _, _, _)     \* world, key, rewrite, subject: when it is first granted

(* A rewrite is made of smaller ones.                                      *)
RewritesMeasured ==
    \A occurrence \in Occurrences :
      LET rewrite == occurrence[2]
          Under(part) == Height(part) \in Nat /\ Height(part) < Height(rewrite)
      IN /\ Height(rewrite) \in Nat
         /\ rewrite.op \in {"this", "computed", "tupleToUserset",
                            "union", "intersection", "exclusion"}
         /\ rewrite.op \in {"union", "intersection"} =>
              \A i \in DOMAIN rewrite.children : Under(rewrite.children[i])
         /\ rewrite.op = "exclusion" => Under(rewrite.base) /\ Under(rewrite.subtract)

(* No subproblem is above one that asks about it, and what is asked about  *)
(* to be subtracted is below it.                                           *)
Stratified(world) ==
    /\ \A key \in Keys : Level(world, key) \in Nat
    /\ \A occurrence \in Occurrences :
         LET key == occurrence[1]
             rewrite == occurrence[2]
         IN /\ \A asked \in Asked(world, key, rewrite) :
                 Level(world, asked) <= Level(world, key)
            /\ rewrite.op = "exclusion" =>
                 \A asked \in Asked(world, key, rewrite.subtract) :
                   Level(world, asked) < Level(world, key)

(* What a rewrite grants, it grants by what holds when it is due.          *)
GrantedInTime(world, key, rewrite, subject) ==
    LET due == Due(world, key, rewrite, subject)
        HeldBy(k) == Holds(world, k, subject) /\ Stage(world, k, subject) <= due
        DueBy(part) == Due(world, key, part, subject) <= due
    IN /\ due \in Nat
       /\ rewrite.op = "this" =>
            \E t \in Stored(world, key.object, key.relation) :
              IF IsUserset(t.subject) THEN HeldBy(KeyOfMember(t.subject))
                                      ELSE t.subject = subject
       /\ rewrite.op = "computed" => HeldBy(RelationKey(key.object, rewrite.relation))
       /\ rewrite.op = "tupleToUserset" =>
            \E t \in Stored(world, key.object, rewrite.tupleset) :
              HeldBy(FarEnd(t, rewrite.computed))
       /\ rewrite.op = "union" =>
            \E i \in DOMAIN rewrite.children :
              /\ Satisfied(world, key, rewrite.children[i], subject)
              /\ DueBy(rewrite.children[i])
       /\ rewrite.op = "intersection" =>
            \A i \in DOMAIN rewrite.children : DueBy(rewrite.children[i])
       /\ rewrite.op = "exclusion" => DueBy(rewrite.base)

(* Nothing holds by itself.                                                *)
Founded(world) ==
    \A subject \in Subjects :
      /\ \A key \in Keys : Stage(world, key, subject) \in Nat
      /\ \A key \in DefinedKeys : Holds(world, key, subject) =>
           /\ Satisfied(world, key, RewriteOf(key), subject)
           /\ Due(world, key, RewriteOf(key), subject) < Stage(world, key, subject)
      /\ \A occurrence \in Occurrences :
           LET key == occurrence[1]
               rewrite == occurrence[2]
           IN Satisfied(world, key, rewrite, subject)
                => GrantedInTime(world, key, rewrite, subject)

(* Holds is what the schema says, cycles included.                         *)
TreesExplained(world) ==
    /\ IsFiniteSet(world)
    /\ Compositional(world)
    /\ HoldsClosed(world)
    /\ Stratified(world)
    /\ Founded(world)

----------------------------------------------------------------------------
(* The trees are those that expand and expandRewrite draw, and read.  The  *)
(* depth of a pending expand is the number of those it is nested in.       *)

IsDrawn(tree, drawn) ==
    /\ tree = drawn
    /\ ~ IsFailed(tree) => \A subject \in Subjects : (Shows(tree, subject) <=> Reads(tree, subject))

TreesUnfold(world) ==
    \A key \in Keys, visited \in SUBSET DefinedKeys :
      LET depth == Cardinality(visited)
      IN /\ IsDrawn(TreeOfKey(world, key, depth, visited),
                    ExpandKey(world, key, depth, visited))
         /\ \A rewrite \in Rewrites(key) :
              IsDrawn(TreeOfRewrite(world, key, rewrite, depth, visited \cup {key}),
                      ExpandRewrite(world, key, rewrite, depth, visited \cup {key}))

(* Trees are asked for of subproblems, and read for plain subjects.        *)
GoalsKnown ==
    Goals \subseteq Keys /\ \A subject \in Subjects : ~ IsUserset(subject)

(* No stored relationship, and no rewrite, names a relation that the       *)
(* schema does not have.                                                   *)
NamesKnown(world) ==
    \A occurrence \in Occurrences :
      Asked(world, occurrence[1], occurrence[2]) \subseteq DefinedKeys

=============================================================================
