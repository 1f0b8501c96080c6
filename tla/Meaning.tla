------------------------------ MODULE Meaning ------------------------------
(***************************************************************************)
(* What Holds may be, said without recursion: equations that relate what a *)
(* rewrite grants to what its parts grant, and what a subproblem is to the *)
(* subproblems that its rewrite asks about.  Semantics computes operators  *)
(* that satisfy them; the theorems about answers assume the equations and  *)
(* nothing of how they are solved.                                         *)
(*                                                                         *)
(* A subproblem is ranked in a world when no chain of subproblems that     *)
(* starts from it ends in a cycle.  The engine must be exact about ranked  *)
(* subproblems; a cut cycle may deny any other.                            *)
(***************************************************************************)
EXTENDS Engine

CONSTANTS Holds(_, _, _),         \* what the schema says: world, key, subject
          Subjects,               \* the subjects that are asked about
          Keys,                   \* the subproblems that a check may come to
          Rewrites(_),            \* key: its rewrite and all parts of it
          Satisfied(_, _, _, _),  \* world, key, rewrite, subject
          Asked(_, _, _),         \* world, key, rewrite: subproblems it needs
          Ranked(_, _),           \* world, key
          Rank(_, _)              \* world, key

DefinedKeys == {key \in Keys : Defines(Schema, key.object.type, key.relation)}

(* A part of the rewrite of a subproblem.                                  *)
Occurrences == UNION {{<<key, rewrite>> : rewrite \in Rewrites(key)} : key \in Keys}

Stored(world, object, relation) ==
    {t \in world : KeyOf(t) = RelationKey(object, relation)}

FarEnd(t, computed) == RelationKey(t.subject.object, computed)

KeyOfMember(subject) == RelationKey(subject.object, subject.relation)

----------------------------------------------------------------------------
(* A subproblem is no more than its two parts, names are not empty, and    *)
(* the parts of a part are parts.                                          *)
RewritesClosed ==
    /\ \A key \in Keys : key = RelationKey(key.object, key.relation)
    /\ \A key \in DefinedKeys : RewriteOf(key) \in Rewrites(key)
    /\ \A key \in Keys : \A rewrite \in Rewrites(key) :
         /\ rewrite.op = "tupleToUserset" => rewrite.computed # NoRelation
         /\ rewrite.op \in {"union", "intersection"} =>
              rewrite.children \in Seq(Rewrites(key))
         /\ rewrite.op = "exclusion" =>
              rewrite.base \in Rewrites(key) /\ rewrite.subtract \in Rewrites(key)

(* The subproblems that a rewrite asks about.                              *)
AskedIs(world, key, rewrite) ==
    LET asked == Asked(world, key, rewrite)
    IN /\ asked \subseteq Keys
       /\ rewrite.op = "this" =>
            asked = {KeyOfMember(t.subject) :
                       t \in {s \in Stored(world, key.object, key.relation) :
                                IsUserset(s.subject)}}
       /\ rewrite.op = "computed" =>
            asked = {RelationKey(key.object, rewrite.relation)}
       /\ rewrite.op = "tupleToUserset" =>
            asked = {FarEnd(t, rewrite.computed) :
                       t \in Stored(world, key.object, rewrite.tupleset)}
       /\ rewrite.op \in {"union", "intersection"} =>
            asked = UNION {Asked(world, key, rewrite.children[i]) :
                             i \in DOMAIN rewrite.children}
       /\ rewrite.op = "exclusion" =>
            asked = Asked(world, key, rewrite.base)
                      \cup Asked(world, key, rewrite.subtract)

(* A stored member of a relation is the subject, or a userset it is in.    *)
MemberHolds(world, member, subject) ==
    IF IsUserset(member) THEN Holds(world, KeyOfMember(member), subject)
                         ELSE member = subject

(* What a rewrite grants.                                                  *)
SatisfiedIs(world, key, rewrite, subject) ==
    LET satisfied == Satisfied(world, key, rewrite, subject)
        part(r) == Satisfied(world, key, r, subject)
    IN /\ rewrite.op = "this" =>
            satisfied = \E t \in Stored(world, key.object, key.relation) :
                           MemberHolds(world, t.subject, subject)
       /\ rewrite.op = "computed" =>
            satisfied = Holds(world, RelationKey(key.object, rewrite.relation), subject)
       /\ rewrite.op = "tupleToUserset" =>
            satisfied = \E t \in Stored(world, key.object, rewrite.tupleset) :
                           Holds(world, FarEnd(t, rewrite.computed), subject)
       /\ rewrite.op = "union" =>
            satisfied = \E i \in DOMAIN rewrite.children : part(rewrite.children[i])
       /\ rewrite.op = "intersection" =>
            satisfied = /\ rewrite.children # << >>
                        /\ \A i \in DOMAIN rewrite.children : part(rewrite.children[i])
       /\ rewrite.op = "exclusion" =>
            satisfied = (part(rewrite.base) /\ ~ part(rewrite.subtract))

Compositional(world) ==
    \A occurrence \in Occurrences :
      LET key == occurrence[1]
          rewrite == occurrence[2]
      IN /\ AskedIs(world, key, rewrite)
         /\ \A subject \in Subjects :
              /\ Satisfied(world, key, rewrite, subject) \in BOOLEAN
              /\ SatisfiedIs(world, key, rewrite, subject)

(* Whatever a rewrite grants holds.                                        *)
HoldsClosed(world) ==
    \A subject \in Subjects :
      /\ \A key \in Keys : Holds(world, key, subject) \in BOOLEAN
      /\ \A key \in DefinedKeys :
           Satisfied(world, key, RewriteOf(key), subject) => Holds(world, key, subject)

----------------------------------------------------------------------------
(* A rewrite that asks about ranked subproblems only, of lower rank than   *)
(* its own.                                                                *)
Settled(world, key, rewrite) ==
    \A asked \in Asked(world, key, rewrite) :
      Ranked(world, asked) /\ Rank(world, asked) < Rank(world, key)

(* Ranks go down, and a ranked subproblem holds only if it is granted.     *)
RankedGrounded(world) ==
    /\ \A key \in Keys : Rank(world, key) \in Nat
    /\ \A key \in DefinedKeys : Ranked(world, key) =>
         /\ Settled(world, key, RewriteOf(key))
         /\ \A subject \in Subjects :
              Holds(world, key, subject) => Satisfied(world, key, RewriteOf(key), subject)

(* What is subtracted is settled: it leads into no cycle, of any kind, and *)
(* so not back to the exclusion either.                                    *)
SubtractsSettled(world) ==
    \A occurrence \in Occurrences :
      occurrence[2].op = "exclusion"
        => Settled(world, occurrence[1], occurrence[2].subtract)

(* Holds is what the schema says, as far as the engine can find it out.    *)
Explained(world) ==
    /\ Compositional(world)
    /\ HoldsClosed(world)
    /\ RankedGrounded(world)
    /\ SubtractsSettled(world)

(* No chain of subproblems ends in a cycle.                                *)
Acyclic(world) == \A key \in Keys : Ranked(world, key)

----------------------------------------------------------------------------
(* The schema has a meaning in each of these worlds.                       *)
Interpreted(worlds) ==
    /\ RewritesClosed
    /\ \A world \in worlds : IsFiniteSet(world) /\ Explained(world)

(* They are the worlds that writes can bring about, or more.               *)
ClosedUnder(worlds, writes) ==
    /\ {} \in worlds
    /\ \A world \in worlds, write \in writes :
         (world \ write.remove) \cup write.add \in worlds

(* The subproblem that an entry of the cache answers.                      *)
KeyOfEntry(k) == RelationKey(k.object, k.relation)

=============================================================================
