----------------------------- MODULE MCMeaning -----------------------------
(***************************************************************************)
(* The equations of Meaning, solved by Semantics.                          *)
(***************************************************************************)
EXTENDS Meaning, Semantics

CONSTANT Worlds          \* the worlds that they are solved in

MCRewrites(key) ==
    IF Defines(Schema, key.object.type, key.relation) THEN PartsOf(RewriteOf(key)) ELSE {}

MCSatisfied(world, key, rewrite, subject) ==
    LET true == {k \in Keys : Holds(world, k, subject)}
    IN Grants(world, subject, key.object, key.relation, rewrite, true, true)

MCAsked(world, key, rewrite) == AsksFor(world, key.object, key.relation, rewrite)

MCRanks == [world \in Worlds |-> Ranks(Schema, Keys, world)]

MCRanked(world, key) == key \in DOMAIN MCRanks[world]

MCRank(world, key) ==
    IF MCRanked(world, key) THEN MCRanks[world][key] ELSE Cardinality(Keys)

=============================================================================
