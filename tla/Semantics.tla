----------------------------- MODULE Semantics -----------------------------
(***************************************************************************)
(* What a schema and a set of tuples mean: the reference that the engine's *)
(* answers are compared with.  A subproblem (object, relation) is true   *)
(* of a subject when the rewrite of the relation grants it, and nothing    *)
(* else is true: the least fixed point of the rewrites, in which a         *)
(* membership cycle grants nothing by itself.  Exclusion is not monotone;  *)
(* its negative part is taken from the other side of the alternating fixed *)
(* point (the well-founded model), which decides every subproblem as soon  *)
(* as no cycle of the data goes through what an exclusion subtracts.       *)
(*                                                                         *)
(* Only instances for TLC extend this module: the operators are recursive. *)
(***************************************************************************)
EXTENDS Relationships, FiniteSets

(* The rewrite holds if the subproblems of positive are true where they    *)
(* occur positively and those of negative where they are subtracted.       *)
RECURSIVE Grants(_, _, _, _, _, _, _)
Grants(world, subject, object, relation, rewrite, positive, negative) ==
    LET Sub(child, pos, neg) ==
          Grants(world, subject, object, relation, child, pos, neg)
        Stored(r) == {t \in world : KeyOf(t) = RelationKey(object, r)}
    IN CASE rewrite.op \in {"this", "nil"} ->
              \E t \in Stored(relation) :
                IF IsUserset(t.subject) THEN t.subject \in positive
                                        ELSE t.subject = subject
         [] rewrite.op = "computed" ->
              RelationKey(object, rewrite.relation) \in positive
         [] rewrite.op = "tupleToUserset" ->
              \E t \in Stored(rewrite.tupleset) :
                RelationKey(t.subject.object, rewrite.computed) \in positive
         [] rewrite.op = "union" ->
              \E i \in DOMAIN rewrite.children :
                Sub(rewrite.children[i], positive, negative)
         [] rewrite.op = "intersection" ->
              /\ rewrite.children # << >>
              /\ \A i \in DOMAIN rewrite.children :
                   Sub(rewrite.children[i], positive, negative)
         [] rewrite.op = "exclusion" ->
              /\ Sub(rewrite.base, positive, negative)
              /\ ~ Sub(rewrite.subtract, negative, positive)

Subproblems(schema, objects) ==
    UNION {{RelationKey(o, r) : r \in DOMAIN schema[o.type]} : o \in objects}

Consequences(schema, objects, world, subject, positive, negative) ==
    {key \in Subproblems(schema, objects) :
       Grants(world, subject, key.object, key.relation,
              Lookup(schema, key.object.type, key.relation), positive, negative)}

RECURSIVE LeastModel(_, _, _, _, _, _)
LeastModel(schema, objects, world, subject, positive, negative) ==
    LET next == Consequences(schema, objects, world, subject, positive, negative)
    IN IF next = positive
         THEN positive
         ELSE LeastModel(schema, objects, world, subject, next, negative)

RECURSIVE Alternate(_, _, _, _, _)
Alternate(schema, objects, world, subject, certain) ==
    LET possible == LeastModel(schema, objects, world, subject, {}, certain)
        next == LeastModel(schema, objects, world, subject, {}, possible)
    IN IF next = certain
         THEN certain
         ELSE Alternate(schema, objects, world, subject, next)

(* The subproblems that hold of the subject in a world.                    *)
TrueOf(schema, objects, world, subject) ==
    Alternate(schema, objects, world, subject, {})

(* When each subproblem is found to hold, if those in true are what holds. *)
RECURSIVE StagesFrom(_, _, _, _, _, _)
StagesFrom(schema, objects, world, subject, true, stages) ==
    LET next == Consequences(schema, objects, world, subject, DOMAIN stages, true)
        now == 1 + Cardinality(DOMAIN stages)
    IN IF next = DOMAIN stages
         THEN stages
         ELSE StagesFrom(schema, objects, world, subject, true,
                [key \in next |-> IF key \in DOMAIN stages THEN stages[key] ELSE now])

----------------------------------------------------------------------------
(* The subproblems below a subproblem.                                     *)

RECURSIVE PartsOf(_)
PartsOf(rewrite) ==
    {rewrite} \cup
    CASE rewrite.op \in {"union", "intersection"} ->
           UNION {PartsOf(rewrite.children[i]) : i \in DOMAIN rewrite.children}
      [] rewrite.op = "exclusion" -> PartsOf(rewrite.base) \cup PartsOf(rewrite.subtract)
      [] OTHER -> {}

(* The leaves of a rewrite, and what each of them asks about.              *)
AsksFor(world, object, relation, rewrite) ==
    LET Stored(r) == {t \in world : KeyOf(t) = RelationKey(object, r)}
        leaf(r) ==
          CASE r.op \in {"this", "nil"} ->
                 {t.subject : t \in {s \in Stored(relation) : IsUserset(s.subject)}}
            [] r.op = "computed" -> {RelationKey(object, r.relation)}
            [] r.op = "tupleToUserset" ->
                 {RelationKey(t.subject.object, r.computed) : t \in Stored(r.tupleset)}
            [] OTHER -> {}
    IN UNION {leaf(r) : r \in PartsOf(rewrite)}

(* The subproblems all of whose subproblems are in a set.                  *)
RestsOn(schema, keys, world, set) ==
    {key \in keys :
       Defines(schema, key.object.type, key.relation) =>
         AsksFor(world, key.object, key.relation,
                 Lookup(schema, key.object.type, key.relation)) \subseteq set}

(* The rank of every subproblem that leads to no cycle: above all that it  *)
(* leads to.                                                               *)
RECURSIVE RanksFrom(_, _, _, _)
RanksFrom(schema, keys, world, ranks) ==
    LET next == RestsOn(schema, keys, world, DOMAIN ranks)
        above == Cardinality(DOMAIN ranks)
    IN IF next = DOMAIN ranks
         THEN ranks
         ELSE RanksFrom(schema, keys, world,
                [key \in next |-> IF key \in DOMAIN ranks THEN ranks[key] ELSE above])

Ranks(schema, keys, world) == RanksFrom(schema, keys, world, [key \in {} |-> 0])

=============================================================================
