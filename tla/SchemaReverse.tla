--------------------------- MODULE SchemaReverse ---------------------------
(***************************************************************************)
(* The reverse analysis of a schema (internal/schema/reverse.go), by which *)
(* ListObjects walks from a subject to the objects it may reach.           *)
(***************************************************************************)
EXTENDS Relationships

(* The leaves of a rewrite that may make it true: all branches of a union  *)
(* and of an intersection, and the base of an exclusion.                   *)
RECURSIVE GrantingParts(_)
GrantingParts(rewrite) ==
    CASE rewrite.op \in {"union", "intersection"} ->
           UNION {GrantingParts(rewrite.children[i]) : i \in DOMAIN rewrite.children}
      [] rewrite.op = "exclusion" -> GrantingParts(rewrite.base)
      [] OTHER -> {rewrite}

(* The relations of the same object that a relation of the type refers to; *)
(* none for a relation that the type does not have.                        *)
RefersTo(schema, type, relation) ==
    IF Defines(schema, type, relation)
      THEN {part.relation : part \in {p \in GrantingParts(Lookup(schema, type, relation)) :
                                        p.op = "computed"}}
      ELSE {}

RECURSIVE ContributorsOf(_, _, _)
ContributorsOf(schema, type, relations) ==
    LET more == relations \cup UNION {RefersTo(schema, type, r) : r \in relations}
    IN IF more = relations THEN relations ELSE ContributorsOf(schema, type, more)

(* The relations whose satisfaction can make the permission true of the    *)
(* same object.                                                            *)
Contributors(schema, type, permission) ==
    IF type \in DOMAIN schema THEN ContributorsOf(schema, type, {permission}) ELSE {}

Walk(type, permission, tupleset) ==
    [objectType |-> type, permission |-> permission, tupleset |-> tupleset]

(* The edges of the schema that end in the relation: an object of the type *)
(* has the permission if the object at the far end of the tupleset has it. *)
WalksInto(schema, computed) ==
    UNION {UNION {{Walk(type, permission, part.tupleset) :
                     part \in {p \in GrantingParts(Lookup(schema, type, permission)) :
                                 p.op = "tupleToUserset" /\ p.computed = computed}} :
                  permission \in DOMAIN schema[type]} :
           type \in DOMAIN schema}

=============================================================================
