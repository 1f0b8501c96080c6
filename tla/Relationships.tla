--------------------------- MODULE Relationships ---------------------------
(***************************************************************************)
(* The data of the system: objects, subjects, relationship tuples and the  *)
(* rewrites a schema gives its relations (internal/storage/storage.go and  *)
(* internal/schema/schema.go).  Names are strings.  RelationKey is the     *)
(* object and the relation that a check is about; the text that key()      *)
(* builds of the two, and which different pairs may share, is Key of       *)
(* MemoryStore.                                                            *)
(***************************************************************************)
EXTENDS Naturals, Sequences

(* The Relation of a Subject that is a concrete object and not a userset. *)
NoRelation == ""

Object(type, id) == [type |-> type, id |-> id]

Concrete(object) == [object |-> object, relation |-> NoRelation]

Userset(object, relation) == [object |-> object, relation |-> relation]

IsUserset(subject) == subject.relation # NoRelation

Tuple(object, relation, subject) ==
    [object |-> object, relation |-> relation, subject |-> subject]

(* The key of the forward index, and of a subproblem of a check. *)
RelationKey(object, relation) == [object |-> object, relation |-> relation]

KeyOf(t) == RelationKey(t.object, t.relation)

----------------------------------------------------------------------------
(* Rewrites.  The children of Union and Intersection are sequences: they   *)
(* are evaluated in the order in which the schema lists them.              *)

This == [op |-> "this"]

ComputedUserset(relation) == [op |-> "computed", relation |-> relation]

TupleToUserset(tupleset, computed) ==
    [op |-> "tupleToUserset", tupleset |-> tupleset, computed |-> computed]

Union(children) == [op |-> "union", children |-> children]

Intersection(children) == [op |-> "intersection", children |-> children]

Exclusion(base, subtract) ==
    [op |-> "exclusion", base |-> base, subtract |-> subtract]

(* A relation whose Rewrite is nil: only stored tuples satisfy it. *)
NoRewrite == [op |-> "nil"]

----------------------------------------------------------------------------
(* A schema maps the name of an object type to its relations, and the name *)
(* of a relation to its rewrite.                                           *)

(* Lookup fails for an unknown type and for an unknown relation. *)
Defines(schema, type, relation) ==
    /\ type \in DOMAIN schema
    /\ relation \in DOMAIN schema[type]

Lookup(schema, type, relation) == schema[type][relation]

=============================================================================
