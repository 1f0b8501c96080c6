--------------------------- MODULE MCMemoryStore ---------------------------
(***************************************************************************)
(* A small in-process store for TLC.  Two tuples share object, relation    *)
(* and key, and two a subject; of the last two, one has a separator in its *)
(* relation and the other in its identifier, and their keys are the same.  *)
(***************************************************************************)
EXTENDS MemoryStore

Mallory == Concrete(Object("user", "mallory"))

Members == Userset(Object("group", "eng"), "member")

Shared == Tuple(Object("folder", "eng"), "viewer", Members)

InRelation == Tuple(Object("document", "readme"), "old#viewer", Mallory)

InIdentifier == Tuple(Object("document", "readme#old"), "viewer", Mallory)

MCTuples ==
    {Tuple(Object("folder", "eng"), "viewer", Mallory), Shared, InRelation, InIdentifier}

ASSUME SomeKeysShared ==
    /\ InRelation # InIdentifier /\ Entry[InRelation] = Entry[InIdentifier]
    /\ OwnsKey(Shared)

=============================================================================
