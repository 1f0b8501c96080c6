--------------------------- MODULE ReverseMeaning ---------------------------
(***************************************************************************)
(* What a walk over the reverse index has to reach, said of the data and   *)
(* without a queue, and the schemas and data for which that is all that a  *)
(* list has to know: equations that relate the reverse analysis            *)
(* (internal/schema/reverse.go) to the meaning of the schema.              *)
(***************************************************************************)
EXTENDS ListObjects

----------------------------------------------------------------------------
(* What is within reach of a subject.                                      *)

(* The permissions that other objects inherit from the object of a key.    *)
InheritedFrom(world, key) ==
    UNION {{RelationKey(edge.object, walk.permission) :
              edge \in {t \in world : /\ t.subject = Concrete(key.object)
                                      /\ walk.tupleset \in {NoRelation, t.relation}
                                      /\ t.object.type = walk.objectType}} :
           walk \in WalksTo(key.relation)}

IsInherited(world, key) == \E t \in world : key \in InheritedFrom(world, KeyOf(t))

(* What the subject of a tuple comes to: the relation, and what others     *)
(* inherit from it.  (Of a tuple that is written against a permission      *)
(* which its object also inherits, only the permission.)                   *)
GivenBy(world, t) ==
    {KeyOf(t)} \cup IF IsInherited(world, KeyOf(t)) THEN {}
                                                    ELSE InheritedFrom(world, KeyOf(t))

(* The subject, and the usersets of what it has come to.                   *)
Sources(subject, keys) ==
    {subject} \cup {Userset(key.object, key.relation) : key \in keys}

Beyond(world, sources) ==
    UNION {GivenBy(world, t) : t \in {u \in world : u.subject \in sources}}

(* What a subject comes to in a number of steps at most.                   *)
Within(world, subject, steps) ==
    LET within[n \in Nat] ==
          IF n = 0 THEN {}
                   ELSE within[n - 1] \cup Beyond(world, Sources(subject, within[n - 1]))
    IN within[steps]

(* "Candidate generation explores at most MaxDepth levels of reverse       *)
(* edges": in whatever order the store returns tuples, and although a      *)
(* relation that is met again is not followed again, a walk misses nothing *)
(* that is within so many levels of the subject.                           *)
WalkComplete ==
    \A c \in Calls :
      LET l == list[c]
      IN Verifying(c) \/ Listed(c) =>
           Proposed(l.request, Within(World(l.revision), l.request.subject, MaxDepth + 1))
             \subseteq l.candidates

----------------------------------------------------------------------------
(* When nothing that is allowed is out of reach.                           *)

(* A relation that only stored tuples grant.                               *)
IsDirect(key) == RewriteOf(key).op = "this"

(* The reverse analysis follows all that may grant a permission.  height   *)
(* is a function on the parts of rewrites that may grant, each with its    *)
(* subproblem; a part is higher than its own parts.                        *)
ReverseSound(height) ==
    /\ DOMAIN height \subseteq Occurrences
    /\ \A key \in Keys : /\ key \in DefinedKeys
                         /\ <<key, RewriteOf(key)>> \in DOMAIN height
                         /\ key.relation \in Contributing(key.object.type, key.relation)
    /\ \A occurrence \in DOMAIN height :
         LET key == occurrence[1]
             rewrite == occurrence[2]
             Under(part) == /\ <<key, part>> \in DOMAIN height
                            /\ height[<<key, part>>] < height[occurrence]
         IN /\ height[occurrence] \in Nat
            /\ rewrite.op \in {"this", "computed", "tupleToUserset",
                               "union", "intersection", "exclusion"}
            /\ rewrite.op = "computed" =>
                 Contributing(key.object.type, rewrite.relation)
                   \subseteq Contributing(key.object.type, key.relation)
            /\ rewrite.op = "tupleToUserset" =>
                 \E walk \in WalksTo(rewrite.computed) :
                   /\ walk.objectType = key.object.type
                   /\ walk.permission = key.relation
                   /\ walk.tupleset = rewrite.tupleset
            /\ rewrite.op \in {"union", "intersection"} =>
                 \A i \in DOMAIN rewrite.children : Under(rewrite.children[i])
            /\ rewrite.op = "exclusion" => Under(rewrite.base)
    /\ \A t \in Tuples : \A walk \in WalksTo(t.relation) : \A key \in Keys :
         key.object.type = walk.objectType /\ key.relation = walk.permission
           => ~ IsDirect(key)

(* The walk follows stored relations: groups are made of them, objects     *)
(* inherit them, and from plain objects.  (The walk does not know what a   *)
(* permission that is computed on the way grants: see NothingHidden.)      *)
IsPlain(world, height) ==
    /\ \A t \in world : IsUserset(t.subject) =>
         t.subject = KeyOfMember(t.subject) /\ IsDirect(KeyOfMember(t.subject))
    /\ \A occurrence \in DOMAIN height : occurrence[2].op = "tupleToUserset" =>
         \A t \in Stored(world, occurrence[1].object, occurrence[2].tupleset) :
           /\ t.subject = Concrete(t.subject.object)
           /\ IsDirect(FarEnd(t, occurrence[2].computed))

(* No chain of memberships is longer than the limit.                       *)
IsShallow(world, subject) ==
    Within(world, subject, MaxDepth + 2) \subseteq Within(world, subject, MaxDepth + 1)

(* The objects of a type have the permission of a request, or do not.      *)
ObjectsKnown ==
    \A request \in Requests : \A object \in Range(Ordered) :
      object.type = request.type => RelationKey(object, request.permission) \in Keys

=============================================================================
