---------------------------- MODULE ExpandProofs ----------------------------
(***************************************************************************)
(* Theorems about Expand: for every schema and data without a cycle        *)
(* through what an exclusion subtracts, a tree decides what Holds does,    *)
(* wherever it cuts a cycle; and for every schema and data, no cycle is    *)
(* too deep.                                                               *)
(*                                                                         *)
(* Both are inductions over the relations that are not yet on the path     *)
(* from the root and, for one relation, over the height of the rewrite.    *)
(***************************************************************************)
EXTENDS TreeMeaning, FiniteSetTheorems, WellFoundedInduction, TLAPS

----------------------------------------------------------------------------
(* Natural numbers, sequences of the members of a set, and nodes.          *)

LEMMA LeastNatural ==
    ASSUME NEW T, T \subseteq Nat, T # {}
    PROVE  \E n \in T : \A m \in T : n <= m
<1> DEFINE R == OpToRel(<, Nat)
<1>1. IsWellFoundedOn(R, Nat)
  BY NatLessThanWellFounded
<1>2. \A x, y \in Nat : x < y => <<x, y>> \in R
  BY DEF OpToRel
<1> HIDE DEF R
<1>3. PICK n \in T : \A m \in T : ~ (<<m, n>> \in R)
  BY <1>1, WFMin
<1>4. \A m \in T : m \in Nat /\ n \in Nat /\ ~ (m < n)
  BY <1>2, <1>3
<1>5. \A m \in T : n <= m
  BY <1>4
<1> QED
  BY <1>5

(* Complete induction, with a set for the predicate.                       *)
LEMMA InductFully ==
    ASSUME NEW S, \A n \in Nat : (\A m \in Nat : m < n => m \in S) => n \in S
    PROVE  Nat \subseteq S
<1> DEFINE T == Nat \ S
<1> SUFFICES ASSUME T # {} PROVE FALSE
  OBVIOUS
<1>1. T \subseteq Nat
  OBVIOUS
<1> HIDE DEF T
<1>2. PICK n \in T : \A m \in T : n <= m
  BY <1>1, LeastNatural
<1>3. n \in Nat /\ n \notin S
  BY <1>2 DEF T
<1>4. \A m \in Nat : m < n => m \notin T
  BY <1>1, <1>2
<1> QED
  BY <1>3, <1>4 DEF T

(* SetToSeq lists the members of a finite set.                             *)
LEMMA SetListed ==
    ASSUME NEW S, IsFiniteSet(S)
    PROVE  /\ DOMAIN SetToSeq(S) \subseteq Nat \ {0}
           /\ ToSet(SetToSeq(S)) = S
<1> DEFINE n == Cardinality(S)
           s == SetToSeq(S)
<1>1. n \in Nat /\ ExistsBijection(1..n, S)
  BY FS_CardinalityType
<1>2. PICK f \in Bijection(1..n, S) : TRUE
  BY <1>1 DEF ExistsBijection
<1>3. f \in [1..n -> S] /\ IsInjective(f)
  BY <1>2 DEF Bijection, Injection, IsInjective
<1>4. s \in [1..n -> S] /\ IsInjective(s)
  BY <1>3 DEF SetToSeq
<1>5. s \in Injection(1..n, S)
  BY <1>4 DEF Injection, IsInjective
<1>6. IsFiniteSet(1..n) /\ Cardinality(1..n) = n
  BY <1>1, FS_Interval
<1>7. s \in Surjection(1..n, S)
  BY <1>5, <1>6, FS_Injection
<1>8. {s[i] : i \in 1..n} = S
  BY <1>4, <1>7 DEF Surjection
<1> HIDE DEF s
<1> QED
  BY <1>1, <1>4, <1>8 DEF ToSet, s

(* A node is its own unless a child has failed.                            *)
LEMMA NodeIs ==
    ASSUME NEW node, DOMAIN node.children \subseteq Nat \ {0}, ~ IsFailed(node)
    PROVE  /\ IsFailed(FirstError(node))
                <=> \E i \in DOMAIN node.children : IsFailed(node.children[i])
           /\ ~ IsFailed(FirstError(node)) => FirstError(node) = node
<1> DEFINE d == DOMAIN node.children
           failing == {i \in d : IsFailed(node.children[i])}
           Fails(i) == i \in d /\ IsFailed(node.children[i])
           first == CHOOSE i \in d : Fails(i) /\ \A j \in 1..(i - 1) : ~ Fails(j)
<1>1. CASE \E i \in d : Fails(i)
  <2>1. failing # {} /\ failing \subseteq Nat
    BY <1>1
  <2> HIDE DEF failing
  <2>2. PICK i \in failing : \A j \in failing : i <= j
    BY <2>1, LeastNatural
  <2>3. i \in d /\ Fails(i) /\ i \in Nat
    BY <2>1, <2>2 DEF failing
  <2>4. \A j \in 1..(i - 1) : ~ Fails(j)
    <3> SUFFICES ASSUME NEW j \in 1..(i - 1), Fails(j) PROVE FALSE
      OBVIOUS
    <3>1. j \in failing
      BY DEF failing
    <3> QED
      BY <2>2, <2>3, <3>1
  <2>5. \E k \in d : Fails(k) /\ \A j \in 1..(k - 1) : ~ Fails(j)
    BY <2>3, <2>4
  <2>6. first \in d /\ Fails(first)
    BY <2>5
  <2>7. FirstError(node) = node.children[first]
    BY <1>1 DEF FirstError
  <2> QED
    BY <2>6, <2>7
<1>2. CASE ~ \E i \in d : Fails(i)
  <2>1. FirstError(node) = node
    BY <1>2 DEF FirstError
  <2> QED
    BY <1>2, <2>1
<1> QED
  BY <1>1, <1>2

----------------------------------------------------------------------------
(* The shape of a tree: whether it has failed, and what it shows, in terms *)
(* of the trees below it.                                                  *)

Tree(world, key, path) == TreeOfKey(world, key, Cardinality(path), path)

Part(world, key, rewrite, path) ==
    TreeOfRewrite(world, key, rewrite, Cardinality(path), path \cup {key})

(* expandRewrite is called for a relation, which is not yet on the path.   *)
IsPending(world, key, rewrite, path) ==
    /\ IsFiniteSet(DefinedKeys) /\ IsFiniteSet(world) /\ TreesUnfold(world)
    /\ key \in Keys /\ rewrite \in Rewrites(key)
    /\ path \in SUBSET DefinedKeys /\ key \notin path

LEMMA PartIs ==
    ASSUME NEW world, NEW key, NEW rewrite, NEW path, IsPending(world, key, rewrite, path)
    PROVE  /\ Part(world, key, rewrite, path)
                = ExpandRewrite(world, key, rewrite, Cardinality(path), path \cup {key})
           /\ ~ IsFailed(Part(world, key, rewrite, path)) => \A subject \in Subjects :
                Shows(Part(world, key, rewrite, path), subject)
                  <=> Reads(Part(world, key, rewrite, path), subject)
<1>1. /\ key \in Keys /\ path \in SUBSET DefinedKeys /\ rewrite \in Rewrites(key)
      /\ TreesUnfold(world)
  BY DEF IsPending
<1> QED
  BY <1>1 DEF TreesUnfold, IsDrawn, Part

LEMMA BelowIs ==
    ASSUME NEW world, NEW key, NEW rewrite, NEW path, IsPending(world, key, rewrite, path),
           NEW asked
    PROVE  TreeOfKey(world, asked, Cardinality(path) + 1, path \cup {key})
             = Tree(world, asked, path \cup {key})
<1>1. IsFiniteSet(path)
  BY FS_Subset DEF IsPending
<1>2. Cardinality(path \cup {key}) = Cardinality(path) + 1
  BY <1>1, FS_AddElement DEF IsPending
<1> QED
  BY <1>2 DEF Tree

LEMMA StoredFinite ==
    ASSUME NEW world, IsFiniteSet(world), NEW object, NEW relation
    PROVE  /\ IsFiniteSet(Stored(world, object, relation))
           /\ IsFiniteSet({t \in Stored(world, object, relation) : IsUserset(t.subject)})
<1>1. Stored(world, object, relation) \in SUBSET world
  BY DEF Stored
<1>2. IsFiniteSet(Stored(world, object, relation))
  BY <1>1, FS_Subset
<1>3. {t \in Stored(world, object, relation) : IsUserset(t.subject)}
        \in SUBSET Stored(world, object, relation)
  OBVIOUS
<1> QED
  BY <1>2, <1>3, FS_Subset

LEMMA NodeFields ==
    ASSUME NEW type, NEW key, NEW subjects, NEW children
    PROVE  /\ Node(type, key, subjects, children).type = type
           /\ Node(type, key, subjects, children).subjects = subjects
           /\ Node(type, key, subjects, children).children = children
BY DEF Node

Types == {"leaf", "tupleset", "union", "intersection", "exclusion"}

(* FirstError applied to a node that has been put together.                *)
LEMMA NodeTree ==
    ASSUME NEW type \in Types, NEW key, NEW subjects, NEW children,
           DOMAIN children \subseteq Nat \ {0},
           NEW tree, tree = FirstError(Node(type, key, subjects, children))
    PROVE  /\ IsFailed(tree) <=> \E i \in DOMAIN children : IsFailed(children[i])
           /\ ~ IsFailed(tree) => /\ tree.type = type
                                  /\ tree.subjects = subjects
                                  /\ tree.children = children
<1> DEFINE node == Node(type, key, subjects, children)
<1>1. node.type = type /\ node.subjects = subjects /\ node.children = children
  BY NodeFields
<1>2. ~ IsFailed(node)
  BY <1>1 DEF IsFailed, Types
<1> HIDE DEF node
<1>3. DOMAIN node.children \subseteq Nat \ {0}
  BY <1>1
<1>4. tree = FirstError(node)
  BY DEF node
<1>5. /\ IsFailed(FirstError(node))
           <=> \E i \in DOMAIN node.children : IsFailed(node.children[i])
      /\ ~ IsFailed(FirstError(node)) => FirstError(node) = node
  BY <1>2, <1>3, NodeIs
<1> QED
  BY <1>1, <1>4, <1>5

LEMMA LeafShape ==
    ASSUME NEW world, NEW key, NEW rewrite, NEW path, IsPending(world, key, rewrite, path),
           rewrite.op = "this"
    PROVE  LET part == Part(world, key, rewrite, path)
               below(t) == Tree(world, KeyOfMember(t.subject), path \cup {key})
               stored == Stored(world, key.object, key.relation)
           IN /\ IsFailed(part) <=> \E t \in stored : IsUserset(t.subject) /\ IsFailed(below(t))
              /\ ~ IsFailed(part) => \A subject \in Subjects :
                   Shows(part, subject) <=> \E t \in stored :
                     t.subject = subject \/ (IsUserset(t.subject) /\ Shows(below(t), subject))
<1> DEFINE part == Part(world, key, rewrite, path)
           below(t) == Tree(world, KeyOfMember(t.subject), path \cup {key})
           stored == Stored(world, key.object, key.relation)
           usersets == {t \in stored : IsUserset(t.subject)}
           rows == SetToSeq(stored)
           sets == SetToSeq(usersets)
           subjects == SubjectsOf(rows)
           children == [i \in DOMAIN sets |->
                          TreeOfKey(world, KeyOfMember(sets[i].subject),
                                    Cardinality(path) + 1, path \cup {key})]
<1>0. part = ExpandRewrite(world, key, rewrite, Cardinality(path), path \cup {key})
  BY PartIs
<1>1. IsFiniteSet(stored) /\ IsFiniteSet(usersets)
  BY StoredFinite DEF IsPending
<1>2. part = FirstError(Node("leaf", key, subjects, children))
  BY <1>0 DEF ExpandRewrite, Leaf, Rows
<1>3. ToSet(rows) = stored /\ ToSet(sets) = usersets /\ DOMAIN sets \subseteq Nat \ {0}
  BY <1>1, SetListed
<1>4. \A i \in DOMAIN sets : children[i] = below(sets[i])
  BY BelowIs
<1>5. \A t : t \in usersets <=> \E i \in DOMAIN sets : sets[i] = t
  BY <1>3 DEF ToSet
<1>6. \A subject : subject \in ToSet(subjects) <=> \E t \in stored : t.subject = subject
  BY <1>3 DEF ToSet, SubjectsOf
<1>7. DOMAIN children = DOMAIN sets
  OBVIOUS
<1>8. \A t : t \in usersets <=> t \in stored /\ IsUserset(t.subject)
  OBVIOUS
<1>9. ~ IsFailed(part) => \A subject \in Subjects : (Shows(part, subject) <=> Reads(part, subject))
  BY PartIs
<1> HIDE DEF part, below, stored, usersets, rows, sets, subjects, children
<1>10. /\ IsFailed(part) <=> \E i \in DOMAIN children : IsFailed(children[i])
       /\ ~ IsFailed(part) => /\ part.type = "leaf"
                              /\ part.subjects = subjects
                              /\ part.children = children
  BY <1>2, <1>3, <1>7, NodeTree DEF Types
<1>11. IsFailed(part) <=> \E t \in stored : IsUserset(t.subject) /\ IsFailed(below(t))
  BY <1>4, <1>5, <1>7, <1>8, <1>10
<1>12. ASSUME ~ IsFailed(part), NEW subject \in Subjects
       PROVE  Shows(part, subject) <=> \E t \in stored :
                t.subject = subject \/ (IsUserset(t.subject) /\ Shows(below(t), subject))
  <2>1. Reads(part, subject)
          <=> (subject \in ToSet(subjects)
               \/ \E i \in DOMAIN children : Shows(children[i], subject))
    BY <1>10, <1>12 DEF Reads
  <2>2. (\E i \in DOMAIN children : Shows(children[i], subject))
          <=> \E t \in usersets : Shows(below(t), subject)
    BY <1>4, <1>5, <1>7
  <2> QED
    BY <1>6, <1>8, <1>9, <1>12, <2>1, <2>2
<1> QED
  BY <1>11, <1>12 DEF part, below, stored

LEMMA ComputedShape ==
    ASSUME NEW world, NEW key, NEW rewrite, NEW path, IsPending(world, key, rewrite, path),
           rewrite.op = "computed"
    PROVE  Part(world, key, rewrite, path)
             = Tree(world, RelationKey(key.object, rewrite.relation), path \cup {key})
<1> DEFINE part == Part(world, key, rewrite, path)
           asked == RelationKey(key.object, rewrite.relation)
<1>1. part = ExpandRewrite(world, key, rewrite, Cardinality(path), path \cup {key})
  BY PartIs
<1>2. part = TreeOfKey(world, asked, Cardinality(path) + 1, path \cup {key})
  BY <1>1 DEF ExpandRewrite
<1> QED
  BY <1>2, BelowIs

LEMMA TuplesetShape ==
    ASSUME NEW world, NEW key, NEW rewrite, NEW path, IsPending(world, key, rewrite, path),
           rewrite.op = "tupleToUserset"
    PROVE  LET part == Part(world, key, rewrite, path)
               below(t) == Tree(world, FarEnd(t, rewrite.computed), path \cup {key})
               stored == Stored(world, key.object, rewrite.tupleset)
           IN /\ IsFailed(part) <=> \E t \in stored : IsFailed(below(t))
              /\ ~ IsFailed(part) => \A subject \in Subjects :
                   Shows(part, subject) <=> \E t \in stored : Shows(below(t), subject)
<1> DEFINE part == Part(world, key, rewrite, path)
           below(t) == Tree(world, FarEnd(t, rewrite.computed), path \cup {key})
           stored == Stored(world, key.object, rewrite.tupleset)
           rows == SetToSeq(stored)
           children == [i \in DOMAIN rows |->
                          TreeOfKey(world, FarEnd(rows[i], rewrite.computed),
                                    Cardinality(path) + 1, path \cup {key})]
<1>0. part = ExpandRewrite(world, key, rewrite, Cardinality(path), path \cup {key})
  BY PartIs
<1>1. IsFiniteSet(stored)
  BY StoredFinite DEF IsPending
<1>2. part = FirstError(Node("tupleset", RelationKey(key.object, rewrite.tupleset),
                             << >>, children))
  BY <1>0 DEF ExpandRewrite, Rows
<1>3. ToSet(rows) = stored /\ DOMAIN rows \subseteq Nat \ {0}
  BY <1>1, SetListed
<1>4. \A i \in DOMAIN rows : children[i] = below(rows[i])
  BY BelowIs
<1>5. \A t : t \in stored <=> \E i \in DOMAIN rows : rows[i] = t
  BY <1>3 DEF ToSet
<1>6. DOMAIN children = DOMAIN rows
  OBVIOUS
<1>7. ~ IsFailed(part) => \A subject \in Subjects : (Shows(part, subject) <=> Reads(part, subject))
  BY PartIs
<1> HIDE DEF part, below, stored, rows, children
<1>8. /\ IsFailed(part) <=> \E i \in DOMAIN children : IsFailed(children[i])
      /\ ~ IsFailed(part) => part.type = "tupleset" /\ part.children = children
  BY <1>2, <1>3, <1>6, NodeTree DEF Types
<1>9. IsFailed(part) <=> \E t \in stored : IsFailed(below(t))
  BY <1>4, <1>5, <1>6, <1>8
<1>10. ASSUME ~ IsFailed(part), NEW subject \in Subjects
       PROVE  Shows(part, subject) <=> \E t \in stored : Shows(below(t), subject)
  <2>1. Reads(part, subject) <=> \E i \in DOMAIN children : Shows(children[i], subject)
    BY <1>8, <1>10 DEF Reads
  <2> QED
    BY <1>4, <1>5, <1>6, <1>7, <1>10, <2>1
<1> QED
  BY <1>9, <1>10 DEF part, below, stored

(* Unions, intersections and exclusions have their parts below them.       *)
LEMMA PartsShape ==
    ASSUME NEW world, NEW key, NEW rewrite, NEW path, IsPending(world, key, rewrite, path),
           NEW parts, DOMAIN parts \subseteq Nat \ {0}, NEW type \in Types,
           \/ rewrite.op \in {"union", "intersection"} /\ type = rewrite.op
                /\ parts = rewrite.children
           \/ rewrite.op = "exclusion" /\ type = rewrite.op /\ parts = Halves(rewrite)
    PROVE  LET part == Part(world, key, rewrite, path)
               below(i) == Part(world, key, parts[i], path)
           IN /\ IsFailed(part) <=> \E i \in DOMAIN parts : IsFailed(below(i))
              /\ ~ IsFailed(part) =>
                   /\ part.type = type
                   /\ part.children = [i \in DOMAIN parts |-> below(i)]
<1> DEFINE part == Part(world, key, rewrite, path)
           children == [i \in DOMAIN parts |->
                          TreeOfRewrite(world, key, parts[i], Cardinality(path),
                                        path \cup {key})]
<1>1. part = ExpandRewrite(world, key, rewrite, Cardinality(path), path \cup {key})
  BY PartIs
<1>2. part = FirstError(Node(type, key, << >>, children))
  <2>1. CASE rewrite.op = "exclusion"
    BY <1>1, <2>1 DEF ExpandRewrite
  <2>2. CASE rewrite.op \in {"union", "intersection"}
    BY <1>1, <2>2 DEF ExpandRewrite
  <2> QED
    BY <2>1, <2>2
<1>3. DOMAIN children = DOMAIN parts
  OBVIOUS
<1>4. children = [i \in DOMAIN parts |-> Part(world, key, parts[i], path)]
  BY DEF Part
<1> HIDE DEF part, children
<1>5. /\ IsFailed(part) <=> \E i \in DOMAIN children : IsFailed(children[i])
      /\ ~ IsFailed(part) => part.type = type /\ part.children = children
  BY <1>2, <1>3, NodeTree
<1>6. \A i \in DOMAIN parts : children[i] = Part(world, key, parts[i], path)
  BY <1>4
<1> QED
  BY <1>3, <1>4, <1>5, <1>6 DEF part

(* The children of a union or an intersection are parts of it.             *)
LEMMA ChildrenAre ==
    ASSUME RewritesClosed, NEW key \in Keys, NEW rewrite \in Rewrites(key),
           rewrite.op \in {"union", "intersection"}
    PROVE  /\ DOMAIN rewrite.children \subseteq Nat \ {0}
           /\ \A i \in DOMAIN rewrite.children : rewrite.children[i] \in Rewrites(key)
<1>1. rewrite.children \in Seq(Rewrites(key))
  BY DEF RewritesClosed
<1>2. DOMAIN rewrite.children = 1..Len(rewrite.children) /\ Len(rewrite.children) \in Nat
  BY <1>1
<1> QED
  BY <1>1, <1>2

LEMMA UnionShape ==
    ASSUME RewritesClosed,
           NEW world, NEW key, NEW rewrite, NEW path, IsPending(world, key, rewrite, path),
           rewrite.op = "union"
    PROVE  LET part == Part(world, key, rewrite, path)
               below(i) == Part(world, key, rewrite.children[i], path)
           IN /\ IsFailed(part) <=> \E i \in DOMAIN rewrite.children : IsFailed(below(i))
              /\ ~ IsFailed(part) => \A subject \in Subjects :
                   Shows(part, subject)
                     <=> \E i \in DOMAIN rewrite.children : Shows(below(i), subject)
<1> DEFINE part == Part(world, key, rewrite, path)
           parts == rewrite.children
<1>1. DOMAIN parts \subseteq Nat \ {0}
  BY ChildrenAre DEF IsPending
<1>2. /\ IsFailed(part) <=> \E i \in DOMAIN parts : IsFailed(Part(world, key, parts[i], path))
      /\ ~ IsFailed(part) =>
           /\ part.type = "union"
           /\ part.children = [i \in DOMAIN parts |-> Part(world, key, parts[i], path)]
  BY <1>1, PartsShape DEF Types
<1>3. ~ IsFailed(part) => \A subject \in Subjects : (Shows(part, subject) <=> Reads(part, subject))
  BY PartIs
<1> HIDE DEF part
<1>4. ASSUME ~ IsFailed(part), NEW subject \in Subjects
      PROVE  Shows(part, subject)
               <=> \E i \in DOMAIN parts : Shows(Part(world, key, parts[i], path), subject)
  <2>1. Reads(part, subject)
          <=> \E i \in DOMAIN part.children : Shows(part.children[i], subject)
    BY <1>2, <1>4 DEF Reads
  <2> QED
    BY <1>2, <1>3, <1>4, <2>1
<1> QED
  BY <1>2, <1>4 DEF part

LEMMA IntersectionShape ==
    ASSUME RewritesClosed,
           NEW world, NEW key, NEW rewrite, NEW path, IsPending(world, key, rewrite, path),
           rewrite.op = "intersection"
    PROVE  LET part == Part(world, key, rewrite, path)
               below(i) == Part(world, key, rewrite.children[i], path)
           IN /\ IsFailed(part) <=> \E i \in DOMAIN rewrite.children : IsFailed(below(i))
              /\ ~ IsFailed(part) => \A subject \in Subjects :
                   Shows(part, subject)
                     <=> /\ rewrite.children # << >>
                         /\ \A i \in DOMAIN rewrite.children : Shows(below(i), subject)
<1> DEFINE part == Part(world, key, rewrite, path)
           parts == rewrite.children
<1>1. DOMAIN parts \subseteq Nat \ {0}
  BY ChildrenAre DEF IsPending
<1>2. /\ IsFailed(part) <=> \E i \in DOMAIN parts : IsFailed(Part(world, key, parts[i], path))
      /\ ~ IsFailed(part) =>
           /\ part.type = "intersection"
           /\ part.children = [i \in DOMAIN parts |-> Part(world, key, parts[i], path)]
  BY <1>1, PartsShape DEF Types
<1>3. ~ IsFailed(part) => \A subject \in Subjects : (Shows(part, subject) <=> Reads(part, subject))
  BY PartIs
<1>4. ~ IsFailed(part) => (part.children = << >> <=> rewrite.children = << >>)
  <2>1. rewrite.children \in Seq(Rewrites(key))
    BY DEF RewritesClosed, IsPending
  <2>2. DOMAIN parts = 1..Len(parts) /\ Len(parts) \in Nat
    BY <2>1
  <2>3. [i \in DOMAIN parts |-> Part(world, key, parts[i], path)]
          \in Seq({Part(world, key, parts[i], path) : i \in DOMAIN parts})
    BY <2>2
  <2> QED
    BY <1>2, <2>1, <2>2, <2>3
<1> HIDE DEF part
<1>5. ASSUME ~ IsFailed(part), NEW subject \in Subjects
      PROVE  Shows(part, subject)
               <=> /\ parts # << >>
                   /\ \A i \in DOMAIN parts : Shows(Part(world, key, parts[i], path), subject)
  <2>1. Reads(part, subject)
          <=> /\ part.children # << >>
              /\ \A i \in DOMAIN part.children : Shows(part.children[i], subject)
    BY <1>2, <1>5 DEF Reads
  <2> QED
    BY <1>2, <1>3, <1>4, <1>5, <2>1
<1> QED
  BY <1>2, <1>5 DEF part

LEMMA ExclusionShape ==
    ASSUME NEW world, NEW key, NEW rewrite, NEW path, IsPending(world, key, rewrite, path),
           rewrite.op = "exclusion"
    PROVE  LET part == Part(world, key, rewrite, path)
               base == Part(world, key, rewrite.base, path)
               subtract == Part(world, key, rewrite.subtract, path)
           IN /\ IsFailed(part) <=> IsFailed(base) \/ IsFailed(subtract)
              /\ ~ IsFailed(part) => \A subject \in Subjects :
                   Shows(part, subject) <=> Shows(base, subject) /\ ~ Shows(subtract, subject)
<1> DEFINE part == Part(world, key, rewrite, path)
           parts == Halves(rewrite)
           below(i) == Part(world, key, parts[i], path)
<1>1. /\ DOMAIN parts = {1, 2} /\ DOMAIN parts \subseteq Nat \ {0}
      /\ parts[1] = rewrite.base /\ parts[2] = rewrite.subtract
  BY DEF Halves
<1> HIDE DEF parts
<1>2. /\ IsFailed(part) <=> \E i \in DOMAIN parts : IsFailed(below(i))
      /\ ~ IsFailed(part) =>
           /\ part.type = "exclusion"
           /\ part.children = [i \in DOMAIN parts |-> below(i)]
  BY <1>1, PartsShape DEF Types, parts
<1>3. ~ IsFailed(part) => \A subject \in Subjects : (Shows(part, subject) <=> Reads(part, subject))
  BY PartIs
<1> HIDE DEF part
<1>4. ASSUME ~ IsFailed(part), NEW subject \in Subjects
      PROVE  Shows(part, subject) <=> Shows(below(1), subject) /\ ~ Shows(below(2), subject)
  <2>1. Reads(part, subject)
          <=> Shows(part.children[1], subject) /\ ~ Shows(part.children[2], subject)
    BY <1>2, <1>4 DEF Reads
  <2> QED
    BY <1>1, <1>2, <1>3, <1>4, <2>1
<1> QED
  BY <1>1, <1>2, <1>4 DEF part

----------------------------------------------------------------------------
(* What a tree decides.  Whatever it shows holds.  What holds it shows,    *)
(* unless it needs a relation on the path; it does not if that is above it *)
(* for an exclusion, or came to hold after it.                             *)

Decides(tree, subject, truth, sure) ==
    ~ IsFailed(tree) => /\ Shows(tree, subject) => truth
                        /\ sure /\ truth => Shows(tree, subject)

Beneath(world, path, key) == \A v \in path : Level(world, key) <= Level(world, v)

IsFree(world, path, key, subject) ==
    \A v \in path :
      \/ Level(world, key) < Level(world, v)
      \/ Holds(world, v, subject) => Stage(world, key, subject) < Stage(world, v, subject)

IsLow(world, key, rewrite) ==
    \A asked \in Asked(world, key, rewrite) : Level(world, asked) < Level(world, key)

IsSure(world, path, key, rewrite, subject) ==
    \/ IsLow(world, key, rewrite)
    \/ \A v \in path \cup {key} :
         \/ Level(world, key) < Level(world, v)
         \/ Holds(world, v, subject) =>
              Due(world, key, rewrite, subject) < Stage(world, v, subject)

KeyRight(world, subject, key, path) ==
    Beneath(world, path, key) =>
      Decides(Tree(world, key, path), subject,
              Holds(world, key, subject), IsFree(world, path, key, subject))

PartRight(world, subject, key, rewrite, path) ==
    Decides(Part(world, key, rewrite, path), subject,
            Satisfied(world, key, rewrite, subject),
            IsSure(world, path, key, rewrite, subject))

(* A relation is drawn, and what is below it decides as it should.         *)
IsDrawing(world, subject, key, path) ==
    /\ RewritesClosed /\ TreesExplained(world) /\ TreesUnfold(world)
    /\ IsFiniteSet(DefinedKeys)
    /\ subject \in Subjects /\ ~ IsUserset(subject)
    /\ key \in DefinedKeys /\ path \in SUBSET DefinedKeys /\ key \notin path
    /\ Beneath(world, path, key)
    /\ \A asked \in Keys : KeyRight(world, subject, asked, path \cup {key})

LEMMA OccurrenceIs ==
    ASSUME NEW world, TreesExplained(world), NEW subject \in Subjects,
           NEW key \in Keys, NEW rewrite \in Rewrites(key)
    PROVE  /\ AskedIs(world, key, rewrite)
           /\ Asked(world, key, rewrite) \subseteq Keys
           /\ Satisfied(world, key, rewrite, subject) \in BOOLEAN
           /\ SatisfiedIs(world, key, rewrite, subject)
           /\ \A asked \in Asked(world, key, rewrite) :
                Level(world, asked) <= Level(world, key)
           /\ rewrite.op = "exclusion" => IsLow(world, key, rewrite.subtract)
           /\ Satisfied(world, key, rewrite, subject) =>
                /\ GrantedInTime(world, key, rewrite, subject)
                /\ Due(world, key, rewrite, subject) \in Nat
<1> DEFINE occurrence == <<key, rewrite>>
<1>1. occurrence \in Occurrences /\ occurrence[1] = key /\ occurrence[2] = rewrite
  BY DEF Occurrences
<1> HIDE DEF occurrence
<1>2. /\ AskedIs(world, key, rewrite)
      /\ Satisfied(world, key, rewrite, subject) \in BOOLEAN
      /\ SatisfiedIs(world, key, rewrite, subject)
  BY <1>1 DEF TreesExplained, Compositional
<1>3. Asked(world, key, rewrite) \subseteq Keys
  BY <1>2 DEF AskedIs
<1>4. /\ \A asked \in Asked(world, key, rewrite) : Level(world, asked) <= Level(world, key)
      /\ rewrite.op = "exclusion" => IsLow(world, key, rewrite.subtract)
  BY <1>1 DEF TreesExplained, Stratified, IsLow
<1>5. Satisfied(world, key, rewrite, subject) => GrantedInTime(world, key, rewrite, subject)
  BY <1>1 DEF TreesExplained, Founded
<1> QED
  BY <1>2, <1>3, <1>4, <1>5 DEF GrantedInTime

(* What is asked about is free as far as the rewrite that asks is sure.    *)
LEMMA AskedRight ==
    ASSUME NEW world, NEW subject, NEW key, NEW path, IsDrawing(world, subject, key, path),
           NEW rewrite \in Rewrites(key), NEW asked \in Asked(world, key, rewrite),
           NEW tree, tree = Tree(world, asked, path \cup {key}), ~ IsFailed(tree)
    PROVE  /\ Shows(tree, subject) => Holds(world, asked, subject)
           /\ /\ IsSure(world, path, key, rewrite, subject)
              /\ Satisfied(world, key, rewrite, subject)
              /\ Holds(world, asked, subject)
              /\ Stage(world, asked, subject) <= Due(world, key, rewrite, subject)
              => Shows(tree, subject)
<1>1. /\ key \in DefinedKeys /\ key \in Keys /\ path \subseteq Keys /\ subject \in Subjects
      /\ TreesExplained(world) /\ Beneath(world, path, key)
      /\ \A k \in Keys : KeyRight(world, subject, k, path \cup {key})
  BY DEF IsDrawing, DefinedKeys
<1>2. /\ asked \in Keys /\ Level(world, asked) <= Level(world, key)
      /\ Satisfied(world, key, rewrite, subject) => Due(world, key, rewrite, subject) \in Nat
  BY <1>1, OccurrenceIs
<1>3. \A k \in Keys : Level(world, k) \in Nat /\ Stage(world, k, subject) \in Nat
  BY <1>1 DEF TreesExplained, Stratified, Founded
<1>4. \A v \in path \cup {key} : v \in Keys /\ Level(world, key) <= Level(world, v)
  BY <1>1, <1>3 DEF Beneath
<1>5. Beneath(world, path \cup {key}, asked)
  BY <1>1, <1>2, <1>3, <1>4 DEF Beneath
<1>6. Decides(tree, subject, Holds(world, asked, subject),
              IsFree(world, path \cup {key}, asked, subject))
  BY <1>1, <1>2, <1>5 DEF KeyRight
<1>7. ASSUME IsSure(world, path, key, rewrite, subject),
             Satisfied(world, key, rewrite, subject),
             Stage(world, asked, subject) <= Due(world, key, rewrite, subject)
      PROVE  IsFree(world, path \cup {key}, asked, subject)
  <2>1. CASE IsLow(world, key, rewrite)
    <3>1. Level(world, asked) < Level(world, key)
      BY <2>1 DEF IsLow
    <3> QED
      BY <1>1, <1>2, <1>3, <1>4, <3>1 DEF IsFree
  <2>2. CASE ~ IsLow(world, key, rewrite)
    <3> SUFFICES ASSUME NEW v \in path \cup {key}
                 PROVE  \/ Level(world, asked) < Level(world, v)
                        \/ Holds(world, v, subject) =>
                             Stage(world, asked, subject) < Stage(world, v, subject)
      BY DEF IsFree
    <3>1. \/ Level(world, key) < Level(world, v)
          \/ Holds(world, v, subject) =>
               Due(world, key, rewrite, subject) < Stage(world, v, subject)
      BY <1>7, <2>2 DEF IsSure
    <3> QED
      BY <1>1, <1>2, <1>3, <1>4, <1>7, <3>1
  <2> QED
    BY <2>1, <2>2
<1> QED
  BY <1>6, <1>7 DEF Decides

(* A part of a rewrite that is sure is sure.                               *)
LEMMA PartSure ==
    ASSUME NEW world, NEW subject, NEW key, NEW path, IsDrawing(world, subject, key, path),
           NEW rewrite \in Rewrites(key), NEW part \in Rewrites(key),
           Asked(world, key, part) \subseteq Asked(world, key, rewrite),
           IsSure(world, path, key, rewrite, subject),
           Satisfied(world, key, rewrite, subject), Satisfied(world, key, part, subject),
           Due(world, key, part, subject) <= Due(world, key, rewrite, subject)
    PROVE  IsSure(world, path, key, part, subject)
<1>1. /\ key \in Keys /\ path \subseteq Keys /\ subject \in Subjects /\ TreesExplained(world)
  BY DEF IsDrawing, DefinedKeys
<1>2. Due(world, key, part, subject) \in Nat /\ Due(world, key, rewrite, subject) \in Nat
  BY <1>1, OccurrenceIs
<1>3. \A k \in Keys : Stage(world, k, subject) \in Nat
  BY <1>1 DEF TreesExplained, Founded
<1>4. CASE IsLow(world, key, rewrite)
  BY <1>4 DEF IsSure, IsLow
<1>5. CASE ~ IsLow(world, key, rewrite)
  BY <1>1, <1>2, <1>3, <1>5 DEF IsSure
<1> QED
  BY <1>4, <1>5

LEMMA DrawingPending ==
    ASSUME NEW world, NEW subject, NEW key, NEW path, IsDrawing(world, subject, key, path),
           NEW rewrite \in Rewrites(key)
    PROVE  /\ IsPending(world, key, rewrite, path)
           /\ key \in Keys /\ RewritesClosed /\ TreesExplained(world)
           /\ subject \in Subjects /\ ~ IsUserset(subject)
BY DEF IsDrawing, IsPending, DefinedKeys, TreesExplained

LEMMA LeafRight ==
    ASSUME NEW world, NEW subject, NEW key, NEW path, IsDrawing(world, subject, key, path),
           NEW rewrite \in Rewrites(key), rewrite.op = "this"
    PROVE  PartRight(world, subject, key, rewrite, path)
<1> DEFINE part == Part(world, key, rewrite, path)
           below(t) == Tree(world, KeyOfMember(t.subject), path \cup {key})
           stored == Stored(world, key.object, key.relation)
           satisfied == Satisfied(world, key, rewrite, subject)
           sure == IsSure(world, path, key, rewrite, subject)
           due == Due(world, key, rewrite, subject)
<1>1. IsPending(world, key, rewrite, path) /\ key \in Keys /\ TreesExplained(world)
      /\ subject \in Subjects /\ ~ IsUserset(subject)
  BY DrawingPending
<1>2. /\ IsFailed(part) <=> \E t \in stored : IsUserset(t.subject) /\ IsFailed(below(t))
      /\ ~ IsFailed(part) =>
           (Shows(part, subject) <=> \E t \in stored :
              t.subject = subject \/ (IsUserset(t.subject) /\ Shows(below(t), subject)))
  BY <1>1, LeafShape
<1>3. /\ AskedIs(world, key, rewrite)
      /\ SatisfiedIs(world, key, rewrite, subject) /\ satisfied \in BOOLEAN
      /\ satisfied => GrantedInTime(world, key, rewrite, subject)
  BY <1>1, OccurrenceIs
<1>4. satisfied <=> \E t \in stored : MemberHolds(world, t.subject, subject)
  BY <1>3 DEF SatisfiedIs
<1>5. \A t \in stored : IsUserset(t.subject) =>
        KeyOfMember(t.subject) \in Asked(world, key, rewrite)
  BY <1>3 DEF AskedIs
<1>6. satisfied => \E t \in stored :
        IF IsUserset(t.subject)
          THEN /\ Holds(world, KeyOfMember(t.subject), subject)
               /\ Stage(world, KeyOfMember(t.subject), subject) <= due
          ELSE t.subject = subject
  BY <1>3 DEF GrantedInTime
<1>7. ASSUME NEW t \in stored, IsUserset(t.subject), ~ IsFailed(below(t))
      PROVE  /\ Shows(below(t), subject) => Holds(world, KeyOfMember(t.subject), subject)
             /\ /\ sure /\ satisfied /\ Holds(world, KeyOfMember(t.subject), subject)
                /\ Stage(world, KeyOfMember(t.subject), subject) <= due
                => Shows(below(t), subject)
  <2>1. KeyOfMember(t.subject) \in Asked(world, key, rewrite)
    BY <1>5, <1>7
  <2> QED
    BY <1>7, <2>1, AskedRight
<1> HIDE DEF part, below, stored, satisfied, sure, due
<1>8. ASSUME ~ IsFailed(part), Shows(part, subject)
      PROVE  satisfied
  <2>1. PICK t \in stored : \/ t.subject = subject
                            \/ IsUserset(t.subject) /\ Shows(below(t), subject)
    BY <1>2, <1>8
  <2>2. CASE t.subject = subject
    <3>1. MemberHolds(world, t.subject, subject)
      BY <1>1, <2>2 DEF MemberHolds
    <3> QED
      BY <1>4, <3>1
  <2>3. CASE IsUserset(t.subject) /\ Shows(below(t), subject)
    <3>1. Holds(world, KeyOfMember(t.subject), subject)
      BY <1>2, <1>7, <1>8, <2>3
    <3>2. MemberHolds(world, t.subject, subject)
      BY <2>3, <3>1 DEF MemberHolds
    <3> QED
      BY <1>4, <3>2
  <2> QED
    BY <2>1, <2>2, <2>3
<1>9. ASSUME ~ IsFailed(part), sure, satisfied
      PROVE  Shows(part, subject)
  <2>1. PICK t \in stored :
          IF IsUserset(t.subject)
            THEN /\ Holds(world, KeyOfMember(t.subject), subject)
                 /\ Stage(world, KeyOfMember(t.subject), subject) <= due
            ELSE t.subject = subject
    BY <1>6, <1>9
  <2>2. CASE IsUserset(t.subject)
    <3>1. Shows(below(t), subject)
      BY <1>2, <1>7, <1>9, <2>1, <2>2
    <3> QED
      BY <1>2, <1>9, <2>2, <3>1
  <2>3. CASE ~ IsUserset(t.subject)
    BY <1>2, <1>9, <2>1, <2>3
  <2> QED
    BY <2>2, <2>3
<1> QED
  BY <1>8, <1>9 DEF PartRight, Decides, part, satisfied, sure

LEMMA ComputedRight ==
    ASSUME NEW world, NEW subject, NEW key, NEW path, IsDrawing(world, subject, key, path),
           NEW rewrite \in Rewrites(key), rewrite.op = "computed"
    PROVE  PartRight(world, subject, key, rewrite, path)
<1> DEFINE asked == RelationKey(key.object, rewrite.relation)
           tree == Tree(world, asked, path \cup {key})
<1>1. IsPending(world, key, rewrite, path) /\ key \in Keys /\ TreesExplained(world)
      /\ subject \in Subjects
  BY DrawingPending
<1>2. Part(world, key, rewrite, path) = tree
  BY <1>1, ComputedShape
<1>3. /\ AskedIs(world, key, rewrite)
      /\ SatisfiedIs(world, key, rewrite, subject)
      /\ Satisfied(world, key, rewrite, subject)
           => GrantedInTime(world, key, rewrite, subject)
  BY <1>1, OccurrenceIs
<1>4. asked \in Asked(world, key, rewrite)
  BY <1>3 DEF AskedIs
<1>5. Satisfied(world, key, rewrite, subject) <=> Holds(world, asked, subject)
  BY <1>3 DEF SatisfiedIs
<1>6. Satisfied(world, key, rewrite, subject) =>
        Stage(world, asked, subject) <= Due(world, key, rewrite, subject)
  BY <1>3 DEF GrantedInTime
<1> HIDE DEF asked
<1>7. ASSUME ~ IsFailed(tree)
      PROVE  /\ Shows(tree, subject) => Holds(world, asked, subject)
             /\ /\ IsSure(world, path, key, rewrite, subject)
                /\ Satisfied(world, key, rewrite, subject)
                /\ Holds(world, asked, subject)
                /\ Stage(world, asked, subject) <= Due(world, key, rewrite, subject)
                => Shows(tree, subject)
  BY <1>4, <1>7, AskedRight
<1> HIDE DEF tree
<1> QED
  BY <1>2, <1>5, <1>6, <1>7 DEF PartRight, Decides

LEMMA TuplesetRight ==
    ASSUME NEW world, NEW subject, NEW key, NEW path, IsDrawing(world, subject, key, path),
           NEW rewrite \in Rewrites(key), rewrite.op = "tupleToUserset"
    PROVE  PartRight(world, subject, key, rewrite, path)
<1> DEFINE part == Part(world, key, rewrite, path)
           far(t) == FarEnd(t, rewrite.computed)
           below(t) == Tree(world, far(t), path \cup {key})
           stored == Stored(world, key.object, rewrite.tupleset)
           satisfied == Satisfied(world, key, rewrite, subject)
           sure == IsSure(world, path, key, rewrite, subject)
           due == Due(world, key, rewrite, subject)
<1>1. IsPending(world, key, rewrite, path) /\ key \in Keys /\ TreesExplained(world)
      /\ subject \in Subjects
  BY DrawingPending
<1>2. /\ IsFailed(part) <=> \E t \in stored : IsFailed(below(t))
      /\ ~ IsFailed(part) =>
           (Shows(part, subject) <=> \E t \in stored : Shows(below(t), subject))
  BY <1>1, TuplesetShape
<1>3. /\ AskedIs(world, key, rewrite)
      /\ SatisfiedIs(world, key, rewrite, subject)
      /\ satisfied => GrantedInTime(world, key, rewrite, subject)
  BY <1>1, OccurrenceIs
<1>4. satisfied <=> \E t \in stored : Holds(world, far(t), subject)
  BY <1>3 DEF SatisfiedIs
<1>5. satisfied => \E t \in stored : /\ Holds(world, far(t), subject)
                                     /\ Stage(world, far(t), subject) <= due
  BY <1>3 DEF GrantedInTime
<1>6. ASSUME NEW t \in stored, ~ IsFailed(below(t))
      PROVE  /\ Shows(below(t), subject) => Holds(world, far(t), subject)
             /\ /\ sure /\ satisfied /\ Holds(world, far(t), subject)
                /\ Stage(world, far(t), subject) <= due
                => Shows(below(t), subject)
  <2>1. far(t) \in Asked(world, key, rewrite)
    BY <1>3 DEF AskedIs
  <2> QED
    BY <1>6, <2>1, AskedRight
<1> HIDE DEF part, far, below, stored, satisfied, sure, due
<1>7. ASSUME ~ IsFailed(part), Shows(part, subject)
      PROVE  satisfied
  BY <1>2, <1>4, <1>6, <1>7
<1>8. ASSUME ~ IsFailed(part), sure, satisfied
      PROVE  Shows(part, subject)
  BY <1>2, <1>5, <1>6, <1>8
<1> QED
  BY <1>7, <1>8 DEF PartRight, Decides, part, satisfied, sure

LEMMA UnionRight ==
    ASSUME NEW world, NEW subject, NEW key, NEW path, IsDrawing(world, subject, key, path),
           NEW rewrite \in Rewrites(key), rewrite.op = "union",
           \A i \in DOMAIN rewrite.children :
             PartRight(world, subject, key, rewrite.children[i], path)
    PROVE  PartRight(world, subject, key, rewrite, path)
<1> DEFINE part == Part(world, key, rewrite, path)
           child(i) == rewrite.children[i]
           d == DOMAIN rewrite.children
           holds(r) == Satisfied(world, key, r, subject)
           sure(r) == IsSure(world, path, key, r, subject)
           below(i) == Part(world, key, child(i), path)
<1>1. IsPending(world, key, rewrite, path) /\ key \in Keys /\ TreesExplained(world)
      /\ subject \in Subjects /\ RewritesClosed
  BY DrawingPending
<1>2. /\ IsFailed(part) <=> \E i \in d : IsFailed(below(i))
      /\ ~ IsFailed(part) => (Shows(part, subject) <=> \E i \in d : Shows(below(i), subject))
  BY <1>1, UnionShape
<1>3. /\ AskedIs(world, key, rewrite)
      /\ SatisfiedIs(world, key, rewrite, subject)
      /\ holds(rewrite) => GrantedInTime(world, key, rewrite, subject)
  BY <1>1, OccurrenceIs
<1>4. holds(rewrite) <=> \E i \in d : holds(child(i))
  BY <1>3 DEF SatisfiedIs
<1>5. holds(rewrite) => \E i \in d :
        /\ holds(child(i))
        /\ Due(world, key, child(i), subject) <= Due(world, key, rewrite, subject)
  BY <1>3 DEF GrantedInTime
<1>6. \A i \in d : Asked(world, key, child(i)) \subseteq Asked(world, key, rewrite)
  BY <1>3 DEF AskedIs
<1>7. \A i \in d : child(i) \in Rewrites(key)
  BY <1>1, ChildrenAre
<1>8. \A i \in d : /\ sure(rewrite) /\ holds(rewrite) /\ holds(child(i))
                   /\ Due(world, key, child(i), subject) <= Due(world, key, rewrite, subject)
                   => sure(child(i))
  BY <1>6, <1>7, PartSure
<1>9. \A i \in d : ~ IsFailed(below(i)) =>
        /\ Shows(below(i), subject) => holds(child(i))
        /\ sure(child(i)) /\ holds(child(i)) => Shows(below(i), subject)
  BY DEF PartRight, Decides
<1> HIDE DEF part, child, d, holds, sure, below
<1>10. ASSUME ~ IsFailed(part), Shows(part, subject)
       PROVE  holds(rewrite)
  BY <1>2, <1>4, <1>9, <1>10
<1>11. ASSUME ~ IsFailed(part), sure(rewrite), holds(rewrite)
       PROVE  Shows(part, subject)
  BY <1>2, <1>5, <1>8, <1>9, <1>11
<1> QED
  BY <1>10, <1>11 DEF PartRight, Decides, part, holds, sure

LEMMA IntersectionRight ==
    ASSUME NEW world, NEW subject, NEW key, NEW path, IsDrawing(world, subject, key, path),
           NEW rewrite \in Rewrites(key), rewrite.op = "intersection",
           \A i \in DOMAIN rewrite.children :
             PartRight(world, subject, key, rewrite.children[i], path)
    PROVE  PartRight(world, subject, key, rewrite, path)
<1> DEFINE part == Part(world, key, rewrite, path)
           child(i) == rewrite.children[i]
           d == DOMAIN rewrite.children
           holds(r) == Satisfied(world, key, r, subject)
           sure(r) == IsSure(world, path, key, r, subject)
           below(i) == Part(world, key, child(i), path)
           some == rewrite.children # << >>
<1>1. IsPending(world, key, rewrite, path) /\ key \in Keys /\ TreesExplained(world)
      /\ subject \in Subjects /\ RewritesClosed
  BY DrawingPending
<1>2. /\ IsFailed(part) <=> \E i \in d : IsFailed(below(i))
      /\ ~ IsFailed(part) =>
           (Shows(part, subject) <=> some /\ \A i \in d : Shows(below(i), subject))
  BY <1>1, IntersectionShape
<1>3. /\ AskedIs(world, key, rewrite)
      /\ SatisfiedIs(world, key, rewrite, subject)
      /\ holds(rewrite) => GrantedInTime(world, key, rewrite, subject)
  BY <1>1, OccurrenceIs
<1>4. holds(rewrite) <=> some /\ \A i \in d : holds(child(i))
  BY <1>3 DEF SatisfiedIs
<1>5. holds(rewrite) => \A i \in d :
        Due(world, key, child(i), subject) <= Due(world, key, rewrite, subject)
  BY <1>3 DEF GrantedInTime
<1>6. \A i \in d : Asked(world, key, child(i)) \subseteq Asked(world, key, rewrite)
  BY <1>3 DEF AskedIs
<1>7. \A i \in d : child(i) \in Rewrites(key)
  BY <1>1, ChildrenAre
<1>8. \A i \in d : /\ sure(rewrite) /\ holds(rewrite) /\ holds(child(i))
                   /\ Due(world, key, child(i), subject) <= Due(world, key, rewrite, subject)
                   => sure(child(i))
  BY <1>6, <1>7, PartSure
<1>9. \A i \in d : ~ IsFailed(below(i)) =>
        /\ Shows(below(i), subject) => holds(child(i))
        /\ sure(child(i)) /\ holds(child(i)) => Shows(below(i), subject)
  BY DEF PartRight, Decides
<1> HIDE DEF part, child, d, holds, sure, below, some
<1>10. ASSUME ~ IsFailed(part), Shows(part, subject)
       PROVE  holds(rewrite)
  BY <1>2, <1>4, <1>9, <1>10
<1>11. ASSUME ~ IsFailed(part), sure(rewrite), holds(rewrite)
       PROVE  Shows(part, subject)
  BY <1>2, <1>4, <1>5, <1>8, <1>9, <1>11
<1> QED
  BY <1>10, <1>11 DEF PartRight, Decides, part, holds, sure

(* What is subtracted is below the path, and so decided either way.        *)
LEMMA ExclusionRight ==
    ASSUME NEW world, NEW subject, NEW key, NEW path, IsDrawing(world, subject, key, path),
           NEW rewrite \in Rewrites(key), rewrite.op = "exclusion",
           PartRight(world, subject, key, rewrite.base, path),
           PartRight(world, subject, key, rewrite.subtract, path)
    PROVE  PartRight(world, subject, key, rewrite, path)
<1> DEFINE tree(r) == Part(world, key, r, path)
           holds(r) == Satisfied(world, key, r, subject)
           sure(r) == IsSure(world, path, key, r, subject)
           base == rewrite.base
           subtract == rewrite.subtract
<1>1. IsPending(world, key, rewrite, path) /\ key \in Keys /\ TreesExplained(world)
      /\ subject \in Subjects /\ RewritesClosed
  BY DrawingPending
<1>2. /\ IsFailed(tree(rewrite)) <=> IsFailed(tree(base)) \/ IsFailed(tree(subtract))
      /\ ~ IsFailed(tree(rewrite)) =>
           (Shows(tree(rewrite), subject)
              <=> Shows(tree(base), subject) /\ ~ Shows(tree(subtract), subject))
  BY <1>1, ExclusionShape
<1>3. /\ AskedIs(world, key, rewrite)
      /\ SatisfiedIs(world, key, rewrite, subject)
      /\ holds(rewrite) => GrantedInTime(world, key, rewrite, subject)
      /\ IsLow(world, key, subtract)
  BY <1>1, OccurrenceIs
<1>4. holds(rewrite) <=> holds(base) /\ ~ holds(subtract)
  BY <1>3 DEF SatisfiedIs
<1>5. holds(rewrite) => Due(world, key, base, subject) <= Due(world, key, rewrite, subject)
  BY <1>3 DEF GrantedInTime
<1>6. Asked(world, key, base) \subseteq Asked(world, key, rewrite)
  BY <1>3 DEF AskedIs
<1>7. base \in Rewrites(key)
  BY <1>1 DEF RewritesClosed
<1>8. sure(rewrite) /\ holds(rewrite) => sure(base)
  BY <1>4, <1>5, <1>6, <1>7, PartSure
<1>9. sure(subtract)
  BY <1>3 DEF IsSure
<1>10. /\ ~ IsFailed(tree(base)) =>
            /\ Shows(tree(base), subject) => holds(base)
            /\ sure(base) /\ holds(base) => Shows(tree(base), subject)
       /\ ~ IsFailed(tree(subtract)) =>
            /\ Shows(tree(subtract), subject) => holds(subtract)
            /\ sure(subtract) /\ holds(subtract) => Shows(tree(subtract), subject)
  BY DEF PartRight, Decides
<1> HIDE DEF tree, holds, sure, base, subtract
<1>11. ~ IsFailed(tree(rewrite)) =>
         /\ Shows(tree(rewrite), subject) => holds(rewrite)
         /\ sure(rewrite) /\ holds(rewrite) => Shows(tree(rewrite), subject)
  BY <1>2, <1>4, <1>8, <1>9, <1>10
<1> QED
  BY <1>11 DEF PartRight, Decides, tree, holds, sure


(* A rewrite is one of six, and higher than its parts.                     *)
LEMMA HeightIs ==
    ASSUME RewritesMeasured, NEW key \in Keys, NEW rewrite \in Rewrites(key)
    PROVE  /\ Height(rewrite) \in Nat
           /\ rewrite.op \in {"this", "computed", "tupleToUserset",
                              "union", "intersection", "exclusion"}
           /\ rewrite.op \in {"union", "intersection"} =>
                \A i \in DOMAIN rewrite.children :
                  /\ Height(rewrite.children[i]) \in Nat
                  /\ Height(rewrite.children[i]) < Height(rewrite)
           /\ rewrite.op = "exclusion" =>
                /\ Height(rewrite.base) \in Nat
                /\ Height(rewrite.base) < Height(rewrite)
                /\ Height(rewrite.subtract) \in Nat
                /\ Height(rewrite.subtract) < Height(rewrite)
<1> DEFINE occurrence == <<key, rewrite>>
<1>1. occurrence \in Occurrences /\ occurrence[2] = rewrite
  BY DEF Occurrences
<1> HIDE DEF occurrence
<1> QED
  BY <1>1 DEF RewritesMeasured

(* By induction over the height.                                           *)
LEMMA RewriteRight ==
    ASSUME RewritesMeasured,
           NEW world, NEW subject, NEW key, NEW path, IsDrawing(world, subject, key, path)
    PROVE  \A rewrite \in Rewrites(key) : PartRight(world, subject, key, rewrite, path)
<1> DEFINE Right(rewrite) == PartRight(world, subject, key, rewrite, path)
           S == {n \in Nat : \A rewrite \in Rewrites(key) :
                               Height(rewrite) = n => Right(rewrite)}
<1>1. key \in Keys /\ RewritesClosed
  BY DEF IsDrawing, DefinedKeys
<1>2. ASSUME NEW n \in Nat, \A m \in Nat : m < n => m \in S,
             NEW rewrite \in Rewrites(key), Height(rewrite) = n
      PROVE  Right(rewrite)
  <2>1. \A part \in Rewrites(key) :
          Height(part) \in Nat /\ Height(part) < Height(rewrite) => Right(part)
    BY <1>2
  <2> HIDE DEF S
  <2>2. CASE rewrite.op = "this"
    BY <2>2, LeafRight
  <2>3. CASE rewrite.op = "computed"
    BY <2>3, ComputedRight
  <2>4. CASE rewrite.op = "tupleToUserset"
    BY <2>4, TuplesetRight
  <2>5. ASSUME rewrite.op \in {"union", "intersection"}
        PROVE  \A i \in DOMAIN rewrite.children : Right(rewrite.children[i])
    <3>1. \A i \in DOMAIN rewrite.children :
            /\ rewrite.children[i] \in Rewrites(key)
            /\ Height(rewrite.children[i]) \in Nat
            /\ Height(rewrite.children[i]) < Height(rewrite)
      BY <1>1, <2>5, ChildrenAre, HeightIs
    <3> QED
      BY <2>1, <3>1
  <2>6. CASE rewrite.op = "union"
    BY <2>5, <2>6, UnionRight
  <2>7. CASE rewrite.op = "intersection"
    BY <2>5, <2>7, IntersectionRight
  <2>8. CASE rewrite.op = "exclusion"
    <3>1. rewrite.base \in Rewrites(key) /\ rewrite.subtract \in Rewrites(key)
      BY <1>1, <2>8 DEF RewritesClosed
    <3>2. Right(rewrite.base) /\ Right(rewrite.subtract)
      BY <1>1, <2>1, <2>8, <3>1, HeightIs
    <3> QED
      BY <2>8, <3>2, ExclusionRight
  <2>9. rewrite.op \in {"this", "computed", "tupleToUserset",
                        "union", "intersection", "exclusion"}
    BY <1>1, HeightIs
  <2> QED
    BY <2>2, <2>3, <2>4, <2>6, <2>7, <2>8, <2>9
<1>3. \A n \in Nat : (\A m \in Nat : m < n => m \in S) => n \in S
  BY <1>2
<1>4. Nat \subseteq S
  <2> HIDE DEF S
  <2> QED
    BY <1>3, InductFully
<1>5. \A rewrite \in Rewrites(key) : Height(rewrite) \in Nat
  BY <1>1, HeightIs
<1> QED
  BY <1>4, <1>5

(* expand, of a tree that has not failed.                                  *)
LEMMA KeyCases ==
    ASSUME NEW world, TreesUnfold(world), NEW key \in Keys, NEW path \in SUBSET DefinedKeys
    PROVE  LET tree == Tree(world, key, path)
           IN /\ ~ IsFailed(tree) => \A subject \in Subjects :
                   Shows(tree, subject) <=> Reads(tree, subject)
              /\ Cardinality(path) > MaxDepth => IsFailed(tree)
              /\ ~ (Cardinality(path) > MaxDepth) =>
                   /\ key \in path => tree = Leaf(key, << >>, << >>)
                   /\ key \notin path /\ key \notin DefinedKeys => IsFailed(tree)
                   /\ key \notin path /\ key \in DefinedKeys =>
                        tree = Part(world, key, RewriteOf(key), path)
<1> DEFINE tree == Tree(world, key, path)
<1>1. /\ tree = ExpandKey(world, key, Cardinality(path), path)
      /\ ~ IsFailed(tree) => \A subject \in Subjects :
           Shows(tree, subject) <=> Reads(tree, subject)
  BY DEF TreesUnfold, IsDrawn, Tree
<1>2. IsFailed(FailedTree("depth")) /\ IsFailed(FailedTree("lookup"))
  BY DEF IsFailed, FailedTree, Node
<1>3. key \in DefinedKeys <=> Defines(Schema, key.object.type, key.relation)
  BY DEF DefinedKeys
<1> QED
  BY <1>1, <1>2, <1>3 DEF ExpandKey, IsCycle, Part

(* What the theorems about trees suppose.                                      *)
Supposed(world) ==
    /\ RewritesClosed /\ RewritesMeasured /\ IsFiniteSet(DefinedKeys) /\ GoalsKnown
    /\ TreesExplained(world) /\ TreesUnfold(world)

LEMMA KeyStep ==
    ASSUME NEW world, Supposed(world), NEW subject \in Subjects,
           NEW key \in Keys, NEW path \in SUBSET DefinedKeys,
           key \in DefinedKeys \ path =>
             \A asked \in Keys : KeyRight(world, subject, asked, path \cup {key})
    PROVE  KeyRight(world, subject, key, path)
<1> DEFINE tree == Tree(world, key, path)
           rewrite == RewriteOf(key)
           truth == Holds(world, key, subject)
           free == IsFree(world, path, key, subject)
<1>1. SUFFICES ASSUME Beneath(world, path, key), ~ IsFailed(tree)
               PROVE  /\ Shows(tree, subject) => truth
                      /\ free /\ truth => Shows(tree, subject)
  BY DEF KeyRight, Decides
<1>2. /\ RewritesClosed /\ TreesExplained(world) /\ TreesUnfold(world)
      /\ RewritesMeasured /\ IsFiniteSet(DefinedKeys) /\ ~ IsUserset(subject)
  BY DEF Supposed, GoalsKnown
<1>3. \A k \in Keys : Level(world, k) \in Nat /\ Stage(world, k, subject) \in Nat
  BY <1>2 DEF TreesExplained, Stratified, Founded
<1>4. ~ (Cardinality(path) > MaxDepth)
  BY <1>1, <1>2, KeyCases
<1>5. CASE key \in path
  <2>1. tree = Leaf(key, << >>, << >>)
    BY <1>2, <1>4, <1>5, KeyCases
  <2>2. ~ Reads(tree, subject)
    BY <2>1 DEF Reads, Leaf, Node, ToSet
  <2>3. Shows(tree, subject) <=> Reads(tree, subject)
    BY <1>1, <1>2, KeyCases
  <2>4. ~ (free /\ truth)
    BY <1>3, <1>5 DEF IsFree
  <2> QED
    BY <2>2, <2>3, <2>4
<1>6. CASE key \notin path /\ key \in DefinedKeys
  <2>1. tree = Part(world, key, rewrite, path)
    BY <1>2, <1>4, <1>6, KeyCases
  <2>2. rewrite \in Rewrites(key)
    BY <1>2, <1>6 DEF RewritesClosed
  <2>3. IsDrawing(world, subject, key, path)
    BY <1>1, <1>2, <1>6 DEF IsDrawing
  <2>4. PartRight(world, subject, key, rewrite, path)
    BY <1>2, <2>2, <2>3, RewriteRight
  <2> DEFINE holds == Satisfied(world, key, rewrite, subject)
             sure == IsSure(world, path, key, rewrite, subject)
  <2>5. /\ Shows(tree, subject) => holds
        /\ sure /\ holds => Shows(tree, subject)
    BY <1>1, <2>1, <2>4 DEF PartRight, Decides
  <2>6. holds => truth
    BY <1>2, <1>6 DEF TreesExplained, HoldsClosed
  <2>7. truth => /\ holds
                 /\ Due(world, key, rewrite, subject) < Stage(world, key, subject)
    BY <1>2, <1>6 DEF TreesExplained, Founded
  <2>8. free /\ truth => sure
    <3> SUFFICES ASSUME free, truth, NEW v \in path \cup {key}
                 PROVE  \/ Level(world, key) < Level(world, v)
                        \/ Holds(world, v, subject) =>
                             Due(world, key, rewrite, subject) < Stage(world, v, subject)
      BY DEF IsSure
    <3>1. Due(world, key, rewrite, subject) \in Nat
      BY <1>2, <2>2, <2>7, OccurrenceIs
    <3>2. v \in Keys
      BY DEF DefinedKeys
    <3>3. v # key =>
            \/ Level(world, key) < Level(world, v)
            \/ Holds(world, v, subject) =>
                 Stage(world, key, subject) < Stage(world, v, subject)
      BY DEF IsFree
    <3> HIDE DEF rewrite
    <3> QED
      BY <1>3, <2>7, <3>1, <3>2, <3>3
  <2> QED
    BY <2>5, <2>6, <2>7, <2>8
<1>7. CASE key \notin path /\ key \notin DefinedKeys
  BY <1>1, <1>2, <1>4, <1>7, KeyCases
<1> QED
  BY <1>5, <1>6, <1>7

LEMMA PathGrows ==
    ASSUME IsFiniteSet(DefinedKeys), NEW path \in SUBSET DefinedKeys
    PROVE  LET left(p) == Cardinality(DefinedKeys \ p)
           IN /\ left(path) \in Nat
              /\ \A key \in DefinedKeys \ path :
                   left(path \cup {key}) \in Nat /\ left(path \cup {key}) < left(path)
<1>1. IsFiniteSet(DefinedKeys \ path)
  BY FS_Subset
<1>2. Cardinality(DefinedKeys \ path) \in Nat
  BY <1>1, FS_CardinalityType
<1>3. ASSUME NEW key \in DefinedKeys \ path
      PROVE  /\ Cardinality(DefinedKeys \ (path \cup {key})) \in Nat
             /\ Cardinality(DefinedKeys \ (path \cup {key})) < Cardinality(DefinedKeys \ path)
  <2>1. DefinedKeys \ (path \cup {key}) = (DefinedKeys \ path) \ {key}
    OBVIOUS
  <2>2. /\ IsFiniteSet((DefinedKeys \ path) \ {key})
        /\ Cardinality((DefinedKeys \ path) \ {key}) = Cardinality(DefinedKeys \ path) - 1
    BY <1>1, FS_RemoveElement
  <2>3. Cardinality((DefinedKeys \ path) \ {key}) \in Nat
    BY <2>2, FS_CardinalityType
  <2> QED
    BY <1>2, <2>1, <2>2, <2>3
<1> QED
  BY <1>2, <1>3

(* By induction over the relations that are not yet on the path.           *)
LEMMA EveryKeyRight ==
    ASSUME NEW world, Supposed(world), NEW subject \in Subjects
    PROVE  \A path \in SUBSET DefinedKeys, key \in Keys : KeyRight(world, subject, key, path)
<1> DEFINE Left(path) == Cardinality(DefinedKeys \ path)
           S == {n \in Nat : \A path \in SUBSET DefinedKeys, key \in Keys :
                               Left(path) = n => KeyRight(world, subject, key, path)}
<1>1. \A path \in SUBSET DefinedKeys :
        /\ Left(path) \in Nat
        /\ \A key \in DefinedKeys \ path :
             Left(path \cup {key}) \in Nat /\ Left(path \cup {key}) < Left(path)
  BY PathGrows DEF Supposed
<1>2. ASSUME NEW n \in Nat, \A m \in Nat : m < n => m \in S,
             NEW path \in SUBSET DefinedKeys, NEW key \in Keys, Left(path) = n
      PROVE  KeyRight(world, subject, key, path)
  <2>1. ASSUME key \in DefinedKeys \ path
        PROVE  \A asked \in Keys : KeyRight(world, subject, asked, path \cup {key})
    <3>1. path \cup {key} \in SUBSET DefinedKeys
      BY <2>1
    <3>2. Left(path \cup {key}) \in S
      BY <1>1, <1>2, <2>1
    <3> QED
      BY <3>1, <3>2
  <2> QED
    BY <2>1, KeyStep
<1>3. \A n \in Nat : (\A m \in Nat : m < n => m \in S) => n \in S
  BY <1>2
<1>4. Nat \subseteq S
  <2> HIDE DEF S
  <2> QED
    BY <1>3, InductFully
<1> QED
  BY <1>1, <1>4

----------------------------------------------------------------------------
(* Trees that are drawn: where no name is unknown, and there are no more   *)
(* relations on objects than MaxDepth.                                     *)

IsFit(world) ==
    /\ RewritesClosed /\ RewritesMeasured /\ IsFiniteSet(DefinedKeys)
    /\ IsFiniteSet(world) /\ Compositional(world) /\ NamesKnown(world) /\ TreesUnfold(world)

LEMMA AskedKnown ==
    ASSUME NEW world, IsFit(world), NEW key \in Keys, NEW rewrite \in Rewrites(key)
    PROVE  AskedIs(world, key, rewrite) /\ Asked(world, key, rewrite) \subseteq DefinedKeys
<1> DEFINE occurrence == <<key, rewrite>>
<1>1. occurrence \in Occurrences /\ occurrence[1] = key /\ occurrence[2] = rewrite
  BY DEF Occurrences
<1> HIDE DEF occurrence
<1>2. AskedIs(world, key, rewrite)
  BY <1>1 DEF IsFit, Compositional
<1>3. Asked(world, key, rewrite) \subseteq DefinedKeys
  BY <1>1 DEF IsFit, NamesKnown
<1> QED
  BY <1>2, <1>3

(* By induction over the height.                                           *)
LEMMA RewriteDrawn ==
    ASSUME NEW world, IsFit(world), NEW key \in DefinedKeys,
           NEW path \in SUBSET DefinedKeys, key \notin path,
           \A asked \in DefinedKeys : ~ IsFailed(Tree(world, asked, path \cup {key}))
    PROVE  \A rewrite \in Rewrites(key) : ~ IsFailed(Part(world, key, rewrite, path))
<1> DEFINE Whole(rewrite) == ~ IsFailed(Part(world, key, rewrite, path))
           S == {n \in Nat : \A rewrite \in Rewrites(key) :
                               Height(rewrite) = n => Whole(rewrite)}
<1>1. key \in Keys /\ RewritesClosed /\ RewritesMeasured
  BY DEF IsFit, DefinedKeys
<1>2. \A rewrite \in Rewrites(key) : IsPending(world, key, rewrite, path)
  BY <1>1 DEF IsFit, IsPending
<1>3. ASSUME NEW n \in Nat, \A m \in Nat : m < n => m \in S,
             NEW rewrite \in Rewrites(key), Height(rewrite) = n
      PROVE  Whole(rewrite)
  <2>1. \A part \in Rewrites(key) :
          Height(part) \in Nat /\ Height(part) < Height(rewrite) => Whole(part)
    BY <1>3
  <2>2. AskedIs(world, key, rewrite) /\ Asked(world, key, rewrite) \subseteq DefinedKeys
    BY <1>1, AskedKnown
  <2>3. IsPending(world, key, rewrite, path)
    BY <1>2
  <2> DEFINE below(asked) == Tree(world, asked, path \cup {key})
  <2>4. \A asked \in Asked(world, key, rewrite) : ~ IsFailed(below(asked))
    BY <2>2
  <2> HIDE DEF S, Whole, below
  <2>5. CASE rewrite.op = "this"
    <3> DEFINE stored == Stored(world, key.object, key.relation)
    <3>1. \A t \in stored : IsUserset(t.subject) =>
            KeyOfMember(t.subject) \in Asked(world, key, rewrite)
      BY <2>2, <2>5 DEF AskedIs
    <3>2. \A t \in stored : IsUserset(t.subject) => ~ IsFailed(below(KeyOfMember(t.subject)))
      BY <2>4, <3>1
    <3> QED
      BY <2>3, <2>5, <3>2, LeafShape DEF Whole, below
  <2>6. CASE rewrite.op = "computed"
    <3>1. RelationKey(key.object, rewrite.relation) \in Asked(world, key, rewrite)
      BY <2>2, <2>6 DEF AskedIs
    <3>2. ~ IsFailed(below(RelationKey(key.object, rewrite.relation)))
      BY <2>4, <3>1
    <3> QED
      BY <2>3, <2>6, <3>2, ComputedShape DEF Whole, below
  <2>7. CASE rewrite.op = "tupleToUserset"
    <3> DEFINE stored == Stored(world, key.object, rewrite.tupleset)
    <3>1. \A t \in stored : FarEnd(t, rewrite.computed) \in Asked(world, key, rewrite)
      BY <2>2, <2>7 DEF AskedIs
    <3>2. \A t \in stored : ~ IsFailed(below(FarEnd(t, rewrite.computed)))
      BY <2>4, <3>1
    <3> QED
      BY <2>3, <2>7, <3>2, TuplesetShape DEF Whole, below
  <2>8. ASSUME rewrite.op \in {"union", "intersection"}
        PROVE  \A i \in DOMAIN rewrite.children : Whole(rewrite.children[i])
    <3>1. \A i \in DOMAIN rewrite.children :
            /\ rewrite.children[i] \in Rewrites(key)
            /\ Height(rewrite.children[i]) \in Nat
            /\ Height(rewrite.children[i]) < Height(rewrite)
      BY <1>1, <2>8, ChildrenAre, HeightIs
    <3> QED
      BY <2>1, <3>1
  <2>9. CASE rewrite.op = "union"
    BY <1>1, <2>3, <2>8, <2>9, UnionShape DEF Whole
  <2>10. CASE rewrite.op = "intersection"
    BY <1>1, <2>3, <2>8, <2>10, IntersectionShape DEF Whole
  <2>11. CASE rewrite.op = "exclusion"
    <3>1. rewrite.base \in Rewrites(key) /\ rewrite.subtract \in Rewrites(key)
      BY <1>1, <2>11 DEF RewritesClosed
    <3>2. Whole(rewrite.base) /\ Whole(rewrite.subtract)
      BY <1>1, <2>1, <2>11, <3>1, HeightIs
    <3> QED
      BY <2>3, <2>11, <3>2, ExclusionShape DEF Whole
  <2>12. rewrite.op \in {"this", "computed", "tupleToUserset",
                         "union", "intersection", "exclusion"}
    BY <1>1, HeightIs
  <2> QED
    BY <2>5, <2>6, <2>7, <2>9, <2>10, <2>11, <2>12
<1>4. \A n \in Nat : (\A m \in Nat : m < n => m \in S) => n \in S
  BY <1>3
<1>5. Nat \subseteq S
  <2> HIDE DEF S
  <2> QED
    BY <1>4, InductFully
<1>6. \A rewrite \in Rewrites(key) : Height(rewrite) \in Nat
  BY <1>1, HeightIs
<1> QED
  BY <1>5, <1>6

(* No path is longer than there are relations.                             *)
LEMMA KeyDrawn ==
    ASSUME NEW world, IsFit(world), Cardinality(DefinedKeys) <= MaxDepth,
           NEW key \in DefinedKeys, NEW path \in SUBSET DefinedKeys,
           key \notin path =>
             \A asked \in DefinedKeys : ~ IsFailed(Tree(world, asked, path \cup {key}))
    PROVE  ~ IsFailed(Tree(world, key, path))
<1>1. key \in Keys /\ TreesUnfold(world) /\ RewriteOf(key) \in Rewrites(key)
  BY DEF IsFit, DefinedKeys, RewritesClosed
<1>2. /\ Cardinality(path) \in Nat /\ Cardinality(DefinedKeys) \in Nat
      /\ Cardinality(path) <= Cardinality(DefinedKeys)
  BY FS_Subset, FS_CardinalityType DEF IsFit
<1>3. ~ (Cardinality(path) > MaxDepth)
  BY <1>2, EngineAssumption
<1>4. CASE key \in path
  <2>1. Tree(world, key, path) = Leaf(key, << >>, << >>)
    BY <1>1, <1>3, <1>4, KeyCases
  <2> QED
    BY <2>1 DEF Leaf, Node, IsFailed
<1>5. CASE key \notin path
  <2>1. Tree(world, key, path) = Part(world, key, RewriteOf(key), path)
    BY <1>1, <1>3, <1>5, KeyCases
  <2> QED
    BY <1>1, <1>5, <2>1, RewriteDrawn
<1> QED
  BY <1>4, <1>5

(* By induction over the relations that are not yet on the path.           *)
LEMMA EveryKeyDrawn ==
    ASSUME NEW world, IsFit(world), Cardinality(DefinedKeys) <= MaxDepth
    PROVE  \A path \in SUBSET DefinedKeys, key \in DefinedKeys :
             ~ IsFailed(Tree(world, key, path))
<1> DEFINE Left(path) == Cardinality(DefinedKeys \ path)
           S == {n \in Nat : \A path \in SUBSET DefinedKeys, key \in DefinedKeys :
                               Left(path) = n => ~ IsFailed(Tree(world, key, path))}
<1>1. \A path \in SUBSET DefinedKeys :
        /\ Left(path) \in Nat
        /\ \A key \in DefinedKeys \ path :
             Left(path \cup {key}) \in Nat /\ Left(path \cup {key}) < Left(path)
  BY PathGrows DEF IsFit
<1>2. ASSUME NEW n \in Nat, \A m \in Nat : m < n => m \in S,
             NEW path \in SUBSET DefinedKeys, NEW key \in DefinedKeys, Left(path) = n
      PROVE  ~ IsFailed(Tree(world, key, path))
  <2>1. ASSUME key \notin path
        PROVE  \A asked \in DefinedKeys : ~ IsFailed(Tree(world, asked, path \cup {key}))
    <3>1. path \cup {key} \in SUBSET DefinedKeys
      OBVIOUS
    <3>2. Left(path \cup {key}) \in S
      BY <1>1, <1>2, <2>1
    <3> QED
      BY <3>1, <3>2
  <2> QED
    BY <2>1, KeyDrawn
<1>3. \A n \in Nat : (\A m \in Nat : m < n => m \in S) => n \in S
  BY <1>2
<1>4. Nat \subseteq S
  <2> HIDE DEF S
  <2> QED
    BY <1>3, InductFully
<1> QED
  BY <1>1, <1>4

----------------------------------------------------------------------------
(* The requests.  A tree is that of the world of its revision, which was   *)
(* the head when the request was being served.                             *)

IsRequest(e) ==
    /\ e = [phase |-> e.phase, key |-> e.key, began |-> e.began,
            revision |-> e.revision, tree |-> e.tree]
    /\ e.phase \in {"idle", "head", "draw", "done"}

ExpandInv(worlds) ==
    /\ head \in Nat
    /\ \A rev \in 0..head : history[rev] \in worlds
    /\ IsRequest(expansion)
    /\ expansion.phase # "idle" => expansion.key \in Goals /\ expansion.began \in 0..head
    /\ expansion.phase # "done" => expansion.tree = NoTree
    /\ expansion.phase = "draw" => expansion.revision \in expansion.began..head
    /\ expansion.phase = "done" =>
         \/ expansion.tree = FailedTree("store")
         \/ /\ expansion.revision \in expansion.began..head
            /\ expansion.tree = ExpandKey(World(expansion.revision), expansion.key, 0, {})

LEMMA ExpandInit ==
    ASSUME NEW worlds, ClosedUnder(worlds, Writes), Init
    PROVE  ExpandInv(worlds)
<1>1. head = 0 /\ history = [rev \in {0} |-> {}] /\ expansion = Idle
  BY DEF Init, StoreInit
<1>2. \A rev \in 0..head : history[rev] \in worlds
  BY <1>1 DEF ClosedUnder
<1>3. IsRequest(Idle) /\ Idle.phase = "idle" /\ Idle.tree = NoTree
  BY DEF IsRequest, Idle
<1> QED
  BY <1>1, <1>2, <1>3 DEF ExpandInv

(* What was there to be read before a write is there after it.             *)
LEMMA WorldKept ==
    ASSUME head \in Nat, NEW add, NEW remove, Commit(add, remove)
    PROVE  /\ head' = head + 1
           /\ \A rev \in 0..head : history'[rev] = history[rev] /\ World(rev)' = World(rev)
           /\ history'[head'] = (history[head] \ remove) \cup add
BY DEF Commit, World

LEMMA ExpandNext ==
    ASSUME NEW worlds, ClosedUnder(worlds, Writes), ExpandInv(worlds), [Next]_vars
    PROVE  ExpandInv(worlds)'
<1>1. head \in Nat /\ IsRequest(expansion)
  BY DEF ExpandInv
<1>2. CASE ReceiveExpand
  <2>1. head' = head /\ history' = history
    BY <1>2 DEF ReceiveExpand, storeVars
  <2>2. PICK key \in Goals :
          expansion' = [Idle EXCEPT !.phase = "head", !.key = key, !.began = head]
    BY <1>2 DEF ReceiveExpand
  <2>3. /\ expansion' = [phase |-> "head", key |-> key, began |-> head,
                         revision |-> 0, tree |-> NoTree]
        /\ expansion'.phase = "head" /\ expansion'.key = key
        /\ expansion'.began = head /\ expansion'.tree = NoTree
    BY <2>2 DEF Idle
  <2>4. IsRequest(expansion)'
    BY <2>3 DEF IsRequest
  <2> QED
    BY <1>1, <2>1, <2>3, <2>4 DEF ExpandInv
<1>3. CASE ResolveExpand
  <2>1. /\ head' = head /\ history' = history
        /\ expansion.phase = "head"
        /\ expansion' = [expansion EXCEPT !.phase = "draw", !.revision = head]
    BY <1>3 DEF ResolveExpand, storeVars
  <2>2. /\ expansion'.phase = "draw" /\ expansion'.key = expansion.key
        /\ expansion'.began = expansion.began /\ expansion'.revision = head
        /\ expansion'.tree = expansion.tree
        /\ IsRequest(expansion)'
    BY <1>1, <2>1 DEF IsRequest
  <2>3. expansion.began \in 0..head /\ expansion.key \in Goals /\ expansion.tree = NoTree
    BY <2>1 DEF ExpandInv
  <2>4. head \in expansion.began..head
    BY <1>1, <2>3
  <2> QED
    BY <1>1, <2>1, <2>2, <2>3, <2>4 DEF ExpandInv
<1>4. CASE DrawTree
  <2>1. /\ head' = head /\ history' = history
        /\ expansion.phase = "draw"
        /\ expansion' = [expansion EXCEPT !.phase = "done", !.tree = Drawn(expansion)]
    BY <1>4 DEF DrawTree, storeVars
  <2>2. /\ expansion'.phase = "done" /\ expansion'.key = expansion.key
        /\ expansion'.began = expansion.began /\ expansion'.revision = expansion.revision
        /\ expansion'.tree = Drawn(expansion)
        /\ IsRequest(expansion)'
    BY <1>1, <2>1 DEF IsRequest
  <2>3. /\ expansion.began \in 0..head /\ expansion.key \in Goals
        /\ expansion.revision \in expansion.began..head
    BY <2>1 DEF ExpandInv
  <2>4. World(expansion.revision)' = World(expansion.revision)
    BY <2>1, <2>2 DEF World
  <2>5. expansion'.tree = ExpandKey(World(expansion.revision)', expansion'.key, 0, {})
    BY <2>2, <2>4 DEF Drawn
  <2> QED
    BY <1>1, <2>1, <2>2, <2>3, <2>5 DEF ExpandInv
<1>5. CASE ExpandFails
  <2>1. /\ head' = head /\ history' = history
        /\ expansion.phase \in {"head", "draw"}
        /\ expansion' = [expansion EXCEPT !.phase = "done", !.tree = FailedTree("store")]
    BY <1>5 DEF ExpandFails, storeVars
  <2>2. /\ expansion'.phase = "done" /\ expansion'.key = expansion.key
        /\ expansion'.began = expansion.began /\ expansion'.tree = FailedTree("store")
        /\ IsRequest(expansion)'
    BY <1>1, <2>1 DEF IsRequest
  <2> QED
    BY <1>1, <2>1, <2>2 DEF ExpandInv
<1>6. CASE RespondExpand
  <2>1. head' = head /\ history' = history /\ expansion' = Idle
    BY <1>6 DEF RespondExpand, storeVars
  <2>2. expansion'.phase = "idle" /\ expansion'.tree = NoTree /\ IsRequest(expansion)'
    BY <2>1 DEF IsRequest, Idle
  <2> QED
    BY <1>1, <2>1, <2>2 DEF ExpandInv
<1>7. CASE WriteArrives
  <2>1. expansion' = expansion
    BY <1>7 DEF WriteArrives
  <2>2. PICK write \in Writes : Commit(write.add, write.remove)
    BY <1>7 DEF WriteArrives
  <2>3. /\ head' = head + 1
        /\ \A rev \in 0..head : history'[rev] = history[rev] /\ World(rev)' = World(rev)
        /\ history'[head'] = (history[head] \ write.remove) \cup write.add
    BY <1>1, <2>2, WorldKept
  <2>4. history[head] \in worlds /\ \A rev \in 0..head : history[rev] \in worlds
    BY <1>1 DEF ExpandInv
  <2>5. history'[head'] \in worlds
    BY <2>3, <2>4 DEF ClosedUnder
  <2>6. \A rev \in 0..head' : history'[rev] \in worlds
    <3>1. \A rev \in 0..head' : rev \in 0..head \/ rev = head'
      BY <1>1, <2>3
    <3> QED
      BY <2>3, <2>4, <2>5, <3>1
  <2>7. \A e \in Nat : \A rev \in e..head : rev \in e..head' /\ rev \in 0..head
    BY <1>1, <2>3
  <2>8. expansion.began \in 0..head => expansion.began \in Nat /\ expansion.began \in 0..head'
    BY <1>1, <2>3
  <2>9. expansion.phase = "done" =>
          \/ expansion.tree = FailedTree("store")
          \/ /\ expansion.revision \in expansion.began..head'
             /\ expansion.tree
                  = ExpandKey(World(expansion.revision)', expansion.key, 0, {})
    <3>1. /\ expansion.revision \in expansion.began..head
          /\ expansion.began \in 0..head
          => World(expansion.revision)' = World(expansion.revision)
      BY <2>1, <2>3, <2>7, <2>8
    <3> QED
      BY <2>7, <2>8, <3>1 DEF ExpandInv
  <2> QED
    BY <1>1, <2>1, <2>3, <2>6, <2>7, <2>8, <2>9 DEF ExpandInv
<1>8. CASE UNCHANGED vars
  <2>1. head' = head /\ history' = history /\ expansion' = expansion
    BY <1>8 DEF vars
  <2>2. World(expansion.revision)' = World(expansion.revision)
    BY <2>1 DEF World
  <2> QED
    BY <2>1, <2>2 DEF ExpandInv
<1> QED
  BY <1>2, <1>3, <1>4, <1>5, <1>6, <1>7, <1>8 DEF Next

(* Every tree that an expansion answers with is the one that expand draws  *)
(* of the key in a world of the history, at a revision that was the head   *)
(* while the request was being served (DrawTree), or a failure of the      *)
(* store.                                                                  *)
THEOREM ExpandInvariance ==
    ASSUME NEW worlds, ClosedUnder(worlds, Writes)
    PROVE  Spec => []ExpandInv(worlds)
<1>1. Init => ExpandInv(worlds)
  BY ExpandInit
<1>2. ExpandInv(worlds) /\ [Next]_vars => ExpandInv(worlds)'
  BY ExpandNext
<1> QED
  BY <1>1, <1>2, PTL DEF Spec

LEMMA NoTreeOfAKey ==
    /\ NoTree.type = "leaf"
    /\ FailedTree("store").type = "store" /\ IsFailed(FailedTree("store"))
<1> DEFINE none == RelationKey(Object("", ""), "")
<1>1. NoTree = Node("leaf", none, << >>, << >>)
  BY Zenon DEF NoTree, Leaf
<1>2. FailedTree("store") = Node("store", none, << >>, << >>)
  BY Zenon DEF FailedTree
<1> HIDE DEF none
<1>3. NoTree.type = "leaf"
  BY <1>1, NodeFields
<1>4. FailedTree("store").type = "store"
  BY <1>2, NodeFields
<1> QED
  BY <1>3, <1>4 DEF IsFailed

LEMMA RootIs ==
    ASSUME NEW world, TreesUnfold(world), NEW key \in Keys
    PROVE  Tree(world, key, {}) = ExpandKey(world, key, 0, {})
<1>1. Cardinality({}) = 0
  BY FS_EmptySet
<1> QED
  BY <1>1 DEF TreesUnfold, IsDrawn, Tree

(* Reading the tree of a request tells of every subject whether the        *)
(* relation holds at the revision of the tree (ExpandKey, ExpandRewrite),  *)
(* wherever groups contain each other and the tree cuts the cycle short:   *)
(* for every schema and data of which no cycle goes through what an        *)
(* exclusion subtracts.                                                    *)
THEOREM TreesCorrect ==
    ASSUME NEW worlds, ClosedUnder(worlds, Writes),
           RewritesClosed, RewritesMeasured, IsFiniteSet(DefinedKeys), GoalsKnown,
           \A world \in worlds : TreesExplained(world) /\ TreesUnfold(world)
    PROVE  Spec => []TreesDecide
<1>1. ASSUME ExpandInv(worlds) PROVE TreesDecide
  <2> SUFFICES ASSUME expansion.phase = "done", ~ IsFailed(expansion.tree)
               PROVE  /\ expansion.revision \in expansion.began..head
                      /\ \A subject \in Subjects :
                           Reads(expansion.tree, subject)
                             <=> Holds(World(expansion.revision), expansion.key, subject)
    BY DEF TreesDecide
  <2> DEFINE world == World(expansion.revision)
             key == expansion.key
  <2>1. expansion.tree # FailedTree("store")
    BY NoTreeOfAKey
  <2>2. /\ key \in Keys /\ head \in Nat /\ expansion.began \in 0..head
        /\ expansion.revision \in expansion.began..head
        /\ expansion.tree = ExpandKey(world, key, 0, {})
    BY <1>1, <2>1 DEF ExpandInv, GoalsKnown
  <2>3. expansion.revision \in 0..head
    BY <2>2
  <2>4. world \in worlds
    BY <1>1, <2>2, <2>3 DEF World, ExpandInv
  <2>5. Supposed(world)
    BY <2>4 DEF Supposed
  <2> HIDE DEF world, key
  <2>6. expansion.tree = Tree(world, key, {})
    BY <2>2, <2>5, RootIs DEF Supposed
  <2>7. ASSUME NEW subject \in Subjects
        PROVE  Reads(expansion.tree, subject) <=> Holds(world, key, subject)
    <3>1. KeyRight(world, subject, key, {})
      BY <2>2, <2>5, EveryKeyRight
    <3>2. Beneath(world, {}, key) /\ IsFree(world, {}, key, subject)
      BY DEF Beneath, IsFree
    <3>3. /\ Shows(expansion.tree, subject) => Holds(world, key, subject)
          /\ Holds(world, key, subject) => Shows(expansion.tree, subject)
      BY <2>6, <3>1, <3>2 DEF KeyRight, Decides
    <3>4. Shows(expansion.tree, subject) <=> Reads(expansion.tree, subject)
      BY <2>2, <2>5, <2>6, KeyCases DEF Supposed
    <3> QED
      BY <3>3, <3>4
  <2> QED
    BY <2>2, <2>7 DEF world, key
<1>2. Spec => []ExpandInv(worlds)
  BY ExpandInvariance
<1> QED
  BY <1>1, <1>2, PTL

(* Where there are no more relations on objects than MaxDepth, and no name *)
(* is unknown, every relation of the schema can be expanded, however       *)
(* groups contain each other: the visited set of expand keeps cycles from  *)
(* using up the depth.                                                     *)
THEOREM DrawnCorrect ==
    ASSUME NEW worlds, ClosedUnder(worlds, Writes),
           RewritesClosed, RewritesMeasured, IsFiniteSet(DefinedKeys),
           \A world \in worlds : /\ IsFiniteSet(world) /\ Compositional(world)
                                 /\ NamesKnown(world) /\ TreesUnfold(world)
    PROVE  Spec => []TreesDrawn
<1>1. ASSUME ExpandInv(worlds) PROVE TreesDrawn
  <2> DEFINE world == World(expansion.revision)
             key == expansion.key
  <2> SUFFICES ASSUME Cardinality(DefinedKeys) <= MaxDepth, key \in DefinedKeys
               PROVE  expansion.tree.type \notin {"depth", "lookup"}
    BY DEF TreesDrawn
  <2>1. CASE expansion.phase # "done"
    <3>1. expansion.tree = NoTree
      BY <1>1, <2>1 DEF ExpandInv
    <3> QED
      BY <3>1, NoTreeOfAKey
  <2>2. CASE expansion.phase = "done" /\ expansion.tree = FailedTree("store")
    BY <2>2, NoTreeOfAKey
  <2>3. CASE expansion.phase = "done" /\ expansion.tree # FailedTree("store")
    <3>1. /\ head \in Nat /\ expansion.began \in 0..head
          /\ expansion.revision \in expansion.began..head
          /\ expansion.tree = ExpandKey(world, key, 0, {})
      BY <1>1, <2>3 DEF ExpandInv
    <3>2. expansion.revision \in 0..head
      BY <3>1
    <3>3. world \in worlds
      BY <1>1, <3>1, <3>2 DEF World, ExpandInv
    <3>4. IsFit(world)
      BY <3>3 DEF IsFit
    <3> HIDE DEF world, key
    <3>5. key \in Keys
      BY DEF DefinedKeys
    <3>6. expansion.tree = Tree(world, key, {})
      BY <3>1, <3>4, <3>5, RootIs DEF IsFit
    <3>7. ~ IsFailed(expansion.tree)
      BY <3>4, <3>6, EveryKeyDrawn
    <3> QED
      BY <3>7 DEF IsFailed
  <2> QED
    BY <2>1, <2>2, <2>3
<1>2. Spec => []ExpandInv(worlds)
  BY ExpandInvariance
<1> QED
  BY <1>1, <1>2, PTL
=============================================================================
