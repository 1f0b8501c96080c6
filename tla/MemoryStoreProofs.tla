------------------------- MODULE MemoryStoreProofs -------------------------
(***************************************************************************)
(* Theorems about the in-process store, for every set of tuples and every  *)
(* bound.  The inductive invariant adds to the properties of MemoryStore   *)
(* nothing but the progress of the two loops of Write.                     *)
(***************************************************************************)
EXTENDS MemoryStore, SequenceTheorems, TLAPS

IInv == TypeOK /\ IndexesExact /\ LifetimesDisjoint /\ WriteProgress

----------------------------------------------------------------------------
LEMMA RowTypes ==
    ASSUME TypeOK, NEW i \in Offsets
    PROVE  /\ rows[i] \in RowType
           /\ rows[i].tuple \in Tuples
           /\ rows[i].created \in Nat
           /\ rows[i].deleted \in Nat
<1>1. rows[i] \in RowType
  BY DEF TypeOK, Offsets
<1> QED
  BY <1>1 DEF RowType

(* An entry is a tuple of its own key and subject, and the entries of two  *)
(* tuples are the same iff their keys and subjects are.                    *)
LEMMA EntryIs ==
    ASSUME NEW t \in Tuples
    PROVE  /\ Entry[t] \in Tuples
           /\ IndexKey(Entry[t]) = IndexKey(t) /\ Entry[t].subject = t.subject
           /\ \A u \in Tuples : Entry[u] = Entry[t]
                <=> IndexKey(u) = IndexKey(t) /\ u.subject = t.subject
<1>1. ASSUME NEW u \in Tuples
      PROVE  /\ Entry[u] = CHOOSE v \in Alike(u) : TRUE
             /\ Entry[u] \in Alike(u)
  <2>1. Entry[u] = CHOOSE v \in Alike(u) : TRUE
    BY DEF Entry
  <2>2. u \in Alike(u)
    BY DEF Alike
  <2> HIDE DEF Alike
  <2> QED
    BY <2>1, <2>2
<1>2. ASSUME NEW u \in Tuples
      PROVE  /\ Entry[u] \in Tuples
             /\ IndexKey(Entry[u]) = IndexKey(u) /\ Entry[u].subject = u.subject
  BY <1>1 DEF Alike
<1>3. ASSUME NEW u \in Tuples, IndexKey(u) = IndexKey(t), u.subject = t.subject
      PROVE  Entry[u] = Entry[t]
  <2>1. Alike(u) = Alike(t)
    BY <1>3 DEF Alike
  <2> HIDE DEF Alike
  <2> QED
    BY <1>1, <2>1
<1> QED
  BY <1>2, <1>3

(* Where no other relation has the key, an entry is the tuple itself.      *)
LEMMA OwnedEntry ==
    ASSUME NEW t \in Tuples, NEW u \in Tuples, OwnsKey(t), IndexKey(u) = IndexKey(t)
    PROVE  Entry[u] = u /\ KeyOf(u) = KeyOf(t)
<1>1. Entry[u] \in Tuples /\ IndexKey(Entry[u]) = IndexKey(t) /\ Entry[u].subject = u.subject
  BY EntryIs
<1>2. KeyOf(Entry[u]) = KeyOf(t) /\ KeyOf(u) = KeyOf(t)
  BY <1>1 DEF OwnsKey
<1> DEFINE v == Entry[u]
<1> HIDE DEF v
<1>3. v \in Tuples /\ KeyOf(v) = KeyOf(u) /\ v.subject = u.subject
  BY <1>1, <1>2 DEF v
<1>4. v = Tuple(v.object, v.relation, v.subject) /\ u = Tuple(u.object, u.relation, u.subject)
  BY <1>3, MemoryTuplesAssumption
<1>5. v.object = u.object /\ v.relation = u.relation
  BY <1>3 DEF KeyOf, RelationKey
<1>6. v = u
  BY <1>3, <1>4, <1>5
<1> QED
  BY <1>2, <1>6 DEF v

(* The live rows that a pass of a loop finds through the index are the     *)
(* live rows of its entry: the comparison of subjects in Write is enough.  *)
LEMMA LiveMatchesExact ==
    ASSUME TypeOK, IndexesExact, NEW t \in Tuples
    PROVE  LiveMatches(t) = {i \in Offsets : IsLive(rows[i]) /\ Entry[rows[i].tuple] = Entry[t]}
<1>1. IndexKey(t) \in Keys
  BY DEF Keys
<1>2. ASSUME NEW i \in Offsets
      PROVE  IndexKey(rows[i].tuple) = IndexKey(t) /\ rows[i].tuple.subject = t.subject
               <=> Entry[rows[i].tuple] = Entry[t]
  BY RowTypes, EntryIs
<1> QED
  BY <1>1, <1>2 DEF LiveMatches, IndexesExact

----------------------------------------------------------------------------
(* What the two passes that write do to the rows.                          *)

LEMMA RemoveEffect ==
    ASSUME TypeOK, IndexesExact, RemoveOne
    PROVE  /\ removing[next] \in Tuples
           /\ rows' \in Seq(RowType)
           /\ Len(rows') = Len(rows)
           /\ \A i \in Offsets :
                /\ rows'[i].tuple = rows[i].tuple
                /\ rows'[i].created = rows[i].created
                /\ rows'[i].deleted =
                     IF rows[i].deleted = 0 /\ Entry[rows[i].tuple] = Entry[removing[next]]
                       THEN head ELSE rows[i].deleted
<1> DEFINE t == removing[next]
<1>1. t \in Tuples
  BY DEF TypeOK, RemoveOne
<1>2. LiveMatches(t) = {i \in Offsets : IsLive(rows[i]) /\ Entry[rows[i].tuple] = Entry[t]}
  BY <1>1, LiveMatchesExact
<1>3. rows' = [i \in Offsets |->
                 IF IsLive(rows[i]) /\ Entry[rows[i].tuple] = Entry[t]
                   THEN [rows[i] EXCEPT !.deleted = head] ELSE rows[i]]
  BY <1>2 DEF RemoveOne, Tombstone
<1>4. head \in Nat /\ Len(rows) \in Nat
  BY MemoryMaxRevisionAssumption DEF TypeOK
<1>5. ASSUME NEW i \in Offsets
      PROVE  /\ rows'[i] \in RowType
             /\ rows'[i].tuple = rows[i].tuple
             /\ rows'[i].created = rows[i].created
             /\ rows'[i].deleted = IF rows[i].deleted = 0 /\ Entry[rows[i].tuple] = Entry[t]
                                     THEN head ELSE rows[i].deleted
  <2>1. rows[i] \in RowType
    BY RowTypes
  <2> QED
    BY <2>1, <1>3, <1>4 DEF RowType, IsLive
<1>6. DOMAIN rows' = 1..Len(rows)
  BY <1>3 DEF Offsets
<1>7. rows' \in [1..Len(rows) -> RowType]
  BY <1>3, <1>5, <1>6 DEF Offsets
<1>8. rows' \in Seq(RowType) /\ Len(rows') = Len(rows)
  BY <1>4, <1>6, <1>7, IsASeq, LenProperties
<1> QED
  BY <1>1, <1>5, <1>8

LEMMA AddEffect ==
    ASSUME TypeOK, IndexesExact, AddRow
    PROVE  /\ adding[next] \in Tuples
           /\ rows' \in Seq(RowType)
           /\ Len(rows') = Len(rows) + 1
           /\ \A i \in Offsets : rows'[i] = rows[i]
           /\ rows'[Len(rows) + 1] =
                [tuple |-> adding[next], created |-> head, deleted |-> 0]
           /\ \A i \in Offsets :
                Entry[rows[i].tuple] = Entry[adding[next]] => rows[i].deleted # 0
<1> DEFINE t == adding[next]
           r == [tuple |-> t, created |-> head, deleted |-> 0]
<1>1. t \in Tuples
  BY DEF TypeOK, AddRow
<1>2. {i \in Offsets : IsLive(rows[i]) /\ Entry[rows[i].tuple] = Entry[t]} = {}
  BY <1>1, LiveMatchesExact DEF AddRow, IsDuplicate
<1>3. r \in RowType
  BY <1>1, MemoryMaxRevisionAssumption DEF RowType, TypeOK
<1>4. rows \in Seq(RowType) /\ rows' = Append(rows, r)
  BY DEF TypeOK, AddRow, AppendRow, NewRow
<1>5. /\ rows' \in Seq(RowType)
      /\ Len(rows') = Len(rows) + 1
      /\ \A i \in 1..Len(rows) : rows'[i] = rows[i]
      /\ rows'[Len(rows) + 1] = r
  BY <1>3, <1>4, AppendProperties
<1> QED
  BY <1>1, <1>2, <1>5 DEF Offsets, IsLive

(* What they do to the tuples that a revision shows.                       *)

(* At the head, what is visible is what is live.                           *)
LEMMA VisibleAtHead ==
    ASSUME TypeOK
    PROVE  VisibleAt(head) =
             {Entry[rows[i].tuple] : i \in {j \in Offsets : rows[j].deleted = 0}}
<1>1. \A i \in Offsets : IsVisible(rows[i], head) <=> rows[i].deleted = 0
  BY RowTypes, MemoryMaxRevisionAssumption DEF TypeOK, IsVisible
<1> QED
  BY <1>1 DEF VisibleAt

LEMMA ProcessedStep ==
    ASSUME NEW batch, NEW n \in Nat \ {0}
    PROVE  Processed(batch, n) = Processed(batch, n - 1) \cup {Entry[batch[n]]}
BY DEF Processed

LEMMA RemoveVisible ==
    ASSUME IInv, RemoveOne
    PROVE  /\ VisibleAt(head)' = VisibleAt(head) \ {Entry[removing[next]]}
           /\ VisibleAt(head - 1)' = VisibleAt(head - 1)
<1> USE DEF IInv
<1>1. head \in Nat /\ head' = head /\ head > 0 /\ Offsets' = Offsets
  BY RemoveEffect, MemoryMaxRevisionAssumption DEF TypeOK, RemoveOne, Offsets
<1>2. ASSUME NEW i \in Offsets
      PROVE  /\ rows'[i].tuple = rows[i].tuple
             /\ IsVisible(rows'[i], head) <=>
                  IsVisible(rows[i], head)
                    /\ Entry[rows[i].tuple] # Entry[removing[next]]
             /\ IsVisible(rows'[i], head - 1) <=> IsVisible(rows[i], head - 1)
  <2>1. /\ rows[i].created \in 1..head
        /\ rows[i].deleted \in 0..head
    BY DEF TypeOK
  <2> QED
    BY <1>1, <2>1, RemoveEffect DEF IsVisible
<1> QED
  BY <1>1, <1>2 DEF VisibleAt

LEMMA AddVisible ==
    ASSUME IInv, AddRow
    PROVE  /\ VisibleAt(head)' = VisibleAt(head) \cup {Entry[adding[next]]}
           /\ VisibleAt(head - 1)' = VisibleAt(head - 1)
<1> USE DEF IInv
<1> DEFINE new == Len(rows) + 1
<1>1. /\ head \in Nat /\ head' = head /\ head > 0
      /\ Len(rows) \in Nat
      /\ Offsets' = Offsets \cup {new}
  BY AddEffect, MemoryMaxRevisionAssumption DEF TypeOK, AddRow, Offsets
<1>2. /\ rows'[new].tuple = adding[next]
      /\ IsVisible(rows'[new], head)
      /\ ~ IsVisible(rows'[new], head - 1)
  BY <1>1, AddEffect DEF IsVisible
<1>3. \A i \in Offsets : rows'[i] = rows[i]
  BY AddEffect
<1> QED
  BY <1>1, <1>2, <1>3 DEF VisibleAt

LEMMA DuplicateVisible ==
    ASSUME IInv, AddDuplicate
    PROVE  Entry[adding[next]] \in VisibleAt(head)
<1> DEFINE t == adding[next]
<1>1. t \in Tuples
  BY DEF IInv, TypeOK, AddDuplicate
<1>2. PICK i \in Offsets : rows[i].deleted = 0 /\ Entry[rows[i].tuple] = Entry[t]
  BY <1>1, LiveMatchesExact DEF IInv, AddDuplicate, IsDuplicate, IsLive
<1> QED
  BY <1>2, VisibleAtHead DEF IInv

----------------------------------------------------------------------------
(* The inductive step, one lemma for each conjunct of the invariant.       *)

LEMMA TypeStep ==
    ASSUME IInv, [Next]_vars
    PROVE  TypeOK'
<1> USE DEF IInv
<1>1. ASSUME NEW add \in Batches, NEW remove \in Batches, BeginWrite(add, remove)
      PROVE  TypeOK'
  <2>1. add \in Seq(Tuples) /\ remove \in Seq(Tuples)
    BY MemoryMaxBatchAssumption DEF Batches
  <2> QED
    BY <1>1, <2>1, MemoryMaxRevisionAssumption DEF BeginWrite, TypeOK, Offsets
<1>2. CASE RemoveOne
  <2>1. Offsets' = Offsets
    BY <1>2, RemoveEffect DEF Offsets
  <2>2. \A i \in Offsets : rows'[i].created \in 1..head /\ rows'[i].deleted \in 0..head
    BY <1>2, RemoveEffect, MemoryMaxRevisionAssumption DEF TypeOK
  <2> QED
    BY <1>2, <2>1, <2>2, RemoveEffect DEF RemoveOne, TypeOK
<1>3. CASE RemovesDone
  BY <1>3 DEF RemovesDone, TypeOK, Offsets
<1>4. CASE AddDuplicate
  BY <1>4 DEF AddDuplicate, TypeOK, Offsets
<1>5. CASE AddRow
  <2> DEFINE t == adding[next]
             new == Len(rows) + 1
  <2>1. Offsets' = Offsets \cup {new} /\ new \in Offsets'
    BY <1>5, AddEffect DEF Offsets, TypeOK
  <2>2. IndexKey(t) \in Keys /\ t.subject \in Subjects
    BY <1>5, AddEffect DEF Keys, Subjects
  <2>3. /\ index' \in [Keys -> SUBSET Offsets']
        /\ reverse' \in [Subjects -> SUBSET Offsets']
    BY <1>5, <2>1, <2>2 DEF AddRow, AppendRow, TypeOK, Offsets
  <2>4. \A i \in Offsets' : rows'[i].created \in 1..head /\ rows'[i].deleted \in 0..head
    <3>1. head \in 1..head /\ 0 \in 0..head
      BY <1>5, MemoryMaxRevisionAssumption DEF AddRow, TypeOK
    <3>2. rows'[new].created = head /\ rows'[new].deleted = 0
      BY <1>5, AddEffect
    <3>3. \A i \in Offsets : /\ rows'[i].created \in 1..head
                            /\ rows'[i].deleted \in 0..head
      BY <1>5, AddEffect DEF TypeOK
    <3> QED
      BY <2>1, <3>1, <3>2, <3>3
  <2>5. /\ rows' \in Seq(RowType)
        /\ head' = head /\ phase' = phase /\ next' = next + 1
        /\ adding' = adding /\ removing' = removing
    BY <1>5, AddEffect DEF AddRow
  <2> QED
    BY <2>3, <2>4, <2>5 DEF TypeOK
<1>6. CASE EndWrite
  BY <1>6 DEF EndWrite, dataVars, TypeOK, Offsets
<1>7. CASE UNCHANGED vars
  BY <1>7 DEF vars, TypeOK, Offsets
<1> QED
  BY <1>1, <1>2, <1>3, <1>4, <1>5, <1>6, <1>7 DEF Next

LEMMA IndexesStep ==
    ASSUME IInv, [Next]_vars
    PROVE  IndexesExact'
<1> USE DEF IInv
<1>1. CASE RemoveOne
  <2>1. Offsets' = Offsets /\ \A i \in Offsets : rows'[i].tuple = rows[i].tuple
    BY <1>1, RemoveEffect DEF Offsets
  <2> QED
    BY <1>1, <2>1 DEF RemoveOne, IndexesExact, Keys, Subjects
<1>2. CASE AddRow
  <2> DEFINE t == adding[next]
             new == Len(rows) + 1
  <2>1. /\ Offsets' = Offsets \cup {new} /\ new \notin Offsets
        /\ rows'[new].tuple = t
        /\ \A i \in Offsets : rows'[i].tuple = rows[i].tuple
    BY <1>2, AddEffect DEF Offsets, TypeOK
  <2>2. ASSUME NEW k \in Keys
        PROVE  index'[k] = {i \in Offsets' : IndexKey(rows'[i].tuple) = k}
    <3>1. index'[k] = IF k = IndexKey(t) THEN index[k] \cup {new} ELSE index[k]
      BY <1>2 DEF AddRow, AppendRow, TypeOK
    <3> QED
      BY <2>1, <3>1 DEF IndexesExact
  <2>3. ASSUME NEW s \in Subjects
        PROVE  reverse'[s] = {i \in Offsets' : rows'[i].tuple.subject = s}
    <3>1. reverse'[s] = IF s = t.subject THEN reverse[s] \cup {new} ELSE reverse[s]
      BY <1>2 DEF AddRow, AppendRow, TypeOK
    <3> QED
      BY <2>1, <3>1 DEF IndexesExact
  <2> QED
    BY <2>2, <2>3 DEF IndexesExact, Keys, Subjects
<1>3. CASE UNCHANGED <<rows, index, reverse>>
  BY <1>3 DEF IndexesExact, Keys, Subjects, Offsets
<1> QED
  BY <1>1, <1>2, <1>3
  DEF Next, BeginWrite, RemovesDone, AddDuplicate, EndWrite, dataVars, vars

LEMMA LifetimesStep ==
    ASSUME IInv, [Next]_vars
    PROVE  LifetimesDisjoint'
<1> USE DEF IInv
<1>1. CASE RemoveOne
  <2>1. Offsets' = Offsets
    BY <1>1, RemoveEffect DEF Offsets
  <2>2. ASSUME NEW i \in Offsets
        PROVE  /\ rows[i].created \in Nat
               /\ rows[i].created < head
               /\ rows[i].deleted \in Nat
               /\ head \in Nat /\ head > 0
    BY <1>1, RowTypes, MemoryMaxRevisionAssumption DEF RemoveOne, WriteProgress, TypeOK
  <2>3. ASSUME NEW i \in Offsets
        PROVE  IsLive(rows'[i]) \/ rows'[i].created < rows'[i].deleted
    BY <1>1, <2>2, RemoveEffect DEF LifetimesDisjoint, IsLive
  <2>4. ASSUME NEW i \in Offsets, NEW j \in Offsets,
               i < j, Entry[rows'[i].tuple] = Entry[rows'[j].tuple]
        PROVE  rows'[i].deleted \in 1..rows'[j].created
    <3>1. /\ Entry[rows[i].tuple] = Entry[rows[j].tuple]
          /\ rows'[j].created = rows[j].created
      BY <1>1, <2>4, RemoveEffect
    <3>2. rows[i].deleted \in 1..rows[j].created
      BY <2>4, <3>1 DEF LifetimesDisjoint
    <3>3. rows'[i].deleted = rows[i].deleted
      BY <1>1, <2>2, <3>2, RemoveEffect
    <3> QED
      BY <3>1, <3>2, <3>3
  <2> QED
    BY <2>1, <2>3, <2>4 DEF LifetimesDisjoint
<1>2. CASE AddRow
  <2> DEFINE new == Len(rows) + 1
  <2>1. /\ Len(rows) \in Nat
        /\ Offsets' = Offsets \cup {new}
        /\ \A i \in Offsets : i \in Nat /\ i < new /\ rows'[i] = rows[i]
        /\ rows'[new].created = head
        /\ IsLive(rows'[new])
    BY <1>2, AddEffect DEF Offsets, TypeOK, IsLive
  <2>2. ASSUME NEW i \in Offsets, Entry[rows[i].tuple] = Entry[rows'[new].tuple]
        PROVE  rows[i].deleted \in 1..head
    BY <1>2, <2>2, AddEffect, RowTypes, MemoryMaxRevisionAssumption DEF TypeOK
  <2>3. \A i \in Offsets' : IsLive(rows'[i]) \/ rows'[i].created < rows'[i].deleted
    BY <2>1 DEF LifetimesDisjoint
  <2>4. ASSUME NEW i \in Offsets', NEW j \in Offsets',
               i < j, Entry[rows'[i].tuple] = Entry[rows'[j].tuple]
        PROVE  rows'[i].deleted \in 1..rows'[j].created
    <3>1. i \in Offsets
      BY <2>1, <2>4
    <3>2. CASE j = new
      BY <2>1, <2>2, <2>4, <3>1, <3>2
    <3>3. CASE j \in Offsets
      BY <2>1, <2>4, <3>1, <3>3 DEF LifetimesDisjoint
    <3> QED
      BY <2>1, <3>2, <3>3
  <2> QED
    BY <2>3, <2>4 DEF LifetimesDisjoint
<1>3. CASE UNCHANGED rows
  BY <1>3 DEF LifetimesDisjoint, Offsets
<1> QED
  BY <1>1, <1>2, <1>3
  DEF Next, BeginWrite, RemovesDone, AddDuplicate, EndWrite, dataVars, vars

LEMMA ProgressStep ==
    ASSUME IInv, [Next]_vars
    PROVE  WriteProgress'
<1> USE DEF IInv
<1>0. head \in Nat /\ next \in Nat \ {0} /\ Len(adding) \in Nat /\ Len(removing) \in Nat
  BY MemoryMaxRevisionAssumption, LenProperties DEF TypeOK
<1>1. ASSUME NEW add \in Batches, NEW remove \in Batches, BeginWrite(add, remove)
      PROVE  WriteProgress'
  <2>1. /\ phase' = "remove" /\ next' = 1 /\ head' = head + 1
        /\ rows' = rows /\ removing' = remove /\ Offsets' = Offsets
    BY <1>1 DEF BeginWrite, Offsets
  <2>2. remove \in Seq(Tuples)
    BY MemoryMaxBatchAssumption DEF Batches
  <2>3. \A i \in Offsets : /\ rows[i].created < head + 1
                           /\ IsVisible(rows[i], head) <=> IsVisible(rows[i], head + 1)
    BY <1>0, RowTypes DEF TypeOK, IsVisible
  <2>4. VisibleAt(head)' = VisibleAt(head - 1)'
    BY <1>0, <2>1, <2>3 DEF VisibleAt
  <2>5. Processed(removing, next - 1)' = {}
    BY <2>1 DEF Processed
  <2>6. next' <= Len(removing') + 1
    BY <2>1, <2>2, LenProperties
  <2> QED
    BY <2>1, <2>3, <2>4, <2>5, <2>6 DEF WriteProgress
<1>2. CASE RemoveOne
  <2>1. /\ phase = "remove" /\ phase' = "remove" /\ head' = head
        /\ next <= Len(removing) /\ next' = next + 1
        /\ removing' = removing
    BY <1>2 DEF RemoveOne
  <2>2. \A i \in Offsets' : rows'[i].created < head'
    BY <1>2, <2>1, RemoveEffect DEF WriteProgress, Offsets
  <2>3. Processed(removing, next) = Processed(removing, next - 1) \cup {Entry[removing[next]]}
    BY <1>0, ProcessedStep
  <2>4. Processed(removing, next - 1)' = Processed(removing, next)
    BY <1>0, <2>1 DEF Processed
  <2>5. VisibleAt(head)' = VisibleAt(head - 1)' \ Processed(removing, next - 1)'
    BY <1>2, <2>1, <2>3, <2>4, RemoveVisible DEF WriteProgress
  <2>6. next' <= Len(removing') + 1
    BY <1>0, <2>1
  <2> QED
    BY <2>1, <2>2, <2>5, <2>6 DEF WriteProgress
<1>3. CASE RemovesDone
  <2>1. /\ phase = "remove" /\ phase' = "add" /\ next > Len(removing) /\ next' = 1
        /\ UNCHANGED <<head, rows, adding, removing>>
    BY <1>3 DEF RemovesDone
  <2>2. next - 1 = Len(removing)
    BY <1>0, <2>1 DEF WriteProgress
  <2>3. Processed(adding, next - 1)' = {}
    BY <2>1 DEF Processed
  <2>4. VisibleAt(head)' = VisibleAt(head) /\ VisibleAt(head - 1)' = VisibleAt(head - 1)
    BY <2>1 DEF VisibleAt, Offsets
  <2> QED
    BY <1>0, <2>1, <2>2, <2>3, <2>4 DEF WriteProgress, Processed
<1>4. CASE AddDuplicate
  <2>1. /\ phase = "add" /\ phase' = "add"
        /\ next <= Len(adding) /\ next' = next + 1
        /\ UNCHANGED <<head, rows, adding, removing>>
    BY <1>4 DEF AddDuplicate
  <2>2. Processed(adding, next) = Processed(adding, next - 1) \cup {Entry[adding[next]]}
    BY <1>0, ProcessedStep
  <2>3. Entry[adding[next]] \in VisibleAt(head)
    BY <1>4, DuplicateVisible
  <2>4. VisibleAt(head)' = VisibleAt(head) /\ VisibleAt(head - 1)' = VisibleAt(head - 1)
    BY <2>1 DEF VisibleAt, Offsets
  <2> QED
    BY <1>0, <2>1, <2>2, <2>3, <2>4 DEF WriteProgress, Processed
<1>5. CASE AddRow
  <2>1. /\ phase = "add" /\ phase' = "add" /\ head' = head
        /\ next <= Len(adding) /\ next' = next + 1
        /\ UNCHANGED <<adding, removing>>
    BY <1>5 DEF AddRow
  <2>2. Processed(adding, next) = Processed(adding, next - 1) \cup {Entry[adding[next]]}
    BY <1>0, ProcessedStep
  <2>3. /\ Processed(adding, next - 1)' = Processed(adding, next)
        /\ Processed(removing, Len(removing))' = Processed(removing, Len(removing))
    BY <1>0, <2>1 DEF Processed
  <2>4. next' <= Len(adding') + 1
    BY <1>0, <2>1
  <2>5. /\ VisibleAt(head)' = VisibleAt(head) \cup {Entry[adding[next]]}
        /\ VisibleAt(head - 1)' = VisibleAt(head - 1)
    BY <1>5, AddVisible
  <2>6. VisibleAt(head) = (VisibleAt(head - 1) \ Processed(removing, Len(removing)))
                            \cup Processed(adding, next - 1)
    BY <2>1 DEF WriteProgress
  <2> QED
    BY <2>1, <2>2, <2>3, <2>4, <2>5, <2>6 DEF WriteProgress
<1>6. CASE EndWrite
  BY <1>6 DEF EndWrite, WriteProgress
<1>7. CASE UNCHANGED vars
  <2>1. UNCHANGED <<head, rows, phase, adding, removing, next>>
    BY <1>7 DEF vars
  <2>2. /\ Offsets' = Offsets
        /\ VisibleAt(head)' = VisibleAt(head)
        /\ VisibleAt(head - 1)' = VisibleAt(head - 1)
        /\ Processed(removing, next - 1)' = Processed(removing, next - 1)
        /\ Processed(adding, next - 1)' = Processed(adding, next - 1)
        /\ Processed(removing, Len(removing))' = Processed(removing, Len(removing))
    BY <2>1 DEF VisibleAt, Offsets, Processed
  <2> QED
    BY <2>1, <2>2 DEF WriteProgress
<1> QED
  BY <1>1, <1>2, <1>3, <1>4, <1>5, <1>6, <1>7 DEF Next

----------------------------------------------------------------------------
LEMMA InitInvariant == Init => IInv
<1> SUFFICES ASSUME Init PROVE IInv
  OBVIOUS
<1>1. Offsets = {}
  BY DEF Init, Offsets
<1> QED
  BY <1>1, MemoryMaxRevisionAssumption
  DEF Init, IInv, TypeOK, IndexesExact, LifetimesDisjoint, WriteProgress, Keys, Subjects

(* The inductive invariant holds in every reachable state of the store.    *)
THEOREM Invariance == Spec => []IInv
<1>1. IInv /\ [Next]_vars => IInv'
  BY TypeStep, IndexesStep, LifetimesStep, ProgressStep DEF IInv
<1> QED
  BY InitInvariant, <1>1, PTL DEF Spec

(* Every row of Memory has a real tuple and revisions that exist, and the  *)
(* indexes hold positions of rows.                                         *)
THEOREM TypeCorrect == Spec => []TypeOK
BY Invariance, PTL DEF IInv

(* Memory.index and Memory.reverse never miss a row, nor hold a wrong one. *)
THEOREM IndexesCorrect == Spec => []IndexesExact
BY Invariance, PTL DEF IInv

(* However a tuple is granted, revoked and granted again, no two of its    *)
(* rows live at one revision.                                              *)
THEOREM LifetimesCorrect == Spec => []LifetimesDisjoint
BY Invariance, PTL DEF IInv

(* The loops of Write have done to the revision being written what their   *)
(* positions say, removals before additions.                               *)
THEOREM ProgressCorrect == Spec => []WriteProgress
BY Invariance, PTL DEF IInv

----------------------------------------------------------------------------
(* Reads.                                                                  *)

LEMMA WorldIsVisible ==
    ASSUME IInv, Readable, NEW rev \in 0..(head + 1)
    PROVE  Abstract!World(rev) = VisibleAt(rev)
<1>1. head \in Nat
  BY MemoryMaxRevisionAssumption DEF IInv, TypeOK
<1>2. CommittedHead = head
  BY DEF CommittedHead
<1>3. CASE rev <= head
  BY <1>1, <1>2, <1>3 DEF Abstract!World
<1>4. CASE rev = head + 1
  <2>1. \A i \in Offsets : IsVisible(rows[i], head) <=> IsVisible(rows[i], rev)
    BY <1>1, <1>4, RowTypes DEF IInv, TypeOK, IsVisible
  <2>2. VisibleAt(head) = VisibleAt(rev)
    BY <2>1 DEF VisibleAt
  <2>3. Abstract!World(rev) = VisibleAt(head)
    BY <1>1, <1>2, <1>4 DEF Abstract!World
  <2> QED
    BY <2>2, <2>3
<1> QED
  BY <1>1, <1>3, <1>4

(* The rows that Read and ReadBySubject find, told without the indexes.    *)
OfKey(rev, t) ==
    {i \in Offsets : IndexKey(rows[i].tuple) = IndexKey(t) /\ IsVisible(rows[i], rev)}

OfSubject(rev, t, relation) ==
    {i \in Offsets : /\ rows[i].tuple.subject = t.subject
                     /\ relation \in {NoRelation, rows[i].tuple.relation}
                     /\ IsVisible(rows[i], rev)}

LEMMA ReadsThrough ==
    ASSUME IInv, NEW rev, NEW t \in Tuples
    PROVE  /\ Read(rev, t.object, t.relation) = {rows[i].tuple : i \in OfKey(rev, t)}
           /\ \A relation : ReadBySubject(rev, t.subject, relation)
                               = {rows[i].tuple : i \in OfSubject(rev, t, relation)}
<1>1. /\ Key(t.object, t.relation) = IndexKey(t)
      /\ IndexKey(t) \in Keys /\ t.subject \in Subjects
  BY DEF IndexKey, Keys, Subjects
<1>2. /\ index[IndexKey(t)] = {i \in Offsets : IndexKey(rows[i].tuple) = IndexKey(t)}
      /\ reverse[t.subject] = {i \in Offsets : rows[i].tuple.subject = t.subject}
  BY <1>1 DEF IInv, IndexesExact
<1>3. Read(rev, t.object, t.relation) =
        {rows[i].tuple : i \in {j \in index[IndexKey(t)] : IsVisible(rows[j], rev)}}
  BY <1>1 DEF Read
<1>4. ASSUME NEW relation
      PROVE  ReadBySubject(rev, t.subject, relation)
               = {rows[i].tuple : i \in OfSubject(rev, t, relation)}
  <2> HIDE DEF NoRelation
  <2>1. {j \in reverse[t.subject] : /\ relation \in {NoRelation, rows[j].tuple.relation}
                                    /\ IsVisible(rows[j], rev)}
          = OfSubject(rev, t, relation)
    BY <1>2 DEF OfSubject
  <2> QED
    BY <2>1 DEF ReadBySubject
<1>5. {j \in index[IndexKey(t)] : IsVisible(rows[j], rev)} = OfKey(rev, t)
  BY <1>2 DEF OfKey
<1> QED
  BY <1>3, <1>4, <1>5

(* What an idle store returns is what the abstract store has: entry for    *)
(* entry, and tuple for tuple where a relation owns its key.               *)
THEOREM ReadsCorrect == Spec => []ReadsAgree
<1> DEFINE World(rev) == Abstract!World(rev)
           Visible(rev) == {i \in Offsets : IsVisible(rows[i], rev)}
<1>1. ASSUME IInv, Readable, NEW rev \in 0..(head + 1)
      PROVE  World(rev) = {Entry[rows[i].tuple] : i \in Visible(rev)}
  BY <1>1, WorldIsVisible DEF VisibleAt
<1>2. ASSUME IInv, NEW i \in Offsets
      PROVE  /\ rows[i].tuple \in Tuples /\ Entry[rows[i].tuple] \in Tuples
             /\ IndexKey(Entry[rows[i].tuple]) = IndexKey(rows[i].tuple)
             /\ Entry[rows[i].tuple].subject = rows[i].tuple.subject
             /\ OwnsKey(rows[i].tuple) => Entry[rows[i].tuple] = rows[i].tuple
             /\ OwnsKey(Entry[rows[i].tuple]) => Entry[rows[i].tuple] = rows[i].tuple
  <2>1. rows[i].tuple \in Tuples
    BY <1>2, RowTypes DEF IInv
  <2> QED
    BY <2>1, EntryIs, OwnedEntry
<1> HIDE DEF World
<1>3. ASSUME IInv, Readable, NEW rev \in 0..(head + 1), NEW t \in Tuples
      PROVE  EntriesOf(Read(rev, t.object, t.relation))
               = {u \in World(rev) : IndexKey(u) = IndexKey(t)}
  <2>1. EntriesOf({rows[i].tuple : i \in OfKey(rev, t)})
          = {u \in World(rev) : IndexKey(u) = IndexKey(t)}
    BY <1>1, <1>2, <1>3 DEF EntriesOf, OfKey
  <2>2. Read(rev, t.object, t.relation) = {rows[i].tuple : i \in OfKey(rev, t)}
    BY <1>3, ReadsThrough
  <2> QED
    BY <2>1, <2>2
<1>4. ASSUME IInv, Readable, NEW rev \in 0..(head + 1), NEW t \in Tuples
      PROVE  EntriesOf(ReadBySubject(rev, t.subject, NoRelation))
               = Abstract!ReadBySubject(rev, t.subject, NoRelation)
  <2>1. Abstract!ReadBySubject(rev, t.subject, NoRelation)
          = {u \in World(rev) : u.subject = t.subject}
    BY DEF Abstract!ReadBySubject, NoRelation, Abstract!NoRelation, World
  <2> HIDE DEF NoRelation
  <2>2. EntriesOf({rows[i].tuple : i \in OfSubject(rev, t, NoRelation)})
          = {u \in World(rev) : u.subject = t.subject}
    BY <1>1, <1>2, <1>4 DEF EntriesOf, OfSubject
  <2>3. ReadBySubject(rev, t.subject, NoRelation)
          = {rows[i].tuple : i \in OfSubject(rev, t, NoRelation)}
    BY <1>4, ReadsThrough
  <2> QED
    BY <2>1, <2>2, <2>3
<1>5. ASSUME IInv, Readable, NEW rev \in 0..(head + 1), NEW t \in Tuples, OwnsKey(t)
      PROVE  Read(rev, t.object, t.relation) = Abstract!Read(rev, t.object, t.relation)
  <2>1. \A u \in Tuples : IndexKey(u) = IndexKey(t) <=> KeyOf(u) = KeyOf(t)
    BY <1>5, OwnedEntry DEF IndexKey, KeyOf, RelationKey
  <2>2. Abstract!Read(rev, t.object, t.relation) = {u \in World(rev) : KeyOf(u) = KeyOf(t)}
    BY DEF Abstract!Read, Abstract!KeyOf, Abstract!RelationKey, KeyOf, RelationKey, World
  <2>3. \A i \in Offsets : IndexKey(rows[i].tuple) = IndexKey(t)
                              => Entry[rows[i].tuple] = rows[i].tuple
    BY <1>2, <1>5, OwnedEntry
  <2>4. {rows[i].tuple : i \in OfKey(rev, t)} = {u \in World(rev) : KeyOf(u) = KeyOf(t)}
    BY <1>1, <1>2, <1>5, <2>1, <2>3 DEF OfKey
  <2>5. Read(rev, t.object, t.relation) = {rows[i].tuple : i \in OfKey(rev, t)}
    BY <1>5, ReadsThrough
  <2> QED
    BY <2>2, <2>4, <2>5
<1>6. ASSUME IInv, Readable, NEW rev \in 0..(head + 1), NEW t \in Tuples, NEW relation
      PROVE  Owned(ReadBySubject(rev, t.subject, relation))
               = Owned(Abstract!ReadBySubject(rev, t.subject, relation))
  <2>1. Abstract!ReadBySubject(rev, t.subject, relation)
          = {u \in World(rev) : u.subject = t.subject /\ relation \in {NoRelation, u.relation}}
    BY DEF Abstract!ReadBySubject, NoRelation, Abstract!NoRelation, World
  <2> HIDE DEF NoRelation
  <2>2. ReadBySubject(rev, t.subject, relation)
          = {rows[i].tuple : i \in OfSubject(rev, t, relation)}
    BY <1>6, ReadsThrough
  <2>3. ASSUME NEW i \in OfSubject(rev, t, relation), OwnsKey(rows[i].tuple)
        PROVE  /\ rows[i].tuple \in World(rev) /\ rows[i].tuple.subject = t.subject
               /\ relation \in {NoRelation, rows[i].tuple.relation}
    BY <1>1, <1>2, <1>6, <2>3 DEF OfSubject
  <2>4. ASSUME NEW u \in World(rev), OwnsKey(u), u.subject = t.subject,
               relation \in {NoRelation, u.relation}
        PROVE  \E i \in OfSubject(rev, t, relation) : u = rows[i].tuple
    <3>1. PICK i \in Visible(rev) : u = Entry[rows[i].tuple]
      BY <1>1, <1>6, <2>4
    <3>2. u = rows[i].tuple
      BY <1>2, <1>6, <2>4, <3>1
    <3> QED
      BY <2>4, <3>1, <3>2 DEF OfSubject
  <2> QED
    BY <2>1, <2>2, <2>3, <2>4 DEF Owned
<1>7. IInv => ReadsAgree
  BY <1>3, <1>4, <1>5, <1>6 DEF ReadsAgree, World
<1> QED
  BY Invariance, <1>7, PTL

----------------------------------------------------------------------------
(* The past, and the abstract store.                                       *)

LEMMA PastUnchanged ==
    ASSUME IInv, [Next]_vars, NEW rev \in 0..CommittedHead
    PROVE  VisibleAt(rev)' = VisibleAt(rev)
<1> USE DEF IInv
<1>1. head \in Nat
  BY MemoryMaxRevisionAssumption DEF TypeOK
<1>2. CASE RemoveOne
  <2>1. rev \in Nat /\ rev < head /\ Offsets' = Offsets
    BY <1>1, <1>2, RemoveEffect DEF RemoveOne, CommittedHead, Readable, TypeOK, Offsets
  <2>2. ASSUME NEW i \in Offsets
        PROVE  /\ rows'[i].tuple = rows[i].tuple
               /\ IsVisible(rows'[i], rev) <=> IsVisible(rows[i], rev)
    BY <1>1, <1>2, <2>1, RemoveEffect, RowTypes DEF IsVisible
  <2> QED
    BY <2>1, <2>2 DEF VisibleAt
<1>3. CASE AddRow
  <2> DEFINE new == Len(rows) + 1
  <2>1. rev \in Nat /\ rev < head /\ Offsets' = Offsets \cup {new}
    BY <1>1, <1>3, AddEffect DEF AddRow, CommittedHead, Readable, TypeOK, Offsets
  <2>2. rows'[new].created = head /\ \A i \in Offsets : rows'[i] = rows[i]
    BY <1>3, AddEffect
  <2>3. ~ IsVisible(rows'[new], rev)
    BY <1>1, <2>1, <2>2 DEF IsVisible
  <2> QED
    BY <2>1, <2>2, <2>3 DEF VisibleAt
<1>4. CASE UNCHANGED rows
  BY <1>4 DEF VisibleAt, Offsets
<1> QED
  BY <1>2, <1>3, <1>4
  DEF Next, BeginWrite, RemovesDone, AddDuplicate, EndWrite, dataVars, vars

(* No step of a write changes what an earlier revision shows: a check that *)
(* is pinned to a revision of the past reads one world, whatever is        *)
(* written while it runs.                                                  *)
THEOREM PastIsImmutable == Spec => HistoryImmutable
<1>1. IInv /\ [Next]_vars =>
        [\A rev \in 0..CommittedHead : VisibleAt(rev)' = VisibleAt(rev)]_vars
  BY PastUnchanged
<1> QED
  BY Invariance, <1>1, PTL DEF Spec, HistoryImmutable

(* The state of the abstract store, as Abstract substitutes it.            *)
CommittedHistory == [rev \in 0..CommittedHead |-> VisibleAt(rev)]

LEMMA StutterUnlessEnd ==
    ASSUME IInv, [Next]_vars, ~ EndWrite
    PROVE  UNCHANGED <<CommittedHead, CommittedHistory>>
<1>1. head \in Nat
  BY MemoryMaxRevisionAssumption DEF IInv, TypeOK
<1>2. CommittedHead' = CommittedHead
  BY <1>1 DEF Next, BeginWrite, RemoveOne, RemovesDone, AddDuplicate, AddRow,
              vars, CommittedHead, Readable
<1>3. \A rev \in 0..CommittedHead : VisibleAt(rev)' = VisibleAt(rev)
  BY PastUnchanged
<1> QED
  BY <1>2, <1>3 DEF CommittedHistory

LEMMA EndIsCommit ==
    ASSUME IInv, EndWrite
    PROVE  /\ Abstract!StoreNext
           /\ Abstract!Commit(Processed(adding, Len(adding)),
                              Processed(removing, Len(removing)))
<1> DEFINE add == Processed(adding, Len(adding))
           remove == Processed(removing, Len(removing))
<1>1. /\ head \in Nat \ {0} /\ head <= MaxRevision
      /\ CommittedHead = head - 1 /\ CommittedHead' = head
  BY MemoryMaxRevisionAssumption
  DEF IInv, TypeOK, EndWrite, dataVars, CommittedHead, Readable
<1>2. add \in SUBSET Tuples /\ remove \in SUBSET Tuples
  BY EntryIs DEF IInv, TypeOK, Processed
<1>3. next - 1 = Len(adding)
  BY LenProperties DEF IInv, TypeOK, WriteProgress, EndWrite
<1>4. VisibleAt(head) = (VisibleAt(head - 1) \ remove) \cup add
  BY <1>3 DEF IInv, WriteProgress, EndWrite
<1>5. \A rev \in 0..head : VisibleAt(rev)' = VisibleAt(rev)
  BY DEF EndWrite, dataVars, VisibleAt, Offsets
<1>6. CommittedHistory' = [rev \in 0..(CommittedHead + 1) |->
                             IF rev <= CommittedHead
                               THEN CommittedHistory[rev]
                               ELSE (CommittedHistory[CommittedHead] \ remove) \cup add]
  BY <1>1, <1>4, <1>5 DEF CommittedHistory
<1>7. Abstract!Commit(add, remove)
  BY <1>1, <1>6, MemoryMaxRevisionAssumption DEF Abstract!Commit, CommittedHistory
<1> QED
  BY <1>2, <1>7 DEF Abstract!StoreNext

(* The two loops of Write amount to one commit of the tuples in its lists. *)
THEOREM WritesCorrect == Spec => WritesCommit
<1>1. IInv /\ [Next]_vars =>
        [EndWrite => Abstract!Commit(Processed(adding, Len(adding)),
                                     Processed(removing, Len(removing)))]_vars
  BY EndIsCommit
<1> QED
  BY Invariance, <1>1, PTL DEF Spec, WritesCommit

(* Where each relation has a key of its own (KeysApart of NamingProofs), a *)
(* tuple is all that the loops of Write can take for it: what is said of   *)
(* entries here is said of tuples.                                         *)
THEOREM EntriesAreTuples ==
    ASSUME \A t \in Tuples : OwnsKey(t)
    PROVE  \A t \in Tuples : Entry[t] = t
BY OwnedEntry

(* A write of the in-process store, with its two loops and its indexes, is *)
(* one atomic commit of VersionedStore, whose readers the engine relies on.*)
THEOREM StoreImplemented == Spec => ImplementsStore
<1>1. Init => Abstract!StoreInit
  <2>1. Init => CommittedHead = 0 /\ \A rev \in {0} : VisibleAt(rev) = {}
    BY DEF Init, CommittedHead, Readable, VisibleAt, Offsets
  <2> QED
    BY <2>1 DEF Abstract!StoreInit
<1>2. IInv /\ [Next]_vars => [Abstract!StoreNext]_(Abstract!storeVars)
  BY StutterUnlessEnd, EndIsCommit DEF Abstract!storeVars, CommittedHistory
<1> QED
  BY Invariance, <1>1, <1>2, PTL DEF Spec, ImplementsStore, Abstract!StoreSpec

=============================================================================
